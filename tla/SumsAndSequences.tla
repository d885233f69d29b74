-------------------------- MODULE SumsAndSequences --------------------------
(***************************************************************************)
(* Facts about numbers, finite sets and sequences that several proofs      *)
(* need: least and greatest elements, induction over the natural numbers   *)
(* stated with a set, the cardinality of a disjoint union, sums over       *)
(* finite sets, and sequences put together from sequences.                 *)
(***************************************************************************)
EXTENDS Integers, FiniteSets, SequencesExt, FiniteSetTheorems, SequenceTheorems,
        WellFoundedInduction, TLAPS

\* A set of natural numbers has a least one.
LEMMA LeastExists ==
    ASSUME NEW S \in SUBSET Nat, S # {} PROVE \E x \in S : \A y \in S : x <= y
<1>1. PICK x \in S : \A y \in S : ~(<<y, x>> \in OpToRel(<, Nat))
  BY NatLessThanWellFounded, WFMin
<1>2. ASSUME NEW y \in S PROVE x <= y
  <2>1. ~(<<y, x>> \in OpToRel(<, Nat))
    BY <1>1
  <2>2. x \in Nat /\ y \in Nat
    OBVIOUS
  <2>3. ~(y < x)
    BY ONLY <2>1, <2>2, Zenon DEF OpToRel
  <2> QED BY ONLY <2>2, <2>3
<1> QED BY <1>2

\* Min is that least one.
LEMMA MinLeast ==
    ASSUME NEW S \in SUBSET Nat, S # {}
    PROVE  Min(S) \in S /\ \A y \in S : Min(S) <= y
BY LeastExists DEF Min

\* A bounded one has a greatest.
LEMMA MaxGreatest ==
    ASSUME NEW n \in Nat, NEW S \in SUBSET (0 .. n), S # {}
    PROVE  Max(S) \in S /\ \A y \in S : Max(S) >= y
<1> DEFINE T == {n - x : x \in S}
<1>1. T \in SUBSET Nat /\ T # {}
  <2>1. \A x \in S : x \in 0 .. n /\ n - x \in Nat
    OBVIOUS
  <2>2. PICK x : x \in S
    OBVIOUS
  <2>3. n - x \in T
    BY <2>2
  <2> QED BY <2>1, <2>3
<1>2. PICK t \in T : \A u \in T : t <= u
  BY <1>1, LeastExists
<1>3. PICK x \in S : t = n - x
  OBVIOUS
<1>4. \A y \in S : x >= y
  BY <1>2, <1>3
<1> QED BY <1>4 DEF Max

\* A nonempty set of numbers up to n has a greatest one
LEMMA GreatestExists ==
    ASSUME NEW n \in Nat, NEW S \in SUBSET (0..n), S # {}
    PROVE  \E x \in S : \A y \in S : y =< x
<1> DEFINE Below == {n - y : y \in S}
<1>1. Below \in SUBSET Nat /\ Below # {}
  <2>1. \A y \in S : n - y \in Nat
    OBVIOUS
  <2> QED BY <2>1
<1>2. PICK b \in Below : \A y \in Below : b <= y
  BY <1>1, LeastExists
<1>3. PICK x \in S : b = n - x
  OBVIOUS
<1>4. ASSUME NEW y \in S PROVE y =< x
  <2>1. n - x <= n - y /\ x \in 0..n /\ y \in 0..n
    BY <1>2, <1>3
  <2> QED BY <2>1
<1> QED BY <1>4

\* Two functions of the parts of a finite set of numbers agree when from each part without its
\* least element they go on alike.
LEMMA FoldsAgree ==
    ASSUME NEW S \in SUBSET Nat, IsFiniteSet(S), NEW g, NEW h, g[{}] = h[{}],
           \A T \in SUBSET S : T # {} /\ g[T \ {Min(T)}] = h[T \ {Min(T)}] => g[T] = h[T]
    PROVE  g[S] = h[S]
<1> SUFFICES ASSUME g[S] # h[S] PROVE FALSE
  OBVIOUS
<1> DEFINE Apart == {T \in SUBSET S : g[T] # h[T]}
           Sizes == {Cardinality(T) : T \in Apart}
<1>1. \A T \in SUBSET S : IsFiniteSet(T) /\ Cardinality(T) \in Nat
  BY FS_Subset, FS_CardinalityType
<1>2. Sizes \in SUBSET Nat /\ Sizes # {}
  BY <1>1
<1>3. PICK m \in Sizes : \A k \in Sizes : m <= k
  BY <1>2, LeastExists
<1>4. PICK T \in Apart : m = Cardinality(T)
  OBVIOUS
<1>5. T # {} /\ Min(T) \in T
  BY MinLeast
<1>6. Cardinality(T \ {Min(T)}) = m - 1 /\ m \in Nat
  BY <1>1, <1>4, <1>5, FS_RemoveElement
<1>7. T \ {Min(T)} \notin Apart
  BY <1>3, <1>6
<1> QED BY <1>5, <1>7

\* Of two finite sets with nothing in common, the union has as many elements as both.
LEMMA DisjointUnion ==
    ASSUME NEW A, NEW B, IsFiniteSet(A), IsFiniteSet(B), A \cap B = {}
    PROVE  Cardinality(A \cup B) = Cardinality(A) + Cardinality(B)
<1>1. Cardinality(A \cup B) = Cardinality(A) + Cardinality(B) - Cardinality(A \cap B)
  BY FS_Union
<1>2. Cardinality(A) \in Nat /\ Cardinality(B) \in Nat /\ Cardinality(A \cap B) = 0
  BY FS_CardinalityType, FS_EmptySet
<1> QED BY <1>1, <1>2

\* Induction over the natural numbers, of a set
LEMMA SetInduction ==
    ASSUME NEW T \in SUBSET Nat, 0 \in T, \A n \in T : n + 1 \in T
    PROVE  T = Nat
<1>1. SUFFICES ASSUME NEW Out, Out = Nat \ T, Out # {} PROVE FALSE
  OBVIOUS
<1>2. PICK x \in Out : \A y \in Out : x <= y
  BY <1>1, LeastExists
<1>3. x # 0 /\ x - 1 \notin Out
  BY <1>1, <1>2
<1>4. x - 1 \in T /\ (x - 1) + 1 = x
  BY <1>1, <1>3
<1> QED BY <1>1, <1>2, <1>4

-----------------------------------------------------------------------------
(***************************************************************************)
(* Sums over finite sets.                                                  *)
(*                                                                         *)
(* SumFunctionOnSet is a CHOOSE of a function that is its own unfolding.   *)
(* Such a function exists and is unique, by induction over the             *)
(* cardinality, so the sum unfolds; everything else follows from that.     *)
(***************************************************************************)

\* The element a sum takes next, and one unfolding of SumFunctionOnSet
Some(S) == CHOOSE x \in S : TRUE
Unfolded(f, S, g) == [T \in SUBSET S |-> IF T = {} THEN 0 ELSE f[Some(T)] + g[T \ {Some(T)}]]

\* A sum is the value of a function that is its own unfolding.
LEMMA SumIsChosen ==
    ASSUME NEW f, NEW S
    PROVE  SumFunctionOnSet(f, S) = (CHOOSE g : g = Unfolded(f, S, g))[S]
  BY Zenon DEF SumFunctionOnSet, FoldFunctionOnSet, MapThenFoldSet, Unfolded, Some

\* Of a finite set, one element less is one less.
LEMMA OneLess ==
    ASSUME NEW S, IsFiniteSet(S), NEW n \in Nat, Cardinality(S) = n + 1, NEW x \in S
    PROVE  IsFiniteSet(S \ {x}) /\ Cardinality(S \ {x}) = n
  BY FS_RemoveElement

\* The element taken next is one of the set.
LEMMA SomeIn == ASSUME NEW S, S # {} PROVE Some(S) \in S
  BY DEF Some

\* There is such a function.
LEMMA UnfoldedExists ==
    ASSUME NEW f, NEW S, IsFiniteSet(S) PROVE \E g : g = Unfolded(f, S, g)
<1> DEFINE Until(n, g) == \A T \in SUBSET S : Cardinality(T) =< n => g[T] = Unfolded(f, S, g)[T]
           Reached == {n \in Nat : \E g : Until(n, g)}
<1>1. \A T \in SUBSET S : IsFiniteSet(T) /\ Cardinality(T) \in Nat /\ (Cardinality(T) = 0 <=> T = {})
  BY FS_Subset, FS_CardinalityType, FS_EmptySet
<1>2. 0 \in Reached
  <2> DEFINE g == [T \in SUBSET S |-> 0]
  <2>1. Until(0, g)
    BY <1>1 DEF Unfolded
  <2> QED BY <2>1
<1>3. ASSUME NEW n \in Reached PROVE n + 1 \in Reached
  <2>1. PICK g : Until(n, g)
    OBVIOUS
  <2> DEFINE h == [T \in SUBSET S |-> IF Cardinality(T) =< n THEN g[T] ELSE Unfolded(f, S, g)[T]]
  <2>2. ASSUME NEW T \in SUBSET S, Cardinality(T) =< n + 1, T # {}
        PROVE  h[T \ {Some(T)}] = g[T \ {Some(T)}]
    <3>1. PICK m \in Nat : Cardinality(T) = m + 1 /\ m =< n
      BY <1>1, <2>2
    <3>2. Cardinality(T \ {Some(T)}) = m
      BY <1>1, <2>2, <3>1, SomeIn, OneLess
    <3> QED BY <3>1, <3>2
  <2>3. ASSUME NEW T \in SUBSET S, Cardinality(T) =< n + 1 PROVE h[T] = Unfolded(f, S, h)[T]
    <3>1. Unfolded(f, S, h)[T] = Unfolded(f, S, g)[T]
      BY <2>2, <2>3 DEF Unfolded
    <3>2. h[T] = Unfolded(f, S, g)[T]
      BY <2>1
    <3> QED BY <3>1, <3>2
  <2>4. Until(n + 1, h)
    BY <2>3
  <2>5. \E u : Until(n + 1, u)
    BY <2>4
  <2> QED BY <2>5
<1>4. Reached = Nat
  <2> HIDE DEF Reached
  <2>1. Reached \in SUBSET Nat
    BY DEF Reached
  <2> QED BY <1>2, <1>3, <2>1, SetInduction
<1>5. PICK g : Until(Cardinality(S), g)
  BY <1>1, <1>4
<1>6. ASSUME NEW T \in SUBSET S PROVE g[T] = Unfolded(f, S, g)[T]
  <2>1. Cardinality(T) =< Cardinality(S)
    BY FS_Subset
  <2> QED BY <1>5, <2>1
<1> DEFINE h == [T \in SUBSET S |-> g[T]]
<1>7. h = Unfolded(f, S, h)
  <2>1. ASSUME NEW T \in SUBSET S PROVE Unfolded(f, S, h)[T] = Unfolded(f, S, g)[T]
    BY DEF Unfolded
  <2> QED BY <1>6, <2>1 DEF Unfolded
<1> QED BY <1>7

\* And only one: what two such functions make of a common subset is the same.
LEMMA UnfoldedUnique ==
    ASSUME NEW f, NEW S, NEW T, IsFiniteSet(S), IsFiniteSet(T), NEW g, NEW h,
           g = Unfolded(f, S, g), h = Unfolded(f, T, h), NEW U, U \subseteq S, U \subseteq T
    PROVE  g[U] = h[U]
<1> DEFINE Agree == {n \in Nat : \A V \in SUBSET (S \cap T) : Cardinality(V) = n => g[V] = h[V]}
<1>1. \A V \in SUBSET (S \cap T) :
        IsFiniteSet(V) /\ Cardinality(V) \in Nat /\ (Cardinality(V) = 0 <=> V = {})
  BY FS_Subset, FS_CardinalityType, FS_EmptySet
<1>2. ASSUME NEW V \in SUBSET (S \cap T)
      PROVE  /\ g[V] = IF V = {} THEN 0 ELSE f[Some(V)] + g[V \ {Some(V)}]
             /\ h[V] = IF V = {} THEN 0 ELSE f[Some(V)] + h[V \ {Some(V)}]
  <2>1. V \in SUBSET S /\ V \in SUBSET T
    OBVIOUS
  <2>2. Unfolded(f, S, g)[V] = IF V = {} THEN 0 ELSE f[Some(V)] + g[V \ {Some(V)}]
    BY <2>1 DEF Unfolded
  <2>3. Unfolded(f, T, h)[V] = IF V = {} THEN 0 ELSE f[Some(V)] + h[V \ {Some(V)}]
    BY <2>1 DEF Unfolded
  <2> QED BY <2>2, <2>3
<1>3. 0 \in Agree
  BY <1>1, <1>2
<1>4. ASSUME NEW n \in Agree PROVE n + 1 \in Agree
  <2>1. ASSUME NEW V \in SUBSET (S \cap T), Cardinality(V) = n + 1 PROVE g[V] = h[V]
    <3>1. V # {} /\ Some(V) \in V
      BY <1>1, <2>1, SomeIn
    <3>2. Cardinality(V \ {Some(V)}) = n /\ V \ {Some(V)} \in SUBSET (S \cap T)
      BY <1>1, <2>1, <3>1, OneLess
    <3>3. g[V \ {Some(V)}] = h[V \ {Some(V)}]
      BY <3>2
    <3> QED BY <1>2, <3>1, <3>3
  <2> QED BY <2>1
<1>5. Agree = Nat
  <2> HIDE DEF Agree
  <2>1. Agree \in SUBSET Nat
    BY DEF Agree
  <2> QED BY <1>3, <1>4, <2>1, SetInduction
<1> QED BY <1>1, <1>5

\* A sum unfolds.
LEMMA SumUnfolds ==
    ASSUME NEW f, NEW S, IsFiniteSet(S)
    PROVE  /\ S = {} => SumFunctionOnSet(f, S) = 0
           /\ S # {} => SumFunctionOnSet(f, S) = f[Some(S)] + SumFunctionOnSet(f, S \ {Some(S)})
<1> DEFINE T == S \ {Some(S)}
           g == CHOOSE g : g = Unfolded(f, S, g)
           h == CHOOSE h : h = Unfolded(f, T, h)
<1>1. IsFiniteSet(T)
  BY FS_Subset
<1>2. g = Unfolded(f, S, g) /\ h = Unfolded(f, T, h)
  <2>1. \E u : u = Unfolded(f, S, u)
    BY UnfoldedExists
  <2>2. \E u : u = Unfolded(f, T, u)
    BY <1>1, UnfoldedExists
  <2> QED BY <2>1, <2>2
<1>3. SumFunctionOnSet(f, S) = g[S] /\ SumFunctionOnSet(f, T) = h[T]
  BY SumIsChosen
<1> HIDE DEF g, h
<1>4. g[T] = h[T]
  BY <1>1, <1>2, UnfoldedUnique
<1>5. g[S] = IF S = {} THEN 0 ELSE f[Some(S)] + g[T]
  <2>1. Unfolded(f, S, g)[S] = IF S = {} THEN 0 ELSE f[Some(S)] + g[T]
    BY DEF Unfolded
  <2> QED BY <1>2, <2>1
<1> QED BY <1>3, <1>4, <1>5

\* A sum of natural numbers is one.
LEMMA SumIsNat ==
    ASSUME NEW f, NEW S, IsFiniteSet(S), \A x \in S : f[x] \in Nat
    PROVE  SumFunctionOnSet(f, S) \in Nat
<1> DEFINE Sound == {n \in Nat : \A T \in SUBSET S :
                                   Cardinality(T) = n => SumFunctionOnSet(f, T) \in Nat}
<1>1. \A T \in SUBSET S :
        IsFiniteSet(T) /\ Cardinality(T) \in Nat /\ (Cardinality(T) = 0 <=> T = {})
  BY FS_Subset, FS_CardinalityType, FS_EmptySet
<1>2. 0 \in Sound
  BY <1>1, SumUnfolds
<1>3. ASSUME NEW n \in Sound PROVE n + 1 \in Sound
  <2>1. ASSUME NEW T \in SUBSET S, Cardinality(T) = n + 1 PROVE SumFunctionOnSet(f, T) \in Nat
    <3>1. T # {} /\ Some(T) \in T
      BY <1>1, <2>1, SomeIn
    <3>2. SumFunctionOnSet(f, T) = f[Some(T)] + SumFunctionOnSet(f, T \ {Some(T)})
      BY <1>1, <3>1, SumUnfolds
    <3>3. Cardinality(T \ {Some(T)}) = n /\ T \ {Some(T)} \in SUBSET S
      BY <1>1, <2>1, <3>1, OneLess
    <3>4. SumFunctionOnSet(f, T \ {Some(T)}) \in Nat
      BY <3>3
    <3> QED BY <3>1, <3>2, <3>4
  <2> QED BY <2>1
<1>4. Sound = Nat
  <2> HIDE DEF Sound
  <2>1. Sound \in SUBSET Nat
    BY DEF Sound
  <2> QED BY <1>2, <1>3, <2>1, SetInduction
<1> QED BY <1>1, <1>4

\* A sum is what any of its elements adds to the sum of the others.
LEMMA SumOfParts ==
    ASSUME NEW f, NEW S, IsFiniteSet(S), \A x \in S : f[x] \in Nat, NEW y \in S
    PROVE  SumFunctionOnSet(f, S) = f[y] + SumFunctionOnSet(f, S \ {y})
<1> DEFINE Parts(T) == \A x \in T : SumFunctionOnSet(f, T) = f[x] + SumFunctionOnSet(f, T \ {x})
           Sound == {n \in Nat : \A T \in SUBSET S : Cardinality(T) = n => Parts(T)}
<1>1. \A T \in SUBSET S :
        IsFiniteSet(T) /\ Cardinality(T) \in Nat /\ (Cardinality(T) = 0 <=> T = {})
  BY FS_Subset, FS_CardinalityType, FS_EmptySet
<1>2. 0 \in Sound
  BY <1>1
<1>3. ASSUME NEW n \in Sound PROVE n + 1 \in Sound
  <2>1. ASSUME NEW T \in SUBSET S, Cardinality(T) = n + 1 PROVE Parts(T)
    <3> DEFINE c == Some(T)
    <3>1. T # {} /\ c \in T
      BY <1>1, <2>1, SomeIn
    <3>2. SumFunctionOnSet(f, T) = f[c] + SumFunctionOnSet(f, T \ {c})
      BY <1>1, <3>1, SumUnfolds
    <3> HIDE DEF c
    <3>3. \A x \in T : Cardinality(T \ {x}) = n /\ T \ {x} \in SUBSET S
      BY <1>1, <2>1, OneLess
    <3>4. \A x \in T : Parts(T \ {x})
      BY <3>3
    <3>5. ASSUME NEW x \in T, x # c
          PROVE  SumFunctionOnSet(f, T) = f[x] + SumFunctionOnSet(f, T \ {x})
      <4> DEFINE rest == (T \ {c}) \ {x}
      <4>1. SumFunctionOnSet(f, T \ {c}) = f[x] + SumFunctionOnSet(f, rest)
        BY <3>1, <3>4, <3>5
      <4>2. SumFunctionOnSet(f, T \ {x}) = f[c] + SumFunctionOnSet(f, (T \ {x}) \ {c})
        BY <3>1, <3>4, <3>5
      <4>3. (T \ {x}) \ {c} = rest
        OBVIOUS
      <4>4. IsFiniteSet(rest) /\ \A z \in rest : f[z] \in Nat
        BY <1>1
      <4>5. f[x] \in Nat /\ f[c] \in Nat /\ SumFunctionOnSet(f, rest) \in Nat
        BY <3>1, <4>4, SumIsNat
      <4>6. SumFunctionOnSet(f, T \ {x}) = f[c] + SumFunctionOnSet(f, rest)
        BY <4>2, <4>3
      <4> HIDE DEF rest
      <4> QED BY ONLY <3>2, <4>1, <4>5, <4>6
    <3> QED BY <3>2, <3>5
  <2> QED BY <2>1
<1>4. Sound = Nat
  <2> HIDE DEF Sound
  <2>1. Sound \in SUBSET Nat
    BY DEF Sound
  <2> QED BY <1>2, <1>3, <2>1, SetInduction
<1> QED BY <1>1, <1>4

\* A sum depends on the values it adds only.
LEMMA SumOfSame ==
    ASSUME NEW f, NEW g, NEW S, IsFiniteSet(S), \A x \in S : f[x] = g[x]
    PROVE  SumFunctionOnSet(f, S) = SumFunctionOnSet(g, S)
<1> DEFINE Sound == {n \in Nat : \A T \in SUBSET S : Cardinality(T) = n =>
                                   SumFunctionOnSet(f, T) = SumFunctionOnSet(g, T)}
<1>1. \A T \in SUBSET S :
        IsFiniteSet(T) /\ Cardinality(T) \in Nat /\ (Cardinality(T) = 0 <=> T = {})
  BY FS_Subset, FS_CardinalityType, FS_EmptySet
<1>2. 0 \in Sound
  BY <1>1, SumUnfolds
<1>3. ASSUME NEW n \in Sound PROVE n + 1 \in Sound
  <2>1. ASSUME NEW T \in SUBSET S, Cardinality(T) = n + 1
        PROVE  SumFunctionOnSet(f, T) = SumFunctionOnSet(g, T)
    <3>1. T # {} /\ Some(T) \in T
      BY <1>1, <2>1, SomeIn
    <3>2. /\ SumFunctionOnSet(f, T) = f[Some(T)] + SumFunctionOnSet(f, T \ {Some(T)})
          /\ SumFunctionOnSet(g, T) = g[Some(T)] + SumFunctionOnSet(g, T \ {Some(T)})
      BY <1>1, <3>1, SumUnfolds
    <3>3. Cardinality(T \ {Some(T)}) = n /\ T \ {Some(T)} \in SUBSET S
      BY <1>1, <2>1, <3>1, OneLess
    <3>4. SumFunctionOnSet(f, T \ {Some(T)}) = SumFunctionOnSet(g, T \ {Some(T)})
      BY <3>3
    <3> QED BY <3>1, <3>2, <3>4
  <2> QED BY <2>1
<1>4. Sound = Nat
  <2> HIDE DEF Sound
  <2>1. Sound \in SUBSET Nat
    BY DEF Sound
  <2> QED BY <1>2, <1>3, <2>1, SetInduction
<1> QED BY <1>1, <1>4

\* One value more.
LEMMA SumWithOne ==
    ASSUME NEW f, NEW g, NEW S, IsFiniteSet(S), NEW x, x \notin S,
           \A y \in S : f[y] \in Nat /\ g[y] = f[y], g[x] \in Nat
    PROVE  SumFunctionOnSet(g, S \cup {x}) = SumFunctionOnSet(f, S) + g[x]
<1>1. IsFiniteSet(S \cup {x}) /\ (S \cup {x}) \ {x} = S
  BY FS_AddElement
<1>2. SumFunctionOnSet(g, S \cup {x}) = g[x] + SumFunctionOnSet(g, S)
  BY <1>1, SumOfParts
<1>3. SumFunctionOnSet(g, S) = SumFunctionOnSet(f, S)
  BY SumOfSame
<1> QED BY <1>2, <1>3, SumIsNat

\* One value that grows.
LEMMA SumGrows ==
    ASSUME NEW f, NEW g, NEW S, IsFiniteSet(S), NEW x \in S, NEW more \in Nat,
           \A y \in S : f[y] \in Nat /\ g[y] = IF y = x THEN f[y] + more ELSE f[y]
    PROVE  SumFunctionOnSet(g, S) = SumFunctionOnSet(f, S) + more
<1>1. IsFiniteSet(S \ {x})
  BY FS_Subset
<1>2. SumFunctionOnSet(g, S) = g[x] + SumFunctionOnSet(g, S \ {x})
  BY SumOfParts
<1>3. SumFunctionOnSet(f, S) = f[x] + SumFunctionOnSet(f, S \ {x})
  BY SumOfParts
<1>4. SumFunctionOnSet(g, S \ {x}) = SumFunctionOnSet(f, S \ {x})
  BY <1>1, SumOfSame
<1>5. SumFunctionOnSet(f, S \ {x}) \in Nat /\ f[x] \in Nat /\ g[x] = f[x] + more
  BY <1>1, SumIsNat
<1> QED BY <1>2, <1>3, <1>4, <1>5

\* A sum of nothing but zeros.
LEMMA SumOfZeros ==
    ASSUME NEW f, NEW S, IsFiniteSet(S), \A x \in S : f[x] = 0 PROVE SumFunctionOnSet(f, S) = 0
<1> DEFINE Sound == {n \in Nat : \A T \in SUBSET S : Cardinality(T) = n => SumFunctionOnSet(f, T) = 0}
<1>1. \A T \in SUBSET S :
        IsFiniteSet(T) /\ Cardinality(T) \in Nat /\ (Cardinality(T) = 0 <=> T = {})
  BY FS_Subset, FS_CardinalityType, FS_EmptySet
<1>2. 0 \in Sound
  BY <1>1, SumUnfolds
<1>3. ASSUME NEW n \in Sound PROVE n + 1 \in Sound
  <2>1. ASSUME NEW T \in SUBSET S, Cardinality(T) = n + 1 PROVE SumFunctionOnSet(f, T) = 0
    <3>1. T # {} /\ Some(T) \in T
      BY <1>1, <2>1, SomeIn
    <3>2. SumFunctionOnSet(f, T) = f[Some(T)] + SumFunctionOnSet(f, T \ {Some(T)})
      BY <1>1, <3>1, SumUnfolds
    <3>3. Cardinality(T \ {Some(T)}) = n /\ T \ {Some(T)} \in SUBSET S
      BY <1>1, <2>1, <3>1, OneLess
    <3> QED BY <3>1, <3>2, <3>3
  <2> QED BY <2>1
<1>4. Sound = Nat
  <2> HIDE DEF Sound
  <2>1. Sound \in SUBSET Nat
    BY DEF Sound
  <2> QED BY <1>2, <1>3, <2>1, SetInduction
<1> QED BY <1>1, <1>4

(***************************************************************************)
(* Sequences of sequences: what FlattenSeq returns, from the recursion     *)
(* that defines it.                                                        *)
(***************************************************************************)

Iterates(g, base, n, step) ==
    g = [i \in 0 .. n |-> IF i = 0 THEN base ELSE step[<<g[i - 1], i>>]]

\* A recursion along 0 .. n has a solution, when its step stays within a set.
LEMMA Iteration ==
    ASSUME NEW V, NEW base \in V, NEW n \in Nat, NEW step \in [V \X (1 .. n) -> V]
    PROVE  \E g \in [0 .. n -> V] : Iterates(g, base, n, step)
<1> DEFINE Until(k, g) == \A i \in 0 .. n : i =< k =>
                              g[i] = IF i = 0 THEN base ELSE step[<<g[i - 1], i>>]
           Reached == {k \in Nat : \E g \in [0 .. n -> V] : Until(k, g)}
<1>1. 0 \in Reached
  <2> DEFINE g == [i \in 0 .. n |-> base]
  <2>1. g \in [0 .. n -> V] /\ Until(0, g)
    OBVIOUS
  <2> QED BY <2>1
<1>2. ASSUME NEW k \in Reached PROVE k + 1 \in Reached
  <2>1. PICK g \in [0 .. n -> V] : Until(k, g)
    OBVIOUS
  <2> DEFINE h == [i \in 0 .. n |-> IF i = k + 1 THEN step[<<g[k], k + 1>>] ELSE g[i]]
  <2>2. k \in Nat
    OBVIOUS
  <2>3. h \in [0 .. n -> V]
    <3>1. ASSUME NEW i \in 0 .. n PROVE (IF i = k + 1 THEN step[<<g[k], k + 1>>] ELSE g[i]) \in V
      <4>1. CASE i = k + 1
        <5>1. k \in 0 .. n /\ k + 1 \in 1 .. n
          BY <2>2, <4>1
        <5>2. g[k] \in V
          BY <5>1
        <5>3. <<g[k], k + 1>> \in V \X (1 .. n)
          BY <5>1, <5>2
        <5> QED BY <4>1, <5>3
      <4> QED BY <4>1
    <3> QED BY <3>1
  <2>4. ASSUME NEW i \in 0 .. n, i =< k + 1
        PROVE  h[i] = IF i = 0 THEN base ELSE step[<<h[i - 1], i>>]
    <3>1. CASE i = k + 1
      <4>1. h[i] = step[<<g[k], k + 1>>] /\ i # 0 /\ i - 1 = k /\ k \in 0 .. n /\ h[k] = g[k]
        BY <2>2, <3>1
      <4> QED BY <3>1, <4>1
    <3>2. CASE i # k + 1
      <4>1. i =< k /\ h[i] = g[i]
        BY <2>2, <2>4, <3>2
      <4>2. i # 0 => i - 1 \in 0 .. n /\ i - 1 # k + 1
        BY <2>2, <4>1
      <4>3. i # 0 => h[i - 1] = g[i - 1]
        BY <4>2
      <4> QED BY <2>1, <4>1, <4>3
    <3> QED BY <3>1, <3>2
  <2>5. Until(k + 1, h)
    BY <2>4
  <2> HIDE DEF h
  <2> QED BY <2>2, <2>3, <2>5
<1>3. Reached = Nat
  <2> HIDE DEF Reached
  <2>1. Reached \in SUBSET Nat
    BY DEF Reached
  <2> QED BY <1>1, <1>2, <2>1, SetInduction
<1>4. PICK g \in [0 .. n -> V] : Until(n, g)
  BY <1>3
<1>5. g = [i \in 0 .. n |-> IF i = 0 THEN base ELSE step[<<g[i - 1], i>>]]
  <2>1. DOMAIN g = 0 .. n /\ \A i \in 0 .. n : g[i] = IF i = 0 THEN base ELSE step[<<g[i - 1], i>>]
    BY <1>4
  <2> QED BY <2>1
<1> QED BY <1>5 DEF Iterates

\* FlattenSeq adds one sequence after another.
LEMMA FlattenUnfolds ==
    ASSUME NEW X, NEW ss \in Seq(Seq(X))
    PROVE  \E f \in [0 .. Len(ss) -> Seq(X)] :
               /\ f[0] = <<>>
               /\ \A i \in 1 .. Len(ss) : f[i] = f[i - 1] \o ss[i]
               /\ FlattenSeq(ss) = f[Len(ss)]
<1> DEFINE n == Len(ss)
           step == [p \in Seq(X) \X (1 .. n) |-> p[1] \o ss[p[2]]]
<1>1. n \in Nat /\ step \in [Seq(X) \X (1 .. n) -> Seq(X)] /\ <<>> \in Seq(X)
  OBVIOUS
<1>2. PICK f \in [0 .. n -> Seq(X)] :
          f = [i \in 0 .. n |-> IF i = 0 THEN <<>> ELSE step[<<f[i - 1], i>>]]
  <2> HIDE DEF n, step
  <2>1. \E f \in [0 .. n -> Seq(X)] : Iterates(f, <<>>, n, step)
    BY <1>1, Iteration
  <2> QED BY <2>1 DEF Iterates
<1>3. ASSUME NEW i \in 1 .. n PROVE f[i] = f[i - 1] \o ss[i]
  <2>1. i \in 0 .. n /\ i - 1 \in 0 .. n /\ i # 0
    OBVIOUS
  <2>2. f[i] = step[<<f[i - 1], i>>] /\ f[i - 1] \in Seq(X)
    BY <1>2, <2>1
  <2> QED BY <2>2
<1>4. f[0] = <<>>
  BY <1>1, <1>2
<1>5. FlattenSeq(ss) = f[n]
  <2>1. CASE n = 0
    <3>1. ss = <<>>
      BY <2>1
    <3> QED BY <1>4, <2>1, <3>1 DEF FlattenSeq
  <2>2. CASE n # 0
    <3> DEFINE g == [i \in 1 .. n |-> f[i]]
               Solves(h) == h = [i \in 1 .. n |-> IF i = 1 THEN ss[i] ELSE h[i - 1] \o ss[i]]
    <3>1. Solves(g)
      <4>1. ASSUME NEW i \in 1 .. n PROVE g[i] = IF i = 1 THEN ss[i] ELSE g[i - 1] \o ss[i]
        <5>1. i = 1 => f[i] = ss[i]
          <6>1. ss[i] \in Seq(X)
            OBVIOUS
          <6>2. f[i] = f[i - 1] \o ss[i]
            BY <1>3
          <6>3. i = 1 => i - 1 = 0
            OBVIOUS
          <6>4. <<>> \o ss[i] = ss[i]
            BY <6>1
          <6> QED BY <1>4, <6>2, <6>3, <6>4
        <5>2. i # 1 => i - 1 \in 1 .. n
          OBVIOUS
        <5> QED BY <1>3, <5>1, <5>2
      <4> QED BY <4>1
    <3> DEFINE h == CHOOSE h : Solves(h)
    <3>2. Solves(h)
      BY <3>1
    <3>3. \A i \in Nat : i \in 1 .. n => h[i] = g[i]
      <4> DEFINE T == {i \in Nat : i \in 1 .. n => h[i] = g[i]}
      <4>1. 0 \in T
        OBVIOUS
      <4>2. ASSUME NEW i \in T PROVE i + 1 \in T
        <5>1. i \in Nat
          OBVIOUS
        <5>2. SUFFICES ASSUME i + 1 \in 1 .. n PROVE h[i + 1] = g[i + 1]
          BY <5>1
        <5>3. h[i + 1] = IF i + 1 = 1 THEN ss[i + 1] ELSE h[(i + 1) - 1] \o ss[i + 1]
          <6> HIDE DEF h
          <6> QED BY <3>2, <5>2
        <5>4. g[i + 1] = IF i + 1 = 1 THEN ss[i + 1] ELSE g[(i + 1) - 1] \o ss[i + 1]
          <6> HIDE DEF g
          <6> QED BY <3>1, <5>2
        <5>5. i # 0 => i \in 1 .. n
          BY <5>1, <5>2
        <5>6. (i + 1) - 1 = i /\ (i + 1 = 1 <=> i = 0)
          BY <5>1
        <5>7. i # 0 => h[i] = g[i]
          BY <5>5
        <5> HIDE DEF h, g
        <5> QED BY <5>3, <5>4, <5>6, <5>7
      <4> HIDE DEF T
      <4>3. T \in SUBSET Nat
        BY DEF T
      <4>4. T = Nat
        BY <4>1, <4>2, <4>3, SetInduction
      <4> QED BY <4>4 DEF T
    <3>4. FlattenSeq(ss) = h[n]
      BY <2>2 DEF FlattenSeq
    <3>5. n \in 1 .. n
      BY <1>1, <2>2
    <3> HIDE DEF h
    <3> QED BY <3>3, <3>4, <3>5
  <2> QED BY <2>1, <2>2
<1> QED BY <1>3, <1>4, <1>5

\* Two that take the same steps are the same.
LEMMA IterationsAgree ==
    ASSUME NEW n \in Nat, NEW f, NEW g, f[0] = g[0],
           \A i \in 1 .. n : f[i - 1] = g[i - 1] => f[i] = g[i]
    PROVE  f[n] = g[n]
<1> DEFINE T == {i \in Nat : i =< n => f[i] = g[i]}
<1>1. 0 \in T
  OBVIOUS
<1>2. ASSUME NEW i \in T PROVE i + 1 \in T
  <2>1. i \in Nat
    OBVIOUS
  <2>2. SUFFICES ASSUME i + 1 =< n PROVE f[i + 1] = g[i + 1]
    BY <2>1
  <2>3. i + 1 \in 1 .. n /\ (i + 1) - 1 = i /\ f[i] = g[i]
    BY <2>1, <2>2
  <2> QED BY <2>3
<1> HIDE DEF T
<1>3. T \in SUBSET Nat
  BY DEF T
<1>4. T = Nat
  BY <1>1, <1>2, <1>3, SetInduction
<1> QED BY <1>4 DEF T

\* Flattening sequences over a set gives a sequence over that set.
LEMMA FlattenType ==
    ASSUME NEW X, NEW ss \in Seq(Seq(X)) PROVE FlattenSeq(ss) \in Seq(X)
<1>1. PICK f \in [0 .. Len(ss) -> Seq(X)] : FlattenSeq(ss) = f[Len(ss)]
  BY FlattenUnfolds
<1>2. Len(ss) \in 0 .. Len(ss)
  OBVIOUS
<1> QED BY <1>1, <1>2

\* Nothing flattens to nothing.
LEMMA FlattenEmpty == FlattenSeq(<<>>) = <<>>
  BY DEF FlattenSeq

\* One sequence more is added behind what the others flatten to.
LEMMA FlattenAppend ==
    ASSUME NEW X, NEW ss \in Seq(Seq(X)), NEW s \in Seq(X)
    PROVE  FlattenSeq(Append(ss, s)) = FlattenSeq(ss) \o s
<1> DEFINE tt == Append(ss, s)
           n == Len(ss)
<1>1. n \in Nat /\ tt \in Seq(Seq(X)) /\ Len(tt) = n + 1 /\ tt[n + 1] = s /\ \A i \in 1 .. n : tt[i] = ss[i]
  OBVIOUS
<1>2. PICK f : /\ f[0] = <<>>
               /\ \A i \in 1 .. n : f[i] = f[i - 1] \o ss[i]
               /\ FlattenSeq(ss) = f[n]
  BY FlattenUnfolds
<1>3. PICK g : /\ g[0] = <<>>
               /\ \A i \in 1 .. n + 1 : g[i] = g[i - 1] \o tt[i]
               /\ FlattenSeq(tt) = g[n + 1]
  <2> HIDE DEF tt, n
  <2>1. PICK g : /\ g[0] = <<>>
                 /\ \A i \in 1 .. Len(tt) : g[i] = g[i - 1] \o tt[i]
                 /\ FlattenSeq(tt) = g[Len(tt)]
    BY <1>1, FlattenUnfolds
  <2> QED BY <1>1, <2>1
<1> HIDE DEF tt, n
<1>4. g[n + 1] = g[n] \o s
  <2>1. n + 1 \in 1 .. n + 1 /\ (n + 1) - 1 = n
    BY <1>1
  <2>2. g[n + 1] = g[(n + 1) - 1] \o tt[n + 1]
    BY <1>3, <2>1
  <2> QED BY <1>1, <2>1, <2>2
<1>5. \A i \in 1 .. n : ss[i] = tt[i] /\ f[i] = f[i - 1] \o ss[i] /\ g[i] = g[i - 1] \o tt[i]
  <2> SUFFICES ASSUME NEW i \in 1 .. n
               PROVE  ss[i] = tt[i] /\ f[i] = f[i - 1] \o ss[i] /\ g[i] = g[i - 1] \o tt[i]
    OBVIOUS
  <2>1. i \in 1 .. n + 1
    BY <1>1
  <2> QED BY <1>1, <1>2, <1>3, <2>1
<1>6. f[n] = g[n]
  <2>1. f[0] = g[0] /\ n \in Nat
    BY <1>1, <1>2, <1>3
  <2>2. \A i \in 1 .. n : f[i - 1] = g[i - 1] => f[i] = g[i]
    BY <1>5
  <2> QED BY <2>1, <2>2, IterationsAgree
<1> QED BY <1>2, <1>3, <1>4, <1>6 DEF tt, n

\* One sequence flattens to itself.
LEMMA FlattenOne ==
    ASSUME NEW X, NEW s \in Seq(X) PROVE FlattenSeq(<<s>>) = s
<1>1. <<>> \in Seq(Seq(X)) /\ Append(<<>>, s) = <<s>>
  OBVIOUS
<1>2. FlattenSeq(Append(<<>>, s)) = FlattenSeq(<<>>) \o s
  BY <1>1, FlattenAppend
<1>3. <<>> \o s = s
  OBVIOUS
<1> QED BY <1>1, <1>2, <1>3, FlattenEmpty

\* Flattening distributes over concatenation.
LEMMA FlattenConcat ==
    ASSUME NEW X, NEW ss \in Seq(Seq(X)), NEW tt \in Seq(Seq(X))
    PROVE  FlattenSeq(ss \o tt) = FlattenSeq(ss) \o FlattenSeq(tt)
<1> DEFINE Holds(k) == \A uu \in Seq(Seq(X)) : Len(uu) = k => FlattenSeq(ss \o uu) = FlattenSeq(ss) \o FlattenSeq(uu)
           T == {k \in Nat : Holds(k)}
<1>1. 0 \in T
  <2>1. ASSUME NEW uu \in Seq(Seq(X)), Len(uu) = 0
        PROVE  FlattenSeq(ss \o uu) = FlattenSeq(ss) \o FlattenSeq(uu)
    <3>1. uu = <<>> /\ ss \o <<>> = ss
      BY <2>1
    <3>2. FlattenSeq(ss) \in Seq(X)
      BY FlattenType
    <3>3. FlattenSeq(ss) \o <<>> = FlattenSeq(ss)
      BY <3>2
    <3> QED BY <3>1, <3>3, FlattenEmpty
  <2> QED BY <2>1
<1>2. ASSUME NEW k \in T PROVE k + 1 \in T
  <2>1. k \in Nat /\ Holds(k)
    OBVIOUS
  <2>2. ASSUME NEW uu \in Seq(Seq(X)), Len(uu) = k + 1
        PROVE  FlattenSeq(ss \o uu) = FlattenSeq(ss) \o FlattenSeq(uu)
    <3> DEFINE front == SubSeq(uu, 1, k)
               last == uu[k + 1]
    <3>1. front \in Seq(Seq(X)) /\ Len(front) = k /\ last \in Seq(X) /\ uu = Append(front, last)
      BY <2>1, <2>2
    <3>2. ss \o front \in Seq(Seq(X)) /\ ss \o uu = Append(ss \o front, last)
      <4>1. ss \o front \in Seq(Seq(X))
        BY <3>1, ConcatProperties
      <4>2. ss \o Append(front, last) = Append(ss \o front, last)
        <5> HIDE DEF front, last
        <5> QED BY <3>1, SMTT(20)
      <4> QED BY <3>1, <4>1, <4>2
    <3> HIDE DEF front, last
    <3>3. FlattenSeq(ss \o front) = FlattenSeq(ss) \o FlattenSeq(front)
      BY <2>1, <3>1
    <3>4. FlattenSeq(ss \o uu) = (FlattenSeq(ss) \o FlattenSeq(front)) \o last
      <4>1. FlattenSeq(Append(ss \o front, last)) = FlattenSeq(ss \o front) \o last
        BY <3>1, <3>2, FlattenAppend
      <4> QED BY <3>2, <3>3, <4>1
    <3>5. FlattenSeq(uu) = FlattenSeq(front) \o last
      BY <3>1, FlattenAppend
    <3>6. FlattenSeq(ss) \in Seq(X) /\ FlattenSeq(front) \in Seq(X)
      BY <3>1, FlattenType
    <3>7. (FlattenSeq(ss) \o FlattenSeq(front)) \o last = FlattenSeq(ss) \o (FlattenSeq(front) \o last)
      BY ONLY <3>1, <3>6, ConcatAssociative, SMTT(20)
    <3> QED BY <3>4, <3>5, <3>7
  <2> QED BY <2>1, <2>2
<1> HIDE DEF T
<1>3. T \in SUBSET Nat
  BY DEF T
<1>4. T = Nat
  BY <1>1, <1>2, <1>3, SetInduction
<1>5. Len(tt) \in Nat
  OBVIOUS
<1> QED BY <1>4, <1>5 DEF T

\* Each element mapped, or replaced by a sequence.
LEMMA MapType ==
    ASSUME NEW S, NEW T, NEW s \in Seq(S), NEW t, t = [i \in DOMAIN s |-> t[i]],
           \A i \in DOMAIN s : t[i] \in T
    PROVE  t \in Seq(T) /\ Len(t) = Len(s)
  OBVIOUS

\* Each element replaced by a sequence.
LEMMA FlatType ==
    ASSUME NEW S, NEW T, NEW s \in Seq(S), NEW t, t = [i \in DOMAIN s |-> t[i]],
           \A i \in DOMAIN s : t[i] \in Seq(T)
    PROVE  FlattenSeq(t) \in Seq(T)
<1>1. t \in Seq(Seq(T))
  OBVIOUS
<1> QED BY <1>1, FlattenType

\* Elements all dropped leave nothing.
LEMMA FlattenNothing ==
    ASSUME NEW S, NEW s \in Seq(S), NEW t, t = [i \in DOMAIN s |-> t[i]], \A i \in DOMAIN s : t[i] = <<>>
    PROVE  FlattenSeq(t) = <<>>
<1>0. <<>> \in Seq({})
  OBVIOUS
<1>1. \A i \in DOMAIN s : t[i] \in Seq({})
  BY <1>0
<1>2. FlattenSeq(t) \in Seq({})
  BY <1>1, FlatType
<1> QED BY <1>2

=============================================================================

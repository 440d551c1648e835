----------------------------- MODULE SumTheorems -----------------------------
(***************************************************************************)
(* Facts about sums over finite sets, for the proofs about money.  The     *)
(* modules of the model sum with MapThenSumSet of the community modules,   *)
(* whose definition recurses over the subsets of the set.  Inductions are  *)
(* over a set of the sets that have been reached.                          *)
(***************************************************************************)
EXTENDS Integers, FiniteSets, FiniteSetsExt, FiniteSetTheorems, WellFoundedInduction, TLAPS

\* The sum of the values of a function over a set.
SumOf(w, S) == MapThenSumSet(LAMBDA x : w[x], S)

\* The function MapThenSumSet defines, which takes some element first.
Some(T) == CHOOSE x \in T : TRUE
IsSum(g, w, S) ==
  g = [T \in SUBSET S |-> IF T = {} THEN 0 ELSE w[Some(T)] + g[T \ {Some(T)}]]
SumFn(w, S) == CHOOSE g : IsSum(g, w, S)

-----------------------------------------------------------------------------
(* Induction. *)

\* A set of naturals has a least element.
LEMMA LeastNatural ==
  ASSUME NEW S \in SUBSET Nat, S # {}
  PROVE  \E m \in S : \A x \in S : ~(x < m)
<1>1. PICK m \in S : \A x \in S : <<x, m>> \notin OpToRel(<, Nat)
  BY NatLessThanWellFounded, WFMin
<1>. QED  BY <1>1 DEF OpToRel

\* A set that has 0 and the next of each of its naturals has them all.
LEMMA NatReached ==
  ASSUME NEW P, 0 \in P, \A n \in Nat : n \in P => n + 1 \in P, NEW k \in Nat
  PROVE  k \in P
<1>. DEFINE Bad == {n \in Nat : n \notin P}
<1>1. SUFFICES ASSUME k \notin P PROVE FALSE
  OBVIOUS
<1>2. PICK m \in Bad : \A x \in Bad : ~(x < m)
  BY <1>1, LeastNatural
<1>3. m # 0 /\ m - 1 \in Nat /\ m - 1 < m
  BY <1>2
<1>4. m - 1 \in P
  BY <1>2, <1>3
<1>5. (m - 1) + 1 \in P
  BY <1>3, <1>4
<1>. QED  BY <1>2, <1>5

\* A set of sets that has the empty one and, with a part of S, the part with
\* one more element of S, has S.
LEMMA SetReached ==
  ASSUME NEW S, IsFiniteSet(S), NEW P, {} \in P,
         \A T \in SUBSET S : \A x \in S \ T : T \in P => T \cup {x} \in P
  PROVE  S \in P
<1>. DEFINE N == {n \in Nat : \A T \in SUBSET S : Cardinality(T) = n => T \in P}
<1>1. \A T \in SUBSET S : IsFiniteSet(T) /\ Cardinality(T) \in Nat
  BY FS_Subset, FS_CardinalityType
<1>2. 0 \in N
  BY <1>1, FS_EmptySet
<1>3. ASSUME NEW n \in Nat, n \in N PROVE n + 1 \in N
  <2>. SUFFICES ASSUME NEW T \in SUBSET S, Cardinality(T) = n + 1 PROVE T \in P
    OBVIOUS
  <2>0. IsFiniteSet(T) /\ n + 1 # 0 /\ (n + 1) - 1 = n
    BY <1>1
  <2>1. T # {}
    <3>1. Cardinality({}) = 0
      BY FS_EmptySet
    <3>. QED  BY <2>0, <3>1
  <2>2. PICK x \in T : TRUE
    BY <2>1
  <2>3. Cardinality(T \ {x}) = n
    <3>1. Cardinality(T \ {x}) = Cardinality(T) - 1
      BY <2>0, FS_RemoveElement
    <3>. QED  BY <2>0, <3>1
  <2>4. T \ {x} \in P
    BY <1>3, <2>3
  <2>5. (T \ {x}) \cup {x} = T
    OBVIOUS
  <2>. QED  BY <2>4, <2>5
<1>. HIDE DEF N
<1>4. Cardinality(S) \in N
  BY <1>1, <1>2, <1>3, NatReached
<1>. QED  BY <1>4 DEF N

-----------------------------------------------------------------------------
(* The recursion. *)

LEMMA SumIsFn ==
  ASSUME NEW w, NEW S PROVE SumOf(w, S) = SumFn(w, S)[S]
BY DEF SumOf, MapThenSumSet, MapThenFoldSet, SumFn, IsSum, Some

\* The function exists, for the subsets up to each size.
LEMMA SumFnExists ==
  ASSUME NEW w, NEW S, IsFiniteSet(S) PROVE IsSum(SumFn(w, S), w, S)
<1>. DEFINE Sub(n) == {T \in SUBSET S : Cardinality(T) <= n}
            Def(g, n) == g = [T \in Sub(n) |->
              IF T = {} THEN 0 ELSE w[Some(T)] + g[T \ {Some(T)}]]
            N == {n \in Nat : \E g : Def(g, n)}
<1>1. \A T \in SUBSET S : IsFiniteSet(T) /\ Cardinality(T) \in Nat
                          /\ Cardinality(T) <= Cardinality(S)
  BY FS_Subset, FS_CardinalityType
<1>2. Sub(0) = {{}}
  BY <1>1, FS_EmptySet
<1>3. 0 \in N
  <2>. DEFINE g == [T \in Sub(0) |-> 0]
  <2>1. Def(g, 0)
    BY <1>2
  <2>. QED  BY <2>1
<1>4. ASSUME NEW n \in Nat, n \in N PROVE n + 1 \in N
  <2>1. PICK g : Def(g, n)
    BY <1>4
  <2>. DEFINE R(T) == w[Some(T)] + g[T \ {Some(T)}]
              h == [T \in Sub(n + 1) |-> IF T = {} THEN 0 ELSE R(T)]
  <2>2. ASSUME NEW T \in Sub(n + 1), T # {}, NEW x \in T
        PROVE  T \ {x} \in Sub(n)
    BY <1>1, <2>2, FS_RemoveElement
  <2>3. ASSUME NEW T \in Sub(n) PROVE T \in Sub(n + 1) /\ h[T] = g[T]
    <3>1. T \in Sub(n + 1)
      BY <1>1
    <3>2. g[T] = IF T = {} THEN 0 ELSE R(T)
      BY <2>1, <2>3
    <3>3. h[T] = IF T = {} THEN 0 ELSE R(T)
      BY <3>1
    <3>. QED  BY <3>1, <3>2, <3>3
  <2>4. ASSUME NEW T \in Sub(n + 1), T # {}
        PROVE  h[T] = w[Some(T)] + h[T \ {Some(T)}]
    <3>1. Some(T) \in T
      BY <2>4 DEF Some
    <3>2. h[T \ {Some(T)}] = g[T \ {Some(T)}]
      BY <3>1, <2>2, <2>3, <2>4
    <3>3. h[T] = w[Some(T)] + g[T \ {Some(T)}]
      BY <2>4
    <3>. QED  BY <3>2, <3>3
  <2>5. \A T \in Sub(n + 1) : h[T] = IF T = {} THEN 0 ELSE w[Some(T)] + h[T \ {Some(T)}]
    BY <2>4
  <2>6. Def(h, n + 1)
    <3>. DEFINE k == [T \in Sub(n + 1) |->
                        IF T = {} THEN 0 ELSE w[Some(T)] + h[T \ {Some(T)}]]
    <3>1. \A T \in Sub(n + 1) : h[T] = k[T]
      BY <2>5
    <3>2. h = k
      BY <3>1
    <3>. QED  BY <3>2
  <2>. HIDE DEF h, Def
  <2>. QED  BY <2>6
<1>. HIDE DEF N
<1>5. Cardinality(S) \in N
  BY <1>1, <1>3, <1>4, NatReached
<1>6. Sub(Cardinality(S)) = SUBSET S
  BY <1>1
<1>7. \E g : IsSum(g, w, S)
  BY <1>5, <1>6 DEF N, IsSum
<1>. QED  BY <1>7 DEF SumFn

LEMMA SumFnIs ==
  ASSUME NEW w, NEW S, IsFiniteSet(S), NEW T \in SUBSET S
  PROVE  /\ T = {} => SumFn(w, S)[T] = 0
         /\ T # {} => SumFn(w, S)[T] = w[Some(T)] + SumFn(w, S)[T \ {Some(T)}]
<1>1. ASSUME NEW g, IsSum(g, w, S)
      PROVE  /\ T = {} => g[T] = 0
             /\ T # {} => g[T] = w[Some(T)] + g[T \ {Some(T)}]
  BY <1>1 DEF IsSum
<1>. QED  BY <1>1, SumFnExists

\* The function of a set sums its subsets as their own functions do.
LEMMA SumFnRestricts ==
  ASSUME NEW w, NEW S, IsFiniteSet(S), NEW U \in SUBSET S
  PROVE  SumFn(w, S)[U] = SumFn(w, U)[U]
<1>. DEFINE g == SumFn(w, S)
            h == SumFn(w, U)
            N == {n \in Nat : \A T \in SUBSET U : Cardinality(T) = n => g[T] = h[T]}
<1>1. IsFiniteSet(U) /\ \A T \in SUBSET U : IsFiniteSet(T) /\ Cardinality(T) \in Nat
  BY FS_Subset, FS_CardinalityType
<1>2. ASSUME NEW T \in SUBSET U
      PROVE  /\ T = {} => g[T] = 0 /\ h[T] = 0
             /\ T # {} => /\ g[T] = w[Some(T)] + g[T \ {Some(T)}]
                          /\ h[T] = w[Some(T)] + h[T \ {Some(T)}]
  <2>1. T \in SUBSET S
    OBVIOUS
  <2>2. /\ T = {} => g[T] = 0
        /\ T # {} => g[T] = w[Some(T)] + g[T \ {Some(T)}]
    BY <2>1, SumFnIs
  <2>3. /\ T = {} => h[T] = 0
        /\ T # {} => h[T] = w[Some(T)] + h[T \ {Some(T)}]
    BY <1>1, SumFnIs
  <2>. QED  BY <2>2, <2>3
<1>. HIDE DEF g, h
<1>3. 0 \in N
  BY <1>1, <1>2, FS_EmptySet
<1>4. ASSUME NEW n \in Nat, n \in N PROVE n + 1 \in N
  <2>. SUFFICES ASSUME NEW T \in SUBSET U, Cardinality(T) = n + 1 PROVE g[T] = h[T]
    OBVIOUS
  <2>1. IsFiniteSet(T) /\ n + 1 # 0 /\ (n + 1) - 1 = n
    BY <1>1
  <2>2. T # {}
    <3>1. Cardinality({}) = 0
      BY FS_EmptySet
    <3>. QED  BY <2>1, <3>1
  <2>. DEFINE x == Some(T)
  <2>3. x \in T
    BY <2>2 DEF Some
  <2>. HIDE DEF x
  <2>4. Cardinality(T \ {x}) = n
    <3>1. Cardinality(T \ {x}) = Cardinality(T) - 1
      BY <2>1, <2>3, FS_RemoveElement
    <3>. QED  BY <2>1, <3>1
  <2>5. g[T \ {x}] = h[T \ {x}]
    BY <1>4, <2>4
  <2>6. g[T] = w[x] + g[T \ {x}] /\ h[T] = w[x] + h[T \ {x}]
    BY <1>2, <2>2 DEF x
  <2>. QED  BY <2>5, <2>6
<1>. HIDE DEF N
<1>5. Cardinality(U) \in N
  BY <1>1, <1>3, <1>4, NatReached
<1>6. g[U] = h[U]
  BY <1>5 DEF N
<1>. QED  BY <1>6 DEF g, h

-----------------------------------------------------------------------------
(* What a sum is, in terms of its set alone. *)

LEMMA SumEmpty == ASSUME NEW w PROVE SumOf(w, {}) = 0
<1>1. IsFiniteSet({})
  BY FS_EmptySet
<1>. QED  BY <1>1, SumIsFn, SumFnIs

LEMMA SumChosen ==
  ASSUME NEW w, NEW S, IsFiniteSet(S), S # {}
  PROVE  Some(S) \in S /\ SumOf(w, S) = w[Some(S)] + SumOf(w, S \ {Some(S)})
<1>0. Some(S) \in S
  BY DEF Some
<1>1. SumFn(w, S)[S] = w[Some(S)] + SumFn(w, S)[S \ {Some(S)}]
  BY SumFnIs
<1>2. SumFn(w, S)[S \ {Some(S)}] = SumFn(w, S \ {Some(S)})[S \ {Some(S)}]
  BY SumFnRestricts
<1>. QED  BY <1>0, <1>1, <1>2, SumIsFn

\* A sum of integers is one.
LEMMA SumIsInt ==
  ASSUME NEW w, NEW S, IsFiniteSet(S), \A x \in S : w[x] \in Int
  PROVE  SumOf(w, S) \in Int
<1>. DEFINE N == {n \in Nat : \A T \in SUBSET S : Cardinality(T) = n => SumOf(w, T) \in Int}
<1>1. \A T \in SUBSET S : IsFiniteSet(T) /\ Cardinality(T) \in Nat
  BY FS_Subset, FS_CardinalityType
<1>2. SumOf(w, {}) = 0
  BY SumEmpty
<1>3. 0 \in N
  BY <1>1, <1>2, FS_EmptySet
<1>4. ASSUME NEW n \in Nat, n \in N PROVE n + 1 \in N
  <2>. SUFFICES ASSUME NEW T \in SUBSET S, Cardinality(T) = n + 1 PROVE SumOf(w, T) \in Int
    OBVIOUS
  <2>1. CASE T = {}
    BY <2>1, <1>2
  <2>2. CASE T # {}
    <3>. DEFINE c == Some(T)
    <3>1. c \in T /\ SumOf(w, T) = w[c] + SumOf(w, T \ {c})
      BY <2>2, <1>1, SumChosen
    <3>. HIDE DEF c
    <3>3. Cardinality(T \ {c}) = Cardinality(T) - 1
      BY <3>1, <1>1, FS_RemoveElement
    <3>4. Cardinality(T \ {c}) = n
      BY <3>3
    <3>5. SumOf(w, T \ {c}) \in Int
      BY <1>4, <3>4
    <3>. QED  BY <3>1, <3>5
  <2>. QED  BY <2>1, <2>2
<1>. HIDE DEF N
<1>5. Cardinality(S) \in N
  BY <1>1, <1>3, <1>4, NatReached
<1>. QED  BY <1>5 DEF N

\* Any element may be taken out first.
LEMMA SumTakes ==
  ASSUME NEW w, NEW S, IsFiniteSet(S), \A x \in S : w[x] \in Int
  PROVE  \A x \in S : SumOf(w, S) = w[x] + SumOf(w, S \ {x})
<1>. DEFINE Good(T) == \A x \in T : SumOf(w, T) = w[x] + SumOf(w, T \ {x})
            N == {n \in Nat : \A T \in SUBSET S : Cardinality(T) = n => Good(T)}
<1>1. \A T \in SUBSET S : IsFiniteSet(T) /\ Cardinality(T) \in Nat
  BY FS_Subset, FS_CardinalityType
<1>2. \A T \in SUBSET S : SumOf(w, T) \in Int
  BY <1>1, SumIsInt
<1>3. 0 \in N
  <2>1. \A T \in SUBSET S : Cardinality(T) = 0 => T = {}
    BY <1>1, FS_EmptySet
  <2>. QED  BY <2>1
<1>4. ASSUME NEW n \in Nat, n \in N PROVE n + 1 \in N
  <2>. SUFFICES ASSUME NEW T \in SUBSET S, Cardinality(T) = n + 1, NEW x \in T
                PROVE  SumOf(w, T) = w[x] + SumOf(w, T \ {x})
    OBVIOUS
  <2>. DEFINE c == Some(T)
  <2>1. c \in T
    BY DEF Some
  <2>2. SumOf(w, T) = w[c] + SumOf(w, T \ {c})
    BY <2>1, <1>1, SumChosen
  <2>. HIDE DEF c
  <2>3. ASSUME NEW y \in T PROVE Good(T \ {y})
    <3>1. Cardinality(T \ {y}) = Cardinality(T) - 1
      BY <1>1, FS_RemoveElement
    <3>2. Cardinality(T \ {y}) = n
      BY <3>1
    <3>. QED  BY <1>4, <3>2
  <2>. HIDE DEF N
  <2>4. CASE x = c
    BY <2>4, <2>2
  <2>5. CASE x # c
    <3>1. SumOf(w, T \ {c}) = w[x] + SumOf(w, (T \ {c}) \ {x})
      BY <2>1, <2>3, <2>5
    <3>2. SumOf(w, T \ {x}) = w[c] + SumOf(w, (T \ {x}) \ {c})
      BY <2>1, <2>3, <2>5
    <3>3. (T \ {c}) \ {x} = (T \ {x}) \ {c}
      OBVIOUS
    <3>4. PICK a \in Int : a = SumOf(w, (T \ {c}) \ {x})
      BY <1>2
    <3>5. SumOf(w, T) = w[c] + (w[x] + a) /\ SumOf(w, T \ {x}) = w[c] + a
      BY <2>2, <3>1, <3>2, <3>3, <3>4, Zenon
    <3>6. w[x] \in Int /\ w[c] \in Int
      BY <2>1
    <3>7. w[c] + (w[x] + a) = w[x] + (w[c] + a)
      BY <3>6
    <3>. QED  BY <3>5, <3>7, Zenon
  <2>. QED  BY <2>4, <2>5
<1>. HIDE DEF N
<1>5. Cardinality(S) \in N
  BY <1>1, <1>3, <1>4, NatReached
<1>. QED  BY <1>5 DEF N

-----------------------------------------------------------------------------
(* Sums compared. *)

\* An element more.
LEMMA SumAdds ==
  ASSUME NEW w, NEW S, IsFiniteSet(S), NEW T \in SUBSET S, NEW x \in S \ T,
         \A y \in S : w[y] \in Int
  PROVE  /\ SumOf(w, T \cup {x}) = SumOf(w, T) + w[x]
         /\ SumOf(w, T) \in Int /\ w[x] \in Int
<1>1. IsFiniteSet(T) /\ IsFiniteSet(T \cup {x})
  BY FS_Subset
<1>2. SumOf(w, T \cup {x}) = w[x] + SumOf(w, (T \cup {x}) \ {x})
  BY <1>1, SumTakes
<1>3. (T \cup {x}) \ {x} = T
  OBVIOUS
<1>4. SumOf(w, T) \in Int /\ w[x] \in Int
  BY <1>1, SumIsInt
<1>5. SumOf(w, T \cup {x}) = w[x] + SumOf(w, T)
  BY <1>2, <1>3, Zenon
<1>6. w[x] + SumOf(w, T) = SumOf(w, T) + w[x]
  BY <1>4
<1>. QED  BY <1>4, <1>5, <1>6, Zenon

\* Summands that are equal, or nowhere larger.
LEMMA SumSame ==
  ASSUME NEW v, NEW w, NEW S, IsFiniteSet(S), \A x \in S : w[x] \in Int /\ v[x] = w[x]
  PROVE  SumOf(v, S) = SumOf(w, S)
<1>. DEFINE P == {T \in SUBSET S : SumOf(v, T) = SumOf(w, T)}
<1>1. {} \in P
  BY SumEmpty
<1>2. ASSUME NEW T \in SUBSET S, NEW x \in S \ T, T \in P PROVE T \cup {x} \in P
  <2>1. SumOf(v, T \cup {x}) = SumOf(v, T) + v[x]
    BY SumAdds
  <2>2. SumOf(w, T \cup {x}) = SumOf(w, T) + w[x]
    BY SumAdds
  <2>. QED  BY <1>2, <2>1, <2>2
<1>. HIDE DEF P
<1>3. S \in P
  BY <1>1, <1>2, SetReached
<1>. QED  BY <1>3 DEF P

LEMMA SumGrows ==
  ASSUME NEW v, NEW w, NEW S, IsFiniteSet(S),
         \A x \in S : v[x] \in Int /\ w[x] \in Int /\ v[x] <= w[x]
  PROVE  SumOf(v, S) <= SumOf(w, S)
<1>. DEFINE P == {T \in SUBSET S : SumOf(v, T) <= SumOf(w, T)}
<1>1. {} \in P
  BY SumEmpty
<1>2. ASSUME NEW T \in SUBSET S, NEW x \in S \ T, T \in P PROVE T \cup {x} \in P
  <2>1. SumOf(v, T \cup {x}) = SumOf(v, T) + v[x] /\ SumOf(v, T) \in Int
    BY SumAdds
  <2>2. SumOf(w, T \cup {x}) = SumOf(w, T) + w[x] /\ SumOf(w, T) \in Int
    BY SumAdds
  <2>3. SumOf(v, T) <= SumOf(w, T) /\ v[x] \in Int /\ w[x] \in Int /\ v[x] <= w[x]
    BY <1>2
  <2>4. SumOf(v, T \cup {x}) <= SumOf(w, T \cup {x})
    BY <2>1, <2>2, <2>3
  <2>. QED  BY <2>4
<1>. HIDE DEF P
<1>3. S \in P
  BY <1>1, <1>2, SetReached
<1>. QED  BY <1>3 DEF P

LEMMA SumOfZeros ==
  ASSUME NEW w, NEW S, IsFiniteSet(S), \A x \in S : w[x] = 0
  PROVE  SumOf(w, S) = 0
<1>. DEFINE P == {T \in SUBSET S : SumOf(w, T) = 0}
<1>1. {} \in P
  BY SumEmpty
<1>2. ASSUME NEW T \in SUBSET S, NEW x \in S \ T, T \in P PROVE T \cup {x} \in P
  <2>1. SumOf(w, T \cup {x}) = SumOf(w, T) + w[x]
    BY SumAdds
  <2>. QED  BY <1>2, <2>1
<1>. HIDE DEF P
<1>3. S \in P
  BY <1>1, <1>2, SetReached
<1>. QED  BY <1>3 DEF P

\* Two disjoint parts.
LEMMA SumParts ==
  ASSUME NEW w, NEW S, IsFiniteSet(S), \A x \in S : w[x] \in Int,
         NEW U \in SUBSET S
  PROVE  SumOf(w, S) = SumOf(w, U) + SumOf(w, S \ U)
<1>. DEFINE V == S \ U
            P == {T \in SUBSET V : SumOf(w, U \cup T) = SumOf(w, U) + SumOf(w, T)}
<1>0. IsFiniteSet(U) /\ IsFiniteSet(V) /\ SumOf(w, U) \in Int
  BY FS_Subset, SumIsInt
<1>1. {} \in P
  <2>1. U \cup {} = U /\ SumOf(w, {}) = 0
    BY SumEmpty
  <2>. QED  BY <1>0, <2>1
<1>2. ASSUME NEW T \in SUBSET V, NEW x \in V \ T, T \in P PROVE T \cup {x} \in P
  <2>1. SumOf(w, T \cup {x}) = SumOf(w, T) + w[x] /\ SumOf(w, T) \in Int /\ w[x] \in Int
    BY <1>0, SumAdds
  <2>2. U \cup T \in SUBSET S /\ x \in S \ (U \cup T)
    OBVIOUS
  <2>3. SumOf(w, (U \cup T) \cup {x}) = SumOf(w, U \cup T) + w[x]
    BY <2>2, SumAdds
  <2>4. (U \cup T) \cup {x} = U \cup (T \cup {x})
    OBVIOUS
  <2>5. SumOf(w, U \cup T) = SumOf(w, U) + SumOf(w, T)
    BY <1>2
  <2>6. PICK a \in Int, b \in Int, c \in Int : a = SumOf(w, U) /\ b = SumOf(w, T) /\ c = w[x]
    BY <1>0, <2>1
  <2>7. (a + b) + c = a + (b + c)
    OBVIOUS
  <2>8. SumOf(w, U \cup (T \cup {x})) = SumOf(w, U) + SumOf(w, T \cup {x})
    BY <2>1, <2>3, <2>4, <2>5, <2>6, <2>7, Zenon
  <2>. QED  BY <2>8
<1>. HIDE DEF P
<1>3. V \in P
  BY <1>0, <1>1, <1>2, SetReached
<1>4. U \cup V = S
  OBVIOUS
<1>. QED  BY <1>3, <1>4 DEF P

\* Naturals have a natural sum, and a part of them a smaller one.
LEMMA SumIsNat ==
  ASSUME NEW w, NEW S, IsFiniteSet(S), \A x \in S : w[x] \in Nat
  PROVE  SumOf(w, S) \in Nat
<1>. DEFINE P == {T \in SUBSET S : SumOf(w, T) \in Nat}
<1>1. {} \in P
  BY SumEmpty
<1>2. ASSUME NEW T \in SUBSET S, NEW x \in S \ T, T \in P PROVE T \cup {x} \in P
  <2>1. SumOf(w, T \cup {x}) = SumOf(w, T) + w[x]
    BY SumAdds
  <2>2. SumOf(w, T) + w[x] \in Nat
    BY <1>2
  <2>. QED  BY <2>1, <2>2
<1>. HIDE DEF P
<1>3. S \in P
  BY <1>1, <1>2, SetReached
<1>. QED  BY <1>3 DEF P

LEMMA SumOfPart ==
  ASSUME NEW w, NEW S, IsFiniteSet(S), \A x \in S : w[x] \in Nat, NEW U \in SUBSET S
  PROVE  SumOf(w, U) \in Nat /\ SumOf(w, S) \in Nat /\ SumOf(w, U) <= SumOf(w, S)
<1>1. IsFiniteSet(U) /\ IsFiniteSet(S \ U)
  BY FS_Subset
<1>2. SumOf(w, U) \in Nat /\ SumOf(w, S \ U) \in Nat
  BY <1>1, SumIsNat
<1>3. SumOf(w, S) = SumOf(w, U) + SumOf(w, S \ U)
  BY SumParts
<1>. QED  BY <1>2, <1>3

\* The sum of the sums of two functions.
LEMMA SumPlus ==
  ASSUME NEW u, NEW v, NEW w, NEW S, IsFiniteSet(S),
         \A x \in S : v[x] \in Int /\ w[x] \in Int /\ u[x] = v[x] + w[x]
  PROVE  SumOf(u, S) = SumOf(v, S) + SumOf(w, S)
<1>. DEFINE P == {T \in SUBSET S : SumOf(u, T) = SumOf(v, T) + SumOf(w, T)}
<1>1. {} \in P
  <2>1. SumOf(u, {}) = 0 /\ SumOf(v, {}) = 0 /\ SumOf(w, {}) = 0
    BY SumEmpty
  <2>. QED  BY <2>1
<1>2. ASSUME NEW T \in SUBSET S, NEW x \in S \ T, T \in P PROVE T \cup {x} \in P
  <2>1. SumOf(u, T \cup {x}) = SumOf(u, T) + u[x]
    BY SumAdds
  <2>2. SumOf(v, T \cup {x}) = SumOf(v, T) + v[x]
    BY SumAdds
  <2>3. SumOf(w, T \cup {x}) = SumOf(w, T) + w[x]
    BY SumAdds
  <2>4. SumOf(v, T) \in Int /\ SumOf(w, T) \in Int
    BY SumAdds
  <2>5. SumOf(u, T) = SumOf(v, T) + SumOf(w, T) /\ u[x] = v[x] + w[x]
    BY <1>2
  <2>6. PICK a \in Int, b \in Int, c \in Int, d \in Int :
          a = SumOf(v, T) /\ b = SumOf(w, T) /\ c = v[x] /\ d = w[x]
    BY <2>4
  <2>7. (a + b) + (c + d) = (a + c) + (b + d)
    OBVIOUS
  <2>8. SumOf(u, T \cup {x}) = SumOf(v, T \cup {x}) + SumOf(w, T \cup {x})
    BY <2>1, <2>2, <2>3, <2>5, <2>6, <2>7, Zenon
  <2>. QED  BY <2>8
<1>. HIDE DEF P
<1>3. S \in P
  BY <1>1, <1>2, SetReached
<1>. QED  BY <1>3 DEF P

\* One summand changed.
LEMMA SumChanged ==
  ASSUME NEW v, NEW w, NEW S, IsFiniteSet(S), NEW x \in S,
         \A y \in S : v[y] \in Int /\ w[y] \in Int,
         \A y \in S \ {x} : v[y] = w[y]
  PROVE  /\ SumOf(v, S) = SumOf(w, S) - w[x] + v[x]
         /\ SumOf(v, S) \in Int /\ SumOf(w, S) \in Int
<1>1. IsFiniteSet(S \ {x})
  BY FS_Subset
<1>2. SumOf(v, S \ {x}) = SumOf(w, S \ {x})
  BY <1>1, SumSame
<1>3. PICK a \in Int : a = SumOf(w, S \ {x})
  BY <1>1, SumIsInt
<1>4. SumOf(v, S) = v[x] + SumOf(v, S \ {x})
  BY SumTakes
<1>5. SumOf(w, S) = w[x] + SumOf(w, S \ {x})
  BY SumTakes
<1>6. SumOf(v, S) = v[x] + a /\ SumOf(w, S) = w[x] + a
  BY <1>2, <1>3, <1>4, <1>5, Zenon
<1>. QED  BY <1>6

\* The sum by groups.
LEMMA SumByKey ==
  ASSUME NEW w, NEW R, IsFiniteSet(R), \A x \in R : w[x] \in Int,
         NEW A, IsFiniteSet(A), NEW key, \A x \in R : key[x] \in A
  PROVE  /\ SumOf(w, R) = SumOf([a \in A |-> SumOf(w, {x \in R : key[x] = a})], A)
         /\ \A a \in A : SumOf(w, {x \in R : key[x] = a}) \in Int
<1>. DEFINE Group(a) == {x \in R : key[x] = a}
            Of(B) == {x \in R : key[x] \in B}
            t == [a \in A |-> SumOf(w, Group(a))]
            P == {B \in SUBSET A : SumOf(w, Of(B)) = SumOf(t, B)}
<1>1. \A a \in A : SumOf(w, Group(a)) \in Int
  <2>. TAKE a \in A
  <2>1. IsFiniteSet(Group(a))
    BY FS_Subset
  <2>. QED  BY <2>1, SumIsInt
<1>2. {} \in P
  <2>1. Of({}) = {}
    OBVIOUS
  <2>. QED  BY <2>1, SumEmpty
<1>3. ASSUME NEW B \in SUBSET A, NEW a \in A \ B, B \in P PROVE B \cup {a} \in P
  <2>1. SumOf(t, B \cup {a}) = SumOf(t, B) + t[a]
    <3>1. \A x \in A : t[x] \in Int
      BY <1>1
    <3>. HIDE DEF t
    <3>. QED  BY <3>1, SumAdds
  <2>. DEFINE X == Of(B \cup {a})
              Y == Of(B)
              Z == Group(a)
  <2>2. Y \in SUBSET X /\ X \ Y = Z /\ \A x \in X : w[x] \in Int
    OBVIOUS
  <2>3. IsFiniteSet(X)
    BY FS_Subset
  <2>4. SumOf(w, Y) = SumOf(t, B)
    BY <1>3
  <2>5. t[a] = SumOf(w, Z)
    OBVIOUS
  <2>6. SUFFICES SumOf(w, X) = SumOf(t, B \cup {a})
    OBVIOUS
  <2>. HIDE DEF X, Y, Z, t
  <2>7. SumOf(w, X) = SumOf(w, Y) + SumOf(w, Z)
    BY <2>2, <2>3, SumParts
  <2>. QED  BY <2>1, <2>4, <2>5, <2>7, Zenon
<1>. HIDE DEF P
<1>4. A \in P
  BY <1>2, <1>3, SetReached
<1>5. Of(A) = R
  OBVIOUS
<1>. QED  BY <1>1, <1>4, <1>5 DEF P

\* Disjoint shares of a whole.
LEMMA SumCovers ==
  ASSUME NEW w, NEW A, IsFiniteSet(A), \A a \in A : w[a] \in Nat,
         NEW r, NEW S, IsFiniteSet(S), \A s \in S : r[s] \in Int,
         NEW part, \A s \in S : part[s] \in SUBSET A,
         \A s, t \in S : s # t => part[s] \cap part[t] = {},
         \A s \in S : r[s] <= SumOf(w, part[s])
  PROVE  SumOf(r, S) <= SumOf(w, A)
<1>. DEFINE Of(T) == UNION {part[s] : s \in T}
            P == {T \in SUBSET S : SumOf(r, T) <= SumOf(w, Of(T))}
<1>1. {} \in P
  <2>1. Of({}) = {} /\ SumOf(r, {}) = 0 /\ SumOf(w, {}) = 0
    BY SumEmpty
  <2>. QED  BY <2>1
<1>2. ASSUME NEW T \in SUBSET S, NEW s \in S \ T, T \in P PROVE T \cup {s} \in P
  <2>1. SumOf(r, T \cup {s}) = SumOf(r, T) + r[s] /\ SumOf(r, T) \in Int /\ r[s] \in Int
    BY SumAdds
  <2>. DEFINE X == Of(T \cup {s})
              Y == Of(T)
              Z == part[s]
  <2>2. /\ X \in SUBSET A /\ Y \in SUBSET X /\ Y \in SUBSET A /\ Z \in SUBSET A
        /\ X \ Y = Z /\ \A a \in X : w[a] \in Int
    OBVIOUS
  <2>3. SumOf(r, T) <= SumOf(w, Y) /\ r[s] <= SumOf(w, Z)
    BY <1>2
  <2>4. SUFFICES SumOf(r, T \cup {s}) <= SumOf(w, X)
    OBVIOUS
  <2>. HIDE DEF X, Y, Z, Of
  <2>5. IsFiniteSet(X)
    BY <2>2, FS_Subset
  <2>6. SumOf(w, X) = SumOf(w, Y) + SumOf(w, Z)
    BY <2>2, <2>5, SumParts
  <2>7. SumOf(w, Y) \in Int /\ SumOf(w, Z) \in Int
    <3>1. SumOf(w, Y) \in Nat
      BY <2>2, SumOfPart
    <3>2. SumOf(w, Z) \in Nat
      BY <2>2, SumOfPart
    <3>. QED  BY <3>1, <3>2
  <2>8. PICK a \in Int, b \in Int, c \in Int, d \in Int :
          a = SumOf(r, T) /\ b = r[s] /\ c = SumOf(w, Y) /\ d = SumOf(w, Z)
    BY <2>1, <2>7
  <2>9. a + b <= c + d
    BY <2>3, <2>8
  <2>. QED  BY <2>1, <2>6, <2>8, <2>9, Zenon
<1>3. S \in P
  <2>. HIDE DEF P
  <2>. QED  BY <1>1, <1>2, SetReached
<1>4. Of(S) \in SUBSET A
  OBVIOUS
<1>5. SumOf(w, Of(S)) \in Nat /\ SumOf(w, A) \in Nat /\ SumOf(w, Of(S)) <= SumOf(w, A)
  BY <1>4, SumOfPart
<1>6. SumOf(r, S) \in Int
  BY SumIsInt
<1>7. SumOf(r, S) <= SumOf(w, Of(S))
  BY <1>3
<1>. HIDE DEF Of
<1>. QED  BY <1>5, <1>6, <1>7

\* The sum over the first numbers, and over one more.
LEMMA SumNext ==
  ASSUME NEW n \in Nat, NEW v, NEW w, \A i \in 1..n : v[i] = w[i] /\ w[i] \in Int,
         w[n + 1] \in Int
  PROVE  SumOf(w, 1..(n + 1)) = SumOf(v, 1..n) + w[n + 1]
<1>1. 1..(n + 1) = (1..n) \cup {n + 1} /\ n + 1 \notin 1..n
  OBVIOUS
<1>2. IsFiniteSet(1..(n + 1)) /\ IsFiniteSet(1..n)
  BY FS_Interval
<1>3. \A i \in 1..(n + 1) : w[i] \in Int
  BY <1>1
<1>. DEFINE S == 1..(n + 1)
            T == 1..n
<1>4. T \in SUBSET S /\ n + 1 \in S \ T /\ S = T \cup {n + 1} /\ IsFiniteSet(S)
  BY <1>1, <1>2
<1>5. \A i \in S : w[i] \in Int
  BY <1>3
<1>. HIDE DEF S, T
<1>6. SumOf(w, S) = SumOf(w, T) + w[n + 1]
  BY <1>4, <1>5, SumAdds
<1>7. SumOf(v, T) = SumOf(w, T)
  BY <1>2, SumSame DEF T
<1>. QED  BY <1>6, <1>7 DEF S, T

\* What a function makes of finitely many arguments.
LEMMA ImageIsFinite ==
  ASSUME NEW S, IsFiniteSet(S), NEW h PROVE IsFiniteSet({h[x] : x \in S})
<1>. DEFINE V(T) == {h[x] : x \in T}
            P == {T \in SUBSET S : IsFiniteSet(V(T))}
<1>1. {} \in P
  BY FS_EmptySet
<1>2. ASSUME NEW T \in SUBSET S, NEW x \in S \ T, T \in P PROVE T \cup {x} \in P
  <2>1. V(T \cup {x}) = V(T) \cup {h[x]}
    OBVIOUS
  <2>2. IsFiniteSet(V(T))
    BY <1>2
  <2>3. \A U : IsFiniteSet(U) => IsFiniteSet(U \cup {h[x]})
    BY FS_AddElement
  <2>4. IsFiniteSet(V(T) \cup {h[x]})
    BY <2>2, <2>3
  <2>. QED  BY <2>1, <2>4, Zenon
<1>. HIDE DEF P
<1>3. S \in P
  BY <1>1, <1>2, SetReached
<1>. QED  BY <1>3 DEF P

-----------------------------------------------------------------------------
(* The largest and the smallest of finitely many integers. *)

LEMMA HasLargest ==
  ASSUME NEW S \in SUBSET Int, IsFiniteSet(S), S # {}
  PROVE  \E m \in S : \A y \in S : y <= m
<1>. DEFINE P == {T \in SUBSET S : T = {} \/ \E m \in T : \A y \in T : y <= m}
<1>1. {} \in P
  OBVIOUS
<1>2. ASSUME NEW T \in SUBSET S, NEW x \in S \ T, T \in P PROVE T \cup {x} \in P
  <2>1. CASE T = {}
    BY <2>1
  <2>2. CASE T # {}
    <3>1. PICK m \in T : \A y \in T : y <= m
      BY <1>2, <2>2
    <3>2. CASE x <= m
      BY <3>1, <3>2
    <3>3. CASE ~(x <= m)
      <4>1. \A y \in T : y <= x
        BY <3>1, <3>3
      <4>. QED  BY <4>1
    <3>. QED  BY <3>2, <3>3
  <2>. QED  BY <2>1, <2>2
<1>. HIDE DEF P
<1>3. S \in P
  BY <1>1, <1>2, SetReached
<1>. QED  BY <1>3 DEF P

LEMMA MaxIsLargest ==
  ASSUME NEW S \in SUBSET Int, IsFiniteSet(S), S # {}
  PROVE  Max(S) \in S /\ \A y \in S : y <= Max(S)
<1>1. \E m \in S : \A y \in S : m >= y
  BY HasLargest
<1>2. Max(S) \in S /\ \A y \in S : Max(S) >= y
  BY <1>1 DEF Max
<1>3. PICK m \in Int : m = Max(S)
  BY <1>2
<1>. QED  BY <1>2, <1>3

LEMMA MinIsSmallest ==
  ASSUME NEW S \in SUBSET Int, IsFiniteSet(S), S # {}
  PROVE  Min(S) \in S /\ \A y \in S : Min(S) <= y
<1>. DEFINE neg == [x \in S |-> 0 - x]
            N == {neg[x] : x \in S}
<1>1. IsFiniteSet(N)
  <2>. HIDE DEF neg
  <2>. QED  BY ImageIsFinite
<1>2. N \in SUBSET Int /\ N # {}
  <2>1. \A x \in S : neg[x] \in Int
    OBVIOUS
  <2>2. PICK x \in S : TRUE
    OBVIOUS
  <2>. HIDE DEF neg
  <2>. QED  BY <2>1, <2>2
<1>3. PICK m \in N : \A y \in N : y <= m
  <2>. HIDE DEF N
  <2>. QED  BY <1>1, <1>2, HasLargest
<1>4. PICK x \in S : m = 0 - x
  BY <1>3
<1>5. \A y \in S : y >= x
  <2>1. \A y \in S : 0 - y <= m
    BY <1>3
  <2>. QED  BY <1>4, <2>1
<1>6. \E k \in S : \A y \in S : k <= y
  BY <1>5
<1>. QED  BY <1>6 DEF Min

-----------------------------------------------------------------------------
(* The largest of finitely many values, and of none 0. *)

LEMMA MaxOfImage ==
  ASSUME NEW h, NEW S, IsFiniteSet(S), \A x \in S : h[x] \in Int
  PROVE  LET V == {0} \cup {h[x] : x \in S}
         IN  /\ Max(V) \in V /\ Max(V) \in Nat
             /\ \A x \in S : h[x] <= Max(V)
<1>. DEFINE V(T) == {0} \cup {h[x] : x \in T}
            P == {T \in SUBSET S : \E m \in V(T) : \A y \in V(T) : m >= y}
<1>1. {} \in P
  OBVIOUS
<1>2. ASSUME NEW T \in SUBSET S, NEW x \in S \ T, T \in P PROVE T \cup {x} \in P
  <2>1. PICK m \in V(T) : \A y \in V(T) : m >= y
    BY <1>2
  <2>2. V(T \cup {x}) = V(T) \cup {h[x]} /\ \A y \in V(T \cup {x}) : y \in Int
    OBVIOUS
  <2>. DEFINE k == IF m >= h[x] THEN m ELSE h[x]
  <2>3. k \in V(T \cup {x})
    BY <2>2
  <2>4. \A y \in V(T \cup {x}) : k >= y
    BY <2>1, <2>2
  <2>. QED  BY <2>3, <2>4
<1>. HIDE DEF P
<1>3. S \in P
  BY <1>1, <1>2, SetReached
<1>4. \E m \in V(S) : \A y \in V(S) : m >= y
  BY <1>3 DEF P
<1>5. Max(V(S)) \in V(S) /\ \A y \in V(S) : Max(V(S)) >= y
  BY <1>4 DEF Max
<1>6. V(S) \subseteq Int /\ 0 \in V(S) /\ \A x \in S : h[x] \in V(S)
  OBVIOUS
<1>7. Max(V(S)) \in Nat /\ \A x \in S : h[x] <= Max(V(S))
  <2>. DEFINE W == V(S)
  <2>. HIDE DEF V
  <2>. QED  BY <1>5, <1>6
<1>. QED  BY <1>5, <1>7

-----------------------------------------------------------------------------
(* What is needed taken from numbered amounts, the lowest number first, each *)
(* until nothing more is needed.                                             *)

Numbered(R) == IsFiniteSet(R) /\ R \subseteq Nat /\ \E m \in Nat : \A i \in R : i <= m
Below(R, n) == {k \in R : k < n}
Takes(take, have, R, need) ==
  \A i \in R : take[i] =
    IF need - SumOf(have, Below(R, i)) <= 0 THEN 0
    ELSE IF need - SumOf(have, Below(R, i)) < have[i] THEN need - SumOf(have, Below(R, i))
    ELSE have[i]

\* The amounts up to a number.
LEMMA BelowGrows ==
  ASSUME NEW R, Numbered(R), NEW w, \A i \in R : w[i] \in Int, NEW n \in Nat
  PROVE  /\ SumOf(w, Below(R, n)) \in Int
         /\ n \in R => SumOf(w, Below(R, n + 1)) = SumOf(w, Below(R, n)) + w[n]
         /\ n \notin R => Below(R, n + 1) = Below(R, n)
<1>0. \A i \in R : i \in Nat
  BY DEF Numbered
<1>1. IsFiniteSet(R)
  BY DEF Numbered
<1>2. Below(R, n) \in SUBSET R /\ n \notin Below(R, n)
  BY <1>0 DEF Below
<1>3. n \in R => Below(R, n + 1) = Below(R, n) \cup {n}
  <2>1. \A k \in R : k < n + 1 <=> (k < n \/ k = n)
    BY <1>0
  <2>. QED  BY <2>1 DEF Below
<1>4. n \notin R => Below(R, n + 1) = Below(R, n)
  BY <1>0 DEF Below
<1>5. SumOf(w, Below(R, n)) \in Int
  <2>1. IsFiniteSet(Below(R, n)) /\ \A i \in Below(R, n) : w[i] \in Int
    BY <1>1, <1>2, FS_Subset
  <2>. QED  BY <2>1, SumIsInt
<1>6. ASSUME n \in R PROVE SumOf(w, Below(R, n) \cup {n}) = SumOf(w, Below(R, n)) + w[n]
  <2>1. n \in R \ Below(R, n)
    BY <1>2, <1>6
  <2>. QED  BY <1>1, <1>2, <2>1, SumAdds
<1>. QED  BY <1>3, <1>4, <1>5, <1>6

\* What is taken is what is needed, when there is enough.
LEMMA TakesWhatIsNeeded ==
  ASSUME NEW R, Numbered(R), NEW have, \A i \in R : have[i] \in Nat,
         NEW need \in Nat, need <= SumOf(have, R), NEW take, Takes(take, have, R, need)
  PROVE  /\ \A i \in R : take[i] \in Nat /\ take[i] <= have[i]
         /\ SumOf(take, R) = need
<1>. DEFINE H(n) == SumOf(have, Below(R, n))
            T(n) == SumOf(take, Below(R, n))
            P == {n \in Nat : T(n) = IF need <= H(n) THEN need ELSE H(n)}
<1>. PICK m \in Nat : \A i \in R : i <= m
  BY DEF Numbered
<1>0. \A i \in R : i \in Nat /\ i < m + 1 /\ have[i] \in Int
  BY DEF Numbered
<1>1. \A n \in Nat : H(n) \in Int
  BY <1>0, BelowGrows
<1>2. \A i \in R : take[i] \in Nat /\ take[i] <= have[i]
  <2>. TAKE i \in R
  <2>1. H(i) \in Int /\ have[i] \in Nat
    BY <1>0, <1>1
  <2>. QED  BY <2>1 DEF Takes
<1>3. 0 \in P
  <2>1. Below(R, 0) = {}
    BY <1>0 DEF Below
  <2>2. H(0) = 0 /\ T(0) = 0
    BY <2>1, SumEmpty
  <2>. QED  BY <2>2
<1>4. ASSUME NEW n \in Nat, n \in P PROVE n + 1 \in P
  <2>1. CASE n \notin R
    <3>1. Below(R, n + 1) = Below(R, n)
      BY <1>0, <2>1 DEF Below
    <3>2. H(n + 1) = H(n) /\ T(n + 1) = T(n)
      BY <3>1
    <3>. QED  BY <1>4, <3>2
  <2>2. CASE n \in R
    <3>1. H(n + 1) = H(n) + have[n] /\ H(n) \in Int
      BY <1>0, <2>2, BelowGrows
    <3>2. T(n + 1) = T(n) + take[n] /\ T(n) \in Int
      <4>1. \A i \in R : take[i] \in Int
        BY <1>2
      <4>. QED  BY <2>2, <4>1, BelowGrows
    <3>3. /\ take[n] = IF need - H(n) <= 0 THEN 0
                       ELSE IF need - H(n) < have[n] THEN need - H(n) ELSE have[n]
          /\ have[n] \in Nat /\ T(n) = IF need <= H(n) THEN need ELSE H(n)
      BY <1>4, <2>2 DEF Takes
    <3>. HIDE DEF H, T
    <3>4. T(n + 1) = IF need <= H(n + 1) THEN need ELSE H(n + 1)
      BY <3>1, <3>2, <3>3
    <3>. QED  BY <3>4 DEF H, T
  <2>. QED  BY <2>1, <2>2
<1>5. m + 1 \in P
  <2>. HIDE DEF P
  <2>. QED  BY <1>3, <1>4, NatReached
<1>6. Below(R, m + 1) = R
  BY <1>0 DEF Below
<1>7. T(m + 1) = need
  <2>1. need <= H(m + 1)
    BY <1>6
  <2>. QED  BY <1>5, <2>1
<1>. QED  BY <1>2, <1>6, <1>7

\* Where something is taken, all that has a lower number is taken before.
LEMMA TakesInOrder ==
  ASSUME NEW R, Numbered(R), NEW have, \A i \in R : have[i] \in Nat,
         NEW need \in Nat, NEW take, Takes(take, have, R, need),
         NEW i \in R, NEW k \in R, i < k, take[k] > 0
  PROVE  take[i] = have[i]
<1>0. \A x \in R : x \in Nat /\ have[x] \in Int
  BY DEF Numbered
<1>1. /\ SumOf(have, Below(R, i + 1)) = SumOf(have, Below(R, i)) + have[i]
      /\ SumOf(have, Below(R, i)) \in Int /\ SumOf(have, Below(R, k)) \in Int
      /\ i \in Nat /\ k \in Nat /\ have[i] \in Nat
  BY <1>0, BelowGrows
<1>2. SumOf(have, Below(R, i + 1)) <= SumOf(have, Below(R, k))
  <2>1. Below(R, i + 1) \in SUBSET Below(R, k) /\ \A x \in Below(R, k) : have[x] \in Nat
    BY <1>0 DEF Below
  <2>2. IsFiniteSet(Below(R, k))
    <3>1. IsFiniteSet(R) /\ Below(R, k) \in SUBSET R
      BY DEF Numbered, Below
    <3>. QED  BY <3>1, FS_Subset
  <2>. QED  BY <2>1, <2>2, SumOfPart
<1>3. need - SumOf(have, Below(R, k)) > 0
  BY <1>1 DEF Takes
<1>4. need - SumOf(have, Below(R, i)) >= have[i]
  <2>1. PICK a \in Int, b \in Int, c \in Nat :
          a = SumOf(have, Below(R, i)) /\ b = SumOf(have, Below(R, k)) /\ c = have[i]
    BY <1>1
  <2>2. a + c <= b /\ need - b > 0
    BY <1>1, <1>2, <1>3, <2>1
  <2>3. need - a >= c
    BY <2>2
  <2>. QED  BY <2>1, <2>3
<1>. QED  BY <1>1, <1>4 DEF Takes
=============================================================================

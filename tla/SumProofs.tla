------------------------------- MODULE SumProofs -------------------------------
(***************************************************************************)
(* What the sum of a finite set is, for any set: one of its members and    *)
(* the sum of the rest.  The induction is over sets of numbers, because    *)
(* the provers instantiate no theorem that takes a predicate.              *)
(***************************************************************************)
EXTENDS Integers, FiniteSetsExt, FiniteSetTheorems, WellFoundedInduction, TLAPS

Total(v, S) == MapThenSumSet(LAMBDA x : v[x], S)

One(s) == CHOOSE x \in s : TRUE

\* g sums v over each subset of S as the fold does, one member after the other.
SumsUpTo(g, v, S, n) ==
  \A s \in SUBSET S : Cardinality(s) <= n =>
    g[s] = IF s = {} THEN 0 ELSE v[One(s)] + g[s \ {One(s)}]

Sums(g, v, S) ==
  \A s \in SUBSET S : g[s] = IF s = {} THEN 0 ELSE v[One(s)] + g[s \ {One(s)}]

Whole(v, S) == \A x \in S : v[x] \in Int

-----------------------------------------------------------------------------

LEMMA Least ==
  ASSUME NEW T, T \subseteq Nat, T # {}
  PROVE  \E n \in T : \A m \in T : n <= m
<1>1. PICK n \in T : \A m \in T : ~(<<m, n>> \in OpToRel(<, Nat))
  BY NatLessThanWellFounded, WFMin
<1>2. \A m \in T : ~(m < n)
  BY <1>1 DEF OpToRel
<1> QED
  BY <1>2

LEMMA Climb ==
  ASSUME NEW T, 0 \in T, \A n \in Nat : n \in T => n + 1 \in T
  PROVE  Nat \subseteq T
<1> SUFFICES ASSUME Nat \ T # {} PROVE FALSE
  OBVIOUS
<1>1. PICK n \in Nat \ T : \A m \in Nat \ T : n <= m
  <2>1. Nat \ T \subseteq Nat
    OBVIOUS
  <2> QED
    BY <2>1, Least
<1>2. n # 0 /\ n - 1 \in Nat /\ n - 1 \in T
  BY <1>1
<1> QED
  BY <1>1, <1>2

LEMMA OneOf == ASSUME NEW s, s # {} PROVE One(s) \in s
BY DEF One

LEMMA Smaller ==
  ASSUME NEW s, IsFiniteSet(s), NEW x \in s
  PROVE  /\ IsFiniteSet(s \ {x}) /\ Cardinality(s) \in Nat \ {0}
         /\ Cardinality(s \ {x}) = Cardinality(s) - 1
<1>1. IsFiniteSet(s \ {x}) /\ Cardinality(s \ {x}) = Cardinality(s) - 1
  BY FS_RemoveElement
<1>2. Cardinality(s) \in Nat /\ Cardinality(s \ {x}) \in Nat
  BY <1>1, FS_CardinalityType
<1> QED
  BY <1>1, <1>2

\* The sums of the subsets of up to n members.
LEMMA SomeSums ==
  ASSUME NEW S, IsFiniteSet(S), NEW v, Whole(v, S), NEW n \in Nat
  PROVE  \E g \in [SUBSET S -> Int] : SumsUpTo(g, v, S, n)
<1> DEFINE T == {m \in Nat : \E g \in [SUBSET S -> Int] : SumsUpTo(g, v, S, m)}
<1>0. \A s \in SUBSET S : IsFiniteSet(s) /\ Cardinality(s) \in Nat
  BY FS_Subset, FS_CardinalityType
<1>1. 0 \in T
  <2> DEFINE g == [s \in SUBSET S |-> 0]
  <2>1. \A s \in SUBSET S : Cardinality(s) <= 0 => s = {}
    BY <1>0, FS_EmptySet
  <2>2. g \in [SUBSET S -> Int] /\ SumsUpTo(g, v, S, 0)
    BY <2>1 DEF SumsUpTo
  <2> QED
    BY <2>2
<1>2. ASSUME NEW m \in Nat, m \in T PROVE m + 1 \in T
  <2>1. PICK g \in [SUBSET S -> Int] : SumsUpTo(g, v, S, m)
    BY <1>2
  <2> DEFINE h == [s \in SUBSET S |-> IF Cardinality(s) <= m THEN g[s]
                                      ELSE IF s = {} THEN 0 ELSE v[One(s)] + g[s \ {One(s)}]]
  <2>2. \A s \in SUBSET S : s # {} => One(s) \in S /\ v[One(s)] \in Int /\ s \ {One(s)} \in SUBSET S
    BY OneOf DEF Whole
  <2>3. h \in [SUBSET S -> Int]
    BY <2>2
  <2>4. ASSUME NEW s \in SUBSET S, Cardinality(s) <= m + 1
        PROVE  h[s] = IF s = {} THEN 0 ELSE v[One(s)] + h[s \ {One(s)}]
    <3>1. CASE s = {}
      BY <2>1, <3>1 DEF SumsUpTo
    <3>2. CASE s # {}
      <4>1. Cardinality(s \ {One(s)}) = Cardinality(s) - 1
        BY <1>0, <3>2, OneOf, Smaller
      <4>2. h[s \ {One(s)}] = g[s \ {One(s)}]
        BY <1>0, <2>2, <2>4, <3>2, <4>1
      <4>3. h[s] = v[One(s)] + g[s \ {One(s)}]
        BY <2>1, <3>2 DEF SumsUpTo
      <4> QED
        BY <3>2, <4>2, <4>3
    <3> QED
      BY <3>1, <3>2
  <2>5. SumsUpTo(h, v, S, m + 1)
    BY <2>4 DEF SumsUpTo
  <2> HIDE DEF h
  <2> QED
    BY <2>3, <2>5
<1>3. n \in T
  <2> HIDE DEF T
  <2> QED
    BY <1>1, <1>2, Climb
<1> QED
  BY <1>3

LEMMA SumsExist ==
  ASSUME NEW S, IsFiniteSet(S), NEW v, Whole(v, S)
  PROVE  \E g \in [SUBSET S -> Int] : Sums(g, v, S)
<1>1. Cardinality(S) \in Nat /\ \A s \in SUBSET S : Cardinality(s) <= Cardinality(S)
  BY FS_Subset, FS_CardinalityType
<1>2. PICK g \in [SUBSET S -> Int] : SumsUpTo(g, v, S, Cardinality(S))
  BY <1>1, SomeSums
<1> QED
  BY <1>1, <1>2 DEF Sums, SumsUpTo

\* There is one function that does.
LEMMA SumsUnique ==
  ASSUME NEW S, IsFiniteSet(S), NEW v, NEW w, \A x \in S : v[x] = w[x],
         NEW g, Sums(g, v, S), NEW Q, S \subseteq Q, NEW h, Sums(h, w, Q)
  PROVE  \A s \in SUBSET S : g[s] = h[s]
<1> DEFINE T == {n \in Nat : \A s \in SUBSET S : Cardinality(s) = n => g[s] = h[s]}
<1>0. \A s \in SUBSET S : IsFiniteSet(s) /\ Cardinality(s) \in Nat /\ s \in SUBSET Q
  BY FS_Subset, FS_CardinalityType
<1>1. 0 \in T
  <2>1. ASSUME NEW s \in SUBSET S, Cardinality(s) = 0 PROVE g[s] = h[s]
    <3>1. s = {}
      BY <1>0, <2>1, FS_EmptySet
    <3> QED
      BY <1>0, <3>1 DEF Sums
  <2> QED
    BY <2>1
<1>2. ASSUME NEW n \in Nat, n \in T PROVE n + 1 \in T
  <2>1. ASSUME NEW s \in SUBSET S, Cardinality(s) = n + 1 PROVE g[s] = h[s]
    <3>1. s # {}
      BY <2>1, FS_EmptySet
    <3>2. One(s) \in s /\ Cardinality(s \ {One(s)}) = n /\ s \ {One(s)} \in SUBSET S
      BY <1>0, <2>1, <3>1, OneOf, Smaller
    <3>3. g[s \ {One(s)}] = h[s \ {One(s)}]
      BY <1>2, <3>2
    <3>4. g[s] = v[One(s)] + g[s \ {One(s)}]
      BY <3>1 DEF Sums
    <3>5. h[s] = w[One(s)] + h[s \ {One(s)}]
      BY <1>0, <3>1 DEF Sums
    <3>6. v[One(s)] = w[One(s)]
      BY <3>2
    <3> QED
      BY <3>3, <3>4, <3>5, <3>6
  <2> QED
    BY <2>1
<1>3. Nat \subseteq T
  <2> HIDE DEF T
  <2> QED
    BY <1>1, <1>2, Climb
<1> QED
  BY <1>0, <1>3

\* What the fold of the community modules chooses.
LEMMA TotalSums ==
  ASSUME NEW S, IsFiniteSet(S), NEW v, Whole(v, S)
  PROVE  \E g \in [SUBSET S -> Int] : Sums(g, v, S) /\ Total(v, S) = g[S]
<1> DEFINE E(g) == [s \in SUBSET S |-> IF s = {} THEN 0 ELSE v[One(s)] + g[s \ {One(s)}]]
           fold == CHOOSE g : g = E(g)
<1>1. Total(v, S) = fold[S]
  BY DEF Total, One, MapThenSumSet, MapThenFoldSet
<1>2. PICK g \in [SUBSET S -> Int] : Sums(g, v, S)
  BY SumsExist
<1>3. g = E(g)
  BY <1>2 DEF Sums
<1>4. fold = E(fold)
  <2> HIDE DEF E
  <2> QED
    BY <1>3
<1>5. Sums(fold, v, S)
  <2> HIDE DEF fold
  <2> QED
    BY <1>4 DEF Sums
<1>6. \A s \in SUBSET S : fold[s] = g[s]
  <2> HIDE DEF fold
  <2> QED
    BY <1>2, <1>5, SumsUnique
<1> HIDE DEF fold
<1> QED
  BY <1>1, <1>2, <1>6
-----------------------------------------------------------------------------
(* What the proofs cite: the sum of a set by any of its members.           *)

LEMMA TotalEmpty == ASSUME NEW v PROVE Total(v, {}) = 0
<1>1. IsFiniteSet({}) /\ Whole(v, {})
  BY FS_EmptySet DEF Whole
<1> QED
  BY <1>1, TotalSums DEF Sums

LEMMA TotalType ==
  ASSUME NEW S, IsFiniteSet(S), NEW v, Whole(v, S)
  PROVE  Total(v, S) \in Int
<1>1. PICK g \in [SUBSET S -> Int] : Sums(g, v, S) /\ Total(v, S) = g[S]
  BY TotalSums
<1> QED
  BY <1>1

\* A sum is of the values of the members only.
LEMMA TotalSame ==
  ASSUME NEW S, IsFiniteSet(S), NEW v, Whole(v, S), NEW w, \A x \in S : v[x] = w[x]
  PROVE  Total(v, S) = Total(w, S)
<1>1. Whole(w, S)
  BY DEF Whole
<1>2. PICK g \in [SUBSET S -> Int] : Sums(g, v, S) /\ Total(v, S) = g[S]
  BY TotalSums
<1>3. PICK h \in [SUBSET S -> Int] : Sums(h, w, S) /\ Total(w, S) = h[S]
  BY <1>1, TotalSums
<1>4. \A s \in SUBSET S : g[s] = h[s]
  BY <1>2, <1>3, SumsUnique
<1> QED
  BY <1>2, <1>3, <1>4

\* The sums of the subsets are sums too.
LEMMA TotalOfSubset ==
  ASSUME NEW S, IsFiniteSet(S), NEW v, Whole(v, S), NEW g, Sums(g, v, S), NEW s \in SUBSET S
  PROVE  Total(v, s) = g[s]
<1>1. IsFiniteSet(s) /\ Whole(v, s)
  BY FS_Subset DEF Whole
<1>2. PICK h \in [SUBSET s -> Int] : Sums(h, v, s) /\ Total(v, s) = h[s]
  BY <1>1, TotalSums
<1>3. \A r \in SUBSET s : h[r] = g[r]
  BY <1>1, <1>2, SumsUnique
<1> QED
  BY <1>2, <1>3

LEMMA TotalByOne ==
  ASSUME NEW S, IsFiniteSet(S), S # {}, NEW v, Whole(v, S)
  PROVE  Total(v, S) = v[One(S)] + Total(v, S \ {One(S)})
<1>1. PICK g \in [SUBSET S -> Int] : Sums(g, v, S) /\ Total(v, S) = g[S]
  BY TotalSums
<1>2. Total(v, S \ {One(S)}) = g[S \ {One(S)}]
  BY <1>1, TotalOfSubset
<1> QED
  BY <1>1, <1>2 DEF Sums

LEMMA EitherOrder ==
  ASSUME NEW i \in Int, NEW j \in Int, NEW rest \in Int, NEW all, NEW a, NEW b,
         all = i + a, a = j + rest, b = i + rest
  PROVE  all = j + b
OBVIOUS

\* By induction over the size of the set: x and the member that the fold takes
\* first may be taken in either order.
LEMMA TotalByAny ==
  ASSUME NEW S, IsFiniteSet(S), NEW v, Whole(v, S), NEW x \in S
  PROVE  Total(v, S) = v[x] + Total(v, S \ {x})
<1> DEFINE ByAny(s) == \A y \in s : Total(v, s) = v[y] + Total(v, s \ {y})
           T == {n \in Nat : \A s \in SUBSET S : Cardinality(s) = n => ByAny(s)}
<1>0. \A s \in SUBSET S : IsFiniteSet(s) /\ Cardinality(s) \in Nat /\ Whole(v, s)
  BY FS_Subset, FS_CardinalityType DEF Whole
<1>1. 0 \in T
  BY <1>0, FS_EmptySet
<1>2. ASSUME NEW n \in Nat, n \in T PROVE n + 1 \in T
  <2>1. ASSUME NEW s \in SUBSET S, Cardinality(s) = n + 1, NEW y \in s
        PROVE  Total(v, s) = v[y] + Total(v, s \ {y})
    <3> DEFINE o == One(s)
               a == s \ {o}
               b == s \ {y}
    <3>1. o \in s /\ Total(v, s) = v[o] + Total(v, a)
      BY <1>0, <2>1, OneOf, TotalByOne
    <3>2. CASE y = o
      BY <3>1, <3>2
    <3>3. CASE y # o
      <4>1. /\ Cardinality(a) = n /\ a \in SUBSET S /\ y \in a
            /\ Cardinality(b) = n /\ b \in SUBSET S /\ o \in b
        BY <1>0, <2>1, <3>1, <3>3, Smaller
      <4>2. ByAny(a) /\ ByAny(b)
        BY <1>2, <4>1
      <4>3. Total(v, a) = v[y] + Total(v, a \ {y}) /\ Total(v, b) = v[o] + Total(v, b \ {o})
        BY <4>1, <4>2
      <4>4. a \ {y} = b \ {o}
        OBVIOUS
      <4>5. v[o] \in Int /\ v[y] \in Int /\ Total(v, b \ {o}) \in Int
        <5>1. b \ {o} \in SUBSET S
          OBVIOUS
        <5> QED
          BY <1>0, <2>1, <3>1, <5>1, TotalType DEF Whole
      <4>6. Total(v, a) = v[y] + Total(v, b \ {o})
        BY <4>3, <4>4
      <4> HIDE DEF o, a, b
      <4>7. Total(v, s) = v[y] + Total(v, b)
        BY <3>1, <4>3, <4>5, <4>6, EitherOrder
      <4> QED
        BY <4>7 DEF b
    <3> QED
      BY <3>2, <3>3
  <2> QED
    BY <2>1
<1>3. Nat \subseteq T
  <2> HIDE DEF T
  <2> QED
    BY <1>1, <1>2, Climb
<1> QED
  BY <1>0, <1>3

\* A member more.
LEMMA TotalAdds ==
  ASSUME NEW S, IsFiniteSet(S), NEW x, x \notin S, NEW v, Whole(v, S \cup {x})
  PROVE  Total(v, S \cup {x}) = Total(v, S) + v[x]
<1>1. IsFiniteSet(S \cup {x}) /\ (S \cup {x}) \ {x} = S
  BY FS_AddElement
<1>2. Total(v, S \cup {x}) = v[x] + Total(v, S)
  BY <1>1, TotalByAny
<1>3. v[x] \in Int /\ Total(v, S) \in Int
  BY TotalType DEF Whole
<1> QED
  BY <1>2, <1>3
=============================================================================

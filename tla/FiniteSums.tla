------------------------------ MODULE FiniteSums ------------------------------
(***************************************************************************)
(* Lemmas about sums over finite sets, which the modules write with        *)
(* MapThenSumSet.  It is a fold that takes the elements in the order of a  *)
(* CHOOSE; SumRemove says that the order does not matter, and what the     *)
(* other proofs need follows from it.  Each is an induction on the sets,   *)
(* stated as: there is no smallest set that refutes it.                    *)
(***************************************************************************)
EXTENDS Integers, FiniteSets, FiniteSetsExt, FiniteSetTheorems, WellFoundedInduction, TLAPS

(* A set of naturals has a least element.                                  *)
LEMMA Least ==
  ASSUME NEW S \in SUBSET Nat, S # {}
  PROVE  \E m \in S : \A j \in S : m <= j
<1> DEFINE R == OpToRel(<, Nat)
<1>1. IsWellFoundedOn(R, Nat)
  BY NatLessThanWellFounded
<1>2. \A i, j \in Nat : i < j => <<i, j>> \in R
  BY DEF OpToRel
<1> HIDE DEF R
<1>3. PICK m \in S : \A j \in S : ~ (<<j, m>> \in R)
  BY <1>1, WFMin
<1>4. ASSUME NEW j \in S PROVE m <= j
  <2>1. m \in Nat /\ j \in Nat /\ ~ (<<j, m>> \in R)
    BY <1>3
  <2>2. ~ (j < m)
    BY <1>2, <2>1, Zenon
  <2> QED BY <2>1, <2>2
<1> QED BY <1>4

(* Of some subsets of a finite set one has the fewest elements.            *)
LEMMA Smallest ==
  ASSUME NEW S, IsFiniteSet(S), NEW B \in SUBSET SUBSET S, B # {}
  PROVE  \E s \in B : \A t \in B : Cardinality(s) <= Cardinality(t)
<1> DEFINE Sizes == {Cardinality(s) : s \in B}
<1>1. \A s \in B : Cardinality(s) \in Nat
  BY FS_Subset, FS_CardinalityType
<1>2. Sizes \in SUBSET Nat /\ Sizes # {}
  BY <1>1
<1>3. \A s \in B : Cardinality(s) \in Sizes
  OBVIOUS
<1>4. \A k \in Sizes : \E s \in B : k = Cardinality(s)
  OBVIOUS
<1> HIDE DEF Sizes
<1>5. PICK k \in Sizes : \A j \in Sizes : k <= j
  BY <1>2, Least
<1> QED BY <1>3, <1>4, <1>5

(* The sum of the values of the function w on S, and the function of the   *)
(* subsets of D that its rounds define.                                    *)
SumOver(w, S) == MapThenSumSet(LAMBDA a : w[a], S)

One(s) == CHOOSE x \in s : TRUE
SumStep(g, w, s) == IF s = {} THEN 0 ELSE w[One(s)] + g[s \ {One(s)}]
UpTo(S, m) == {s \in SUBSET S : Cardinality(s) <= m}
IsSum(g, w, D) == g = [s \in D |-> SumStep(g, w, s)]
Sums(g, w, S) == \A s \in SUBSET S : g[s] = SumStep(g, w, s)

(* Taking one element out makes a set smaller by one.                      *)
LEMMA OneLess ==
  ASSUME NEW s, IsFiniteSet(s), s # {}
  PROVE  /\ One(s) \in s /\ IsFiniteSet(s \ {One(s)}) /\ Cardinality(s \ {One(s)}) = Cardinality(s) - 1
         /\ Cardinality(s) \in Nat \ {0}
<1>1. One(s) \in s
  BY DEF One
<1> QED BY <1>1, FS_RemoveElement, FS_CardinalityType, FS_EmptySet

(* The rounds define a function on the sets of up to k elements.           *)
LEMMA PartialSum ==
  ASSUME NEW S, IsFiniteSet(S), NEW w, NEW k \in Nat
  PROVE  \E g : IsSum(g, w, UpTo(S, k))
<1> DEFINE Stuck == {m \in Nat : ~ \E g : IsSum(g, w, UpTo(S, m))}
<1> SUFFICES ASSUME Stuck # {} PROVE FALSE
  OBVIOUS
<1>1. PICK m \in Stuck : \A j \in Stuck : m <= j
  <2>1. Stuck \in SUBSET Nat /\ Stuck # {}
    OBVIOUS
  <2> HIDE DEF Stuck
  <2> QED BY <2>1, Least
<1>0. \A s \in SUBSET S : IsFiniteSet(s) /\ Cardinality(s) \in Nat /\ (Cardinality(s) = 0 <=> s = {})
  BY FS_Subset, FS_CardinalityType, FS_EmptySet
<1>2. CASE m = 0
  <2>1. \A s \in UpTo(S, 0) : s = {}
    BY <1>0 DEF UpTo
  <2> DEFINE g == [s \in UpTo(S, 0) |-> 0]
  <2>2. \A s \in UpTo(S, 0) : SumStep(g, w, s) = 0
    BY <2>1 DEF SumStep
  <2>3. IsSum(g, w, UpTo(S, 0))
    BY <2>2 DEF IsSum
  <2> QED BY <1>2, <2>3
<1>3. CASE m # 0
  <2>1. m - 1 \in Nat /\ ~ (m <= m - 1)
    BY <1>3
  <2>2. PICK g : IsSum(g, w, UpTo(S, m - 1))
    BY <1>1, <2>1
  <2> DEFINE next == [s \in UpTo(S, m) |-> IF Cardinality(s) = m THEN SumStep(g, w, s) ELSE g[s]]
  <2>3. \A s \in UpTo(S, m - 1) : s \in UpTo(S, m) /\ next[s] = g[s]
    BY <1>0, <2>1 DEF UpTo
  <2>4. \A s \in UpTo(S, m - 1) : g[s] = SumStep(g, w, s)
    BY <2>2, Zenon DEF IsSum
  <2>5. \A s \in UpTo(S, m) : s # {} => s \ {One(s)} \in UpTo(S, m - 1)
    <3> TAKE s \in UpTo(S, m)
    <3> HAVE s # {}
    <3>1. s \in SUBSET S /\ Cardinality(s) <= m
      BY DEF UpTo
    <3>2. Cardinality(s \ {One(s)}) = Cardinality(s) - 1 /\ Cardinality(s) \in Nat /\ s \ {One(s)} \in SUBSET S
      BY <1>0, <3>1, OneLess
    <3> QED BY <2>1, <3>1, <3>2 DEF UpTo
  <2>6. \A s \in UpTo(S, m) : next[s] = SumStep(next, w, s)
    <3> TAKE s \in UpTo(S, m)
    <3>1. CASE Cardinality(s) = m
      <4>1. next[s] = SumStep(g, w, s)
        BY <3>1
      <4> HIDE DEF next
      <4> QED BY <2>3, <2>5, <4>1 DEF SumStep
    <3>2. CASE Cardinality(s) # m
      <4>1. s \in UpTo(S, m - 1)
        BY <1>0, <3>2 DEF UpTo
      <4> HIDE DEF next
      <4> QED BY <2>3, <2>4, <2>5, <4>1 DEF SumStep
    <3> QED BY <3>1, <3>2
  <2>7. next = [s \in UpTo(S, m) |-> next[s]]
    OBVIOUS
  <2>8. IsSum(next, w, UpTo(S, m))
    <3> HIDE DEF next
    <3> QED BY <2>6, <2>7 DEF IsSum
  <2> QED BY <1>1, <2>8
<1> QED BY <1>2, <1>3

(* The fold computes the function of the rounds, and there is only one.    *)
LEMMA SumExists ==
  ASSUME NEW S, IsFiniteSet(S), NEW w
  PROVE  \E g : IsSum(g, w, SUBSET S)
<1>1. UpTo(S, Cardinality(S)) = SUBSET S /\ Cardinality(S) \in Nat
  BY FS_Subset, FS_CardinalityType DEF UpTo
<1>2. \E g : IsSum(g, w, UpTo(S, Cardinality(S)))
  BY <1>1, PartialSum
<1> QED BY <1>1, <1>2

LEMMA SumIsFold ==
  ASSUME NEW S, IsFiniteSet(S), NEW w
  PROVE  \E g : Sums(g, w, S) /\ SumOver(w, S) = g[S]
<1> DEFINE g == CHOOSE g : IsSum(g, w, SUBSET S)
<1>1. IsSum(g, w, SUBSET S)
  BY SumExists
<1>2. SumOver(w, S) = g[S]
  BY Zenon DEF SumOver, MapThenSumSet, MapThenFoldSet, IsSum, SumStep, One
<1>3. Sums(g, w, S)
  BY <1>1, Zenon DEF IsSum, Sums
<1> QED BY <1>2, <1>3

(* Two functions that agree on S have the same sums of its subsets.        *)
Agree(w, v, S) == \A a \in S : w[a] = v[a]

LEMMA SumAgrees ==
  ASSUME NEW S, IsFiniteSet(S), NEW w, NEW v, Agree(w, v, S), NEW g, Sums(g, w, S), NEW h, Sums(h, v, S)
  PROVE  g[S] = h[S]
<1> DEFINE Wrong == {s \in SUBSET S : g[s] # h[s]}
<1> SUFFICES ASSUME Wrong # {} PROVE FALSE
  OBVIOUS
<1>1. PICK s \in Wrong : \A t \in Wrong : Cardinality(s) <= Cardinality(t)
  <2>1. Wrong \in SUBSET SUBSET S /\ Wrong # {}
    OBVIOUS
  <2> HIDE DEF Wrong
  <2> QED BY <2>1, Smallest
<1>2. /\ s \in SUBSET S /\ IsFiniteSet(s)
  BY FS_Subset
<1>3. /\ g[s] = IF s = {} THEN 0 ELSE w[One(s)] + g[s \ {One(s)}]
      /\ h[s] = IF s = {} THEN 0 ELSE v[One(s)] + h[s \ {One(s)}]
  BY <1>2 DEF Sums, SumStep
<1>4. s # {}
  BY <1>3
<1> DEFINE t == s \ {One(s)}
<1>5. One(s) \in S /\ t \in SUBSET S /\ Cardinality(t) = Cardinality(s) - 1 /\ Cardinality(s) \in Nat \ {0}
  BY <1>2, <1>4, OneLess
<1>6. g[t] = h[t]
  BY <1>1, <1>5
<1> QED BY <1>3, <1>4, <1>5, <1>6 DEF Agree

(* So the fold has the value that any function of the rounds has.          *)
LEMMA SumIsRounds ==
  ASSUME NEW S, IsFiniteSet(S), NEW w, NEW g, Sums(g, w, S)
  PROVE  SumOver(w, S) = g[S]
<1>1. PICK h : Sums(h, w, S) /\ SumOver(w, S) = h[S]
  BY SumIsFold
<1>2. Agree(w, w, S)
  BY DEF Agree
<1> QED BY <1>1, <1>2, SumAgrees

(* Any element can be taken out first.                                     *)
Integral(w, S) == \A a \in S : w[a] \in Int
Removable(g, w, s) == g[s] \in Int /\ \A y \in s : g[s] = w[y] + g[s \ {y}]

LEMMA RoundsRemove ==
  ASSUME NEW S, IsFiniteSet(S), NEW w, Integral(w, S), NEW g, Sums(g, w, S)
  PROVE  Removable(g, w, S)
<1> DEFINE Right(s) == g[s] \in Int /\ \A y \in s : g[s] = w[y] + g[s \ {y}]
           Wrong == {s \in SUBSET S : ~ Right(s)}
<1> SUFFICES ASSUME Wrong # {} PROVE FALSE
  <2>1. Wrong = {} => Right(S)
    OBVIOUS
  <2> QED BY <2>1 DEF Removable
<1>1. PICK s \in Wrong : \A t \in Wrong : Cardinality(s) <= Cardinality(t)
  <2>1. Wrong \in SUBSET SUBSET S /\ Wrong # {}
    OBVIOUS
  <2> HIDE DEF Wrong
  <2> QED BY <2>1, Smallest
<1>2. s \in SUBSET S /\ IsFiniteSet(s) /\ ~ Right(s)
  BY FS_Subset
<1>3. g[s] = IF s = {} THEN 0 ELSE w[One(s)] + g[s \ {One(s)}]
  BY <1>2 DEF Sums, SumStep
<1>4. s # {}
  BY <1>2, <1>3
<1> DEFINE z == One(s)
<1>5. \A y \in s : s \ {y} \in SUBSET S /\ Cardinality(s \ {y}) = Cardinality(s) - 1 /\ Cardinality(s) \in Nat \ {0}
  BY <1>2, <1>4, FS_RemoveElement, FS_CardinalityType, FS_EmptySet
<1>6. \A y \in s : Right(s \ {y})
  BY <1>1, <1>5
<1>7. z \in s /\ w[z] \in Int
  BY <1>2, <1>4, OneLess DEF Integral
<1>8. g[s] = w[z] + g[s \ {z}] /\ g[s] \in Int
  <2>1. g[s] = w[z] + g[s \ {z}]
    BY <1>3, <1>4
  <2>2. g[s \ {z}] \in Int
    BY <1>6, <1>7
  <2> HIDE DEF z
  <2> QED BY <1>7, <2>1, <2>2
<1> HIDE DEF z
<1>9. ASSUME NEW y \in s PROVE g[s] = w[y] + g[s \ {y}]
  <2>1. CASE y = z
    BY <1>8, <2>1
  <2>2. CASE y # z
    <3>1. y \in s \ {z} /\ z \in s \ {y} /\ (s \ {z}) \ {y} = (s \ {y}) \ {z}
      BY <1>7, <2>2
    <3>2. g[s \ {z}] = w[y] + g[(s \ {z}) \ {y}]
      BY <1>6, <1>7, <3>1
    <3>3. g[s \ {y}] = w[z] + g[(s \ {y}) \ {z}]
      BY <1>6, <3>1
    <3> DEFINE rest == (s \ {y}) \ {z}
    <3>4. g[rest] \in Int
      <4>1. rest \in SUBSET S /\ IsFiniteSet(s \ {y}) /\ Cardinality(rest) = Cardinality(s \ {y}) - 1
        BY <1>2, <3>1, FS_RemoveElement
      <4>2. Cardinality(s) \in Nat \ {0} /\ Cardinality(s \ {y}) = Cardinality(s) - 1
        BY <1>5
      <4>3. ~ (Cardinality(s) <= Cardinality(rest))
        BY <4>1, <4>2
      <4> HIDE DEF rest
      <4> QED BY <1>1, <4>1, <4>3
    <3>5. w[y] \in Int /\ (s \ {z}) \ {y} = rest
      BY <1>2, <3>1 DEF Integral
    <3> HIDE DEF rest
    <3>6. g[s \ {z}] = w[y] + g[rest] /\ g[s \ {y}] = w[z] + g[rest]
      BY <3>2, <3>3, <3>5 DEF rest
    <3> QED BY <1>7, <1>8, <3>4, <3>5, <3>6
  <2> QED BY <2>1, <2>2
<1> QED BY <1>2, <1>8, <1>9

-----------------------------------------------------------------------------
(* What the other proofs use.                                              *)

LEMMA SumEmpty ==
  ASSUME NEW w
  PROVE  SumOver(w, {}) = 0
<1>1. PICK g : Sums(g, w, {}) /\ SumOver(w, {}) = g[{}]
  BY SumIsFold, FS_EmptySet
<1> QED BY <1>1 DEF Sums, SumStep

LEMMA SumRemove ==
  ASSUME NEW S, IsFiniteSet(S), NEW w, \A a \in S : w[a] \in Int
  PROVE  SumOver(w, S) \in Int /\ \A y \in S : SumOver(w, S) = w[y] + SumOver(w, S \ {y})
<1>1. PICK g : Sums(g, w, S) /\ SumOver(w, S) = g[S]
  BY SumIsFold
<1>2. g[S] \in Int /\ \A y \in S : g[S] = w[y] + g[S \ {y}]
  <2>1. Integral(w, S)
    BY DEF Integral
  <2>2. Removable(g, w, S)
    BY <1>1, <2>1, RoundsRemove
  <2> QED BY <2>2 DEF Removable
<1>3. ASSUME NEW y \in S PROVE g[S \ {y}] = SumOver(w, S \ {y})
  <2>1. IsFiniteSet(S \ {y}) /\ Sums(g, w, S \ {y})
    BY <1>1, FS_RemoveElement DEF Sums
  <2> QED BY <2>1, SumIsRounds
<1> QED BY <1>1, <1>2, <1>3

LEMMA SumSame ==
  ASSUME NEW S, IsFiniteSet(S), NEW w, NEW v, Agree(w, v, S)
  PROVE  SumOver(w, S) = SumOver(v, S)
<1>1. PICK g : Sums(g, w, S) /\ SumOver(w, S) = g[S]
  BY SumIsFold
<1>2. PICK h : Sums(h, v, S) /\ SumOver(v, S) = h[S]
  BY SumIsFold
<1> QED BY <1>1, <1>2, SumAgrees

(* The sum follows a change of one value.                                  *)
LEMMA SumChange ==
  ASSUME NEW S, IsFiniteSet(S), NEW w, NEW v, NEW x \in S, NEW d \in Int,
         \A a \in S : w[a] \in Int /\ v[a] = w[a] + (IF a = x THEN d ELSE 0)
  PROVE  SumOver(w, S) \in Int /\ SumOver(v, S) = SumOver(w, S) + d
<1>1. \A a \in S : v[a] \in Int
  OBVIOUS
<1>2. /\ SumOver(w, S) \in Int /\ SumOver(w, S) = w[x] + SumOver(w, S \ {x})
      /\ SumOver(v, S) \in Int /\ SumOver(v, S) = v[x] + SumOver(v, S \ {x})
  BY <1>1, SumRemove
<1>3. IsFiniteSet(S \ {x}) /\ Agree(w, v, S \ {x}) /\ \A a \in S \ {x} : w[a] \in Int
  BY FS_RemoveElement DEF Agree
<1>4. SumOver(w, S \ {x}) \in Int
  BY <1>3, SumRemove
<1>5. SumOver(w, S \ {x}) = SumOver(v, S \ {x})
  BY <1>3, SumSame
<1>6. v[x] = w[x] + d /\ w[x] \in Int
  OBVIOUS
<1> QED BY <1>2, <1>4, <1>5, <1>6

(* Values of zero can be left out, and the sum of ones is how many.        *)
LEMMA SumSupport ==
  ASSUME NEW S, IsFiniteSet(S), NEW T, NEW w, \A a \in S : w[a] \in Int /\ (a \notin T => w[a] = 0)
  PROVE  SumOver(w, S) = SumOver(w, S \cap T)
<1> DEFINE Wrong == {s \in SUBSET S : SumOver(w, s) # SumOver(w, s \cap T)}
<1> SUFFICES ASSUME Wrong # {} PROVE FALSE
  OBVIOUS
<1>1. PICK s \in Wrong : \A t \in Wrong : Cardinality(s) <= Cardinality(t)
  <2>1. Wrong \in SUBSET SUBSET S /\ Wrong # {}
    OBVIOUS
  <2> HIDE DEF Wrong
  <2> QED BY <2>1, Smallest
<1>2. s \in SUBSET S /\ IsFiniteSet(s) /\ SumOver(w, s) # SumOver(w, s \cap T)
  BY FS_Subset
<1>3. PICK y \in s : y \notin T
  <2>1. SUFFICES ASSUME s \subseteq T PROVE FALSE
    OBVIOUS
  <2>2. s \cap T = s
    BY <2>1
  <2> QED BY <1>2, <2>2
<1> DEFINE t == s \ {y}
<1>4. t \in SUBSET S /\ IsFiniteSet(t) /\ Cardinality(t) = Cardinality(s) - 1 /\ Cardinality(s) \in Nat
  BY <1>2, FS_RemoveElement, FS_CardinalityType
<1>5. SumOver(w, t) = SumOver(w, t \cap T)
  BY <1>1, <1>4
<1>6. t \cap T = s \cap T
  BY <1>3
<1>7. SumOver(w, s) = w[y] + SumOver(w, t) /\ w[y] = 0
  BY <1>2, <1>3, SumRemove
<1>8. SumOver(w, t) \in Int
  BY <1>4, SumRemove
<1>9. SumOver(w, s) = SumOver(w, t)
  <2> HIDE DEF t
  <2> QED BY <1>7, <1>8
<1> QED BY <1>2, <1>5, <1>6, <1>9, Zenon

LEMMA SumOnes ==
  ASSUME NEW S, IsFiniteSet(S), NEW w, \A a \in S : w[a] = 1
  PROVE  SumOver(w, S) = Cardinality(S)
<1> DEFINE Wrong == {s \in SUBSET S : SumOver(w, s) # Cardinality(s)}
<1> SUFFICES ASSUME Wrong # {} PROVE FALSE
  OBVIOUS
<1>1. PICK s \in Wrong : \A t \in Wrong : Cardinality(s) <= Cardinality(t)
  <2>1. Wrong \in SUBSET SUBSET S /\ Wrong # {}
    OBVIOUS
  <2> HIDE DEF Wrong
  <2> QED BY <2>1, Smallest
<1>2. s \in SUBSET S /\ IsFiniteSet(s) /\ SumOver(w, s) # Cardinality(s)
  BY FS_Subset
<1>3. s # {}
  BY <1>2, SumEmpty, FS_EmptySet
<1>4. PICK y : y \in s
  BY <1>3
<1> DEFINE t == s \ {y}
<1>5. t \in SUBSET S /\ Cardinality(t) = Cardinality(s) - 1 /\ Cardinality(s) \in Nat
  BY <1>2, <1>4, FS_RemoveElement, FS_CardinalityType
<1>6. SumOver(w, t) = Cardinality(t)
  BY <1>1, <1>5
<1>7. SumOver(w, s) = 1 + SumOver(w, t)
  BY <1>2, <1>4, SumRemove
<1> HIDE DEF t
<1> QED BY <1>2, <1>5, <1>6, <1>7

LEMMA SumIsNat ==
  ASSUME NEW S, IsFiniteSet(S), NEW w, \A a \in S : w[a] \in Nat
  PROVE  SumOver(w, S) \in Nat
<1> DEFINE Wrong == {s \in SUBSET S : SumOver(w, s) \notin Nat}
<1> SUFFICES ASSUME Wrong # {} PROVE FALSE
  OBVIOUS
<1>1. PICK s \in Wrong : \A t \in Wrong : Cardinality(s) <= Cardinality(t)
  <2>1. Wrong \in SUBSET SUBSET S /\ Wrong # {}
    OBVIOUS
  <2> HIDE DEF Wrong
  <2> QED BY <2>1, Smallest
<1>2. s \in SUBSET S /\ IsFiniteSet(s) /\ SumOver(w, s) \notin Nat
  BY FS_Subset
<1>3. PICK y : y \in s
  BY <1>2, SumEmpty
<1> DEFINE t == s \ {y}
<1>4. t \in SUBSET S /\ Cardinality(t) = Cardinality(s) - 1 /\ Cardinality(s) \in Nat
  BY <1>2, <1>3, FS_RemoveElement, FS_CardinalityType
<1>5. SumOver(w, t) \in Nat
  BY <1>1, <1>4
<1>6. SumOver(w, s) = w[y] + SumOver(w, t)
  BY <1>2, <1>3, SumRemove
<1> HIDE DEF t
<1> QED BY <1>2, <1>3, <1>5, <1>6
=============================================================================

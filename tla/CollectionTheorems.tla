-------------------------- MODULE CollectionTheorems --------------------------
(***************************************************************************)
(* What the proofs need to know of the lists of processes that the         *)
(* schedulers keep (an entry is appended, an entry is removed) and of the  *)
(* sums of threads and of memory (MapThenSumSet over a finite set).        *)
(*                                                                         *)
(* The sum is defined by recursion over the subsets of the set.  That the  *)
(* recursion defines a function, and the facts that need induction over a  *)
(* finite set or a sequence, are proved from the existence of a smallest   *)
(* counterexample.                                                         *)
(***************************************************************************)
EXTENDS Integers, Sequences, SequencesExt, FiniteSetsExt, SequenceTheorems,
        FiniteSetTheorems, TLAPS

(* What the removal of one entry does to a list without duplicates.         *)
LEMMA RemoveAtFacts ==
    ASSUME NEW S, NEW s \in Seq(S), NEW i \in 1 .. Len(s),
           \A j, k \in 1 .. Len(s) : s[j] = s[k] => j = k
    PROVE  /\ RemoveAt(s, i) \in Seq(S)
           /\ Len(RemoveAt(s, i)) = Len(s) - 1
           /\ ToSet(RemoveAt(s, i)) = ToSet(s) \ {s[i]}
           /\ \A j, k \in 1 .. Len(RemoveAt(s, i)) :
                RemoveAt(s, i)[j] = RemoveAt(s, i)[k] => j = k
<1> DEFINE r == RemoveAt(s, i)
           n == Len(s)
<1>1. /\ r \in Seq(S)
      /\ Len(r) = n - 1
      /\ \A j \in 1 .. n - 1 : r[j] = IF j < i THEN s[j] ELSE s[j + 1]
  <2> DEFINE a == SubSeq(s, 1, i - 1)
             b == SubSeq(s, i + 1, n)
  <2>1. /\ a \in Seq(S)
        /\ Len(a) = i - 1
        /\ \A j \in 1 .. i - 1 : a[j] = s[j]
    OBVIOUS
  <2>2. /\ b \in Seq(S)
        /\ Len(b) = n - i
        /\ \A j \in 1 .. n - i : b[j] = s[j + i]
    OBVIOUS
  <2>3. r = a \o b
    BY DEF RemoveAt
  <2> HIDE DEF a, b, r
  <2>4. r \in Seq(S) /\ Len(r) = n - 1
    BY <2>1, <2>2, <2>3, ConcatProperties
  <2>5. ASSUME NEW j \in 1 .. n - 1 PROVE r[j] = IF j < i THEN s[j] ELSE s[j + 1]
    <3>1. CASE j < i
      <4>1. j \in 1 .. Len(a)
        BY <2>1, <3>1
      <4>2. r[j] = a[j]
        BY <2>1, <2>2, <2>3, <4>1, ConcatProperties
      <4> QED BY <2>1, <3>1, <4>2
    <3>2. CASE ~(j < i)
      <4>1. j \in Len(a) + 1 .. Len(a) + Len(b) /\ j - Len(a) \in 1 .. n - i
        BY <2>1, <2>2, <3>2
      <4>2. r[j] = b[j - Len(a)]
        BY <2>1, <2>2, <2>3, <4>1, ConcatProperties
      <4>3. j - Len(a) + i = j + 1
        BY <2>1
      <4> QED BY <2>2, <3>2, <4>1, <4>2, <4>3
    <3> QED BY <3>1, <3>2
  <2> QED BY <2>4, <2>5
<1>2. ASSUME NEW x \in ToSet(r) PROVE x \in ToSet(s) \ {s[i]}
  <2>1. PICK j \in 1 .. n - 1 : x = r[j]
    BY <1>1 DEF ToSet
  <2>2. CASE j < i
    BY <2>1, <2>2, <1>1 DEF ToSet
  <2>3. CASE ~(j < i)
    BY <2>1, <2>3, <1>1 DEF ToSet
  <2> QED BY <2>2, <2>3
<1>3. ASSUME NEW x \in ToSet(s) \ {s[i]} PROVE x \in ToSet(r)
  <2>1. PICK j \in 1 .. n : x = s[j] /\ j # i
    BY DEF ToSet
  <2>2. CASE j < i
    <3>1. j \in 1 .. n - 1 /\ r[j] = x
      BY <2>1, <2>2, <1>1
    <3> QED BY <3>1, <1>1 DEF ToSet
  <2>3. CASE j > i
    <3>1. j - 1 \in 1 .. n - 1 /\ r[j - 1] = x
      BY <2>1, <2>3, <1>1
    <3> QED BY <3>1, <1>1 DEF ToSet
  <2> QED BY <2>1, <2>2, <2>3
<1>4. ASSUME NEW j \in 1 .. Len(r), NEW k \in 1 .. Len(r), r[j] = r[k]
      PROVE  j = k
  <2> DEFINE at(x) == IF x < i THEN x ELSE x + 1
  <2> HIDE DEF r
  <2>1. j \in 1 .. n - 1 /\ k \in 1 .. n - 1
    BY <1>1
  <2>2. r[j] = s[at(j)] /\ r[k] = s[at(k)]
    BY <1>1, <2>1
  <2>3. at(j) \in 1 .. n /\ at(k) \in 1 .. n
    BY <2>1
  <2>4. at(j) = at(k)
    BY <1>4, <2>2, <2>3
  <2> QED BY <2>1, <2>4
<1> QED BY <1>1, <1>2, <1>3, <1>4

(* What an append does to a list without duplicates.                        *)
LEMMA AppendFacts ==
    ASSUME NEW S, NEW s \in Seq(S), NEW e \in S, e \notin ToSet(s),
           \A j, k \in 1 .. Len(s) : s[j] = s[k] => j = k
    PROVE  /\ Append(s, e) \in Seq(S)
           /\ Len(Append(s, e)) = Len(s) + 1
           /\ ToSet(Append(s, e)) = ToSet(s) \cup {e}
           /\ \A j, k \in 1 .. Len(Append(s, e)) :
                Append(s, e)[j] = Append(s, e)[k] => j = k
<1> DEFINE r == Append(s, e)
           n == Len(s)
<1>1. /\ r \in Seq(S)
      /\ Len(r) = n + 1
      /\ \A j \in 1 .. n : r[j] = s[j]
      /\ r[n + 1] = e
  OBVIOUS
<1>2. ASSUME NEW x \in ToSet(r) PROVE x \in ToSet(s) \cup {e}
  BY <1>1 DEF ToSet
<1>3. ASSUME NEW x \in ToSet(s) \cup {e} PROVE x \in ToSet(r)
  <2>1. CASE x = e
    BY <2>1, <1>1 DEF ToSet
  <2>2. CASE x \in ToSet(s)
    <3>1. PICK j \in 1 .. n : x = s[j]
      BY <2>2 DEF ToSet
    <3> QED BY <3>1, <1>1 DEF ToSet
  <2> QED BY <2>1, <2>2
<1>4. \A j \in 1 .. n : s[j] # e
  BY DEF ToSet
<1>5. ASSUME NEW j \in 1 .. Len(r), NEW k \in 1 .. Len(r), r[j] = r[k]
      PROVE  j = k
  BY <1>1, <1>4, <1>5
<1> QED BY <1>1, <1>2, <1>3, <1>5

(* A list without duplicates has as many entries as elements.               *)
LEMMA ListCardinality ==
    ASSUME NEW S, NEW s \in Seq(S), \A j, k \in 1 .. Len(s) : s[j] = s[k] => j = k
    PROVE  IsFiniteSet(ToSet(s)) /\ Cardinality(ToSet(s)) = Len(s)
<1>1. Len(s) \in Nat /\ DOMAIN s = 1 .. Len(s)
  OBVIOUS
<1>2. s \in Bijection(1 .. Len(s), ToSet(s))
  BY <1>1 DEF Bijection, Injection, Surjection, ToSet, IsInjective
<1>3. ExistsBijection(1 .. Len(s), ToSet(s))
  BY <1>2 DEF ExistsBijection
<1> QED BY <1>1, <1>3, FS_NatBijection, FS_CountingElements

------------------------------------------------------------------------------
(* The sum of f over S.                                                     *)
SumOver(f, S) == MapThenSumSet(LAMBDA x : f[x], S)

(* The element that the recursion takes next.                               *)
Pick(s) == CHOOSE x \in s : TRUE

(* g is the function that the recursion over the subsets of S defines.      *)
IsIter(g, f, S) ==
    g = [s \in SUBSET S |-> IF s = {} THEN 0 ELSE f[Pick(s)] + g[s \ {Pick(s)}]]

Iter(f, S) == CHOOSE g : IsIter(g, f, S)

(* A non-empty set of subsets of a finite set has a smallest member.        *)
LEMMA SmallestSubset ==
    ASSUME NEW S, IsFiniteSet(S), NEW T, T \subseteq SUBSET S, T # {}
    PROVE  \E U \in T : \A V \in T : V \subseteq U => V = U
<1>1. T \subseteq FiniteSubsetsOf(S)
  BY FS_FiniteSubsetsOfFinite
<1>2. IsWellFoundedOn(StrictSubsetOrdering(S), FiniteSubsetsOf(S))
  BY FS_StrictSubsetOrderingWellFounded
<1>3. PICK U \in T : \A V \in T : ~(<<V, U>> \in StrictSubsetOrdering(S))
  BY <1>1, <1>2, WFMin
<1> QED BY <1>3 DEF StrictSubsetOrdering

(* The recursion takes its next element out of the set.                     *)
LEMMA PickIsMember == \A s : s # {} => Pick(s) \in s
BY DEF Pick

(* Two such functions agree where both are defined.                         *)
LEMMA IterUnique ==
    ASSUME NEW f, NEW A, NEW B, NEW g, NEW h, IsIter(g, f, A), IsIter(h, f, B),
           NEW S, IsFiniteSet(S), S \subseteq A, S \subseteq B
    PROVE  g[S] = h[S]
<1> DEFINE T == {U \in SUBSET S : g[U] # h[U]}
<1> SUFFICES ASSUME T # {} PROVE FALSE
  OBVIOUS
<1>1. PICK U \in T : \A V \in T : V \subseteq U => V = U
  <2>1. T \subseteq SUBSET S
    OBVIOUS
  <2> HIDE DEF T
  <2> QED BY <2>1, SmallestSubset
<1>2. /\ g[U] = IF U = {} THEN 0 ELSE f[Pick(U)] + g[U \ {Pick(U)}]
      /\ h[U] = IF U = {} THEN 0 ELSE f[Pick(U)] + h[U \ {Pick(U)}]
  BY DEF IsIter
<1>3. U # {} /\ Pick(U) \in U
  BY <1>2, PickIsMember
<1>4. U \ {Pick(U)} \notin T
  BY <1>1, <1>3
<1>5. g[U \ {Pick(U)}] = h[U \ {Pick(U)}]
  BY <1>4
<1> QED BY <1>2, <1>3, <1>5

(* The recursion defines a function on the subsets of a finite set.         *)
LEMMA IterExists ==
    ASSUME NEW f, NEW S, IsFiniteSet(S) PROVE IsIter(Iter(f, S), f, S)
<1> DEFINE T == {U \in SUBSET S : ~\E g : IsIter(g, f, U)}
<1>1. ASSUME T # {} PROVE FALSE
  <2>1. PICK U \in T : \A V \in T : V \subseteq U => V = U
    <3>1. T \subseteq SUBSET S
      OBVIOUS
    <3> HIDE DEF T
    <3> QED BY <1>1, <3>1, SmallestSubset
  <2> DEFINE Rest(s) == s \ {Pick(s)}
             h == [s \in SUBSET U |->
                     IF s = {} THEN 0 ELSE f[Pick(s)] + Iter(f, Rest(s))[Rest(s)]]
  <2>2. ASSUME NEW V \in SUBSET U, V # U PROVE IsIter(Iter(f, V), f, V)
    <3>1. V \notin T
      BY <2>1, <2>2
    <3>2. \E g : IsIter(g, f, V)
      BY <3>1, <2>1
    <3> QED BY <3>2 DEF Iter
  <2>3. ASSUME NEW s \in SUBSET U, s # {} PROVE h[Rest(s)] = Iter(f, Rest(s))[Rest(s)]
    <3> DEFINE V == Rest(s)
    <3>1. V \in SUBSET U /\ V # U /\ IsFiniteSet(V)
      <4>1. Pick(s) \in s
        BY <2>3, PickIsMember
      <4>2. V \in SUBSET S
        OBVIOUS
      <4> QED BY <4>1, <4>2, FS_Subset
    <3>2. IsIter(Iter(f, V), f, V)
      BY <3>1, <2>2
    <3> HIDE DEF V
    <3>3. Iter(f, V)[V] = IF V = {} THEN 0 ELSE f[Pick(V)] + Iter(f, V)[V \ {Pick(V)}]
      BY <3>2 DEF IsIter
    <3>4. h[V] = IF V = {} THEN 0 ELSE f[Pick(V)] + Iter(f, Rest(V))[Rest(V)]
      BY <3>1
    <3>5. CASE V = {}
      BY <3>3, <3>4, <3>5 DEF V
    <3>6. CASE V # {}
      <4> DEFINE W == Rest(V)
      <4>1. W \in SUBSET V /\ W # V /\ IsFiniteSet(W)
        <5>1. Pick(V) \in V
          BY <3>6, PickIsMember
        <5>2. W \in SUBSET V
          OBVIOUS
        <5> QED BY <5>1, <5>2, <3>1, FS_Subset
      <4>2. IsIter(Iter(f, W), f, W)
        BY <3>1, <4>1, <2>2
      <4>3. Iter(f, V)[W] = Iter(f, W)[W]
        <5> HIDE DEF W
        <5> QED BY <3>2, <4>1, <4>2, IterUnique
      <4> QED BY <3>3, <3>4, <3>6, <4>3 DEF V
    <3> QED BY <3>5, <3>6
  <2>4. h = [s \in SUBSET U |-> IF s = {} THEN 0 ELSE f[Pick(s)] + h[s \ {Pick(s)}]]
    BY <2>3
  <2>5. IsIter(h, f, U)
    <3> HIDE DEF h
    <3> QED BY <2>4 DEF IsIter
  <2> QED BY <2>1, <2>5
<1>2. S \notin T
  BY <1>1
<1>3. \E g : IsIter(g, f, S)
  BY <1>2
<1> QED BY <1>3 DEF Iter

(* The library's sum is the value of that function for the whole set.       *)
LEMMA SumIsIter ==
    ASSUME NEW f, NEW S PROVE SumOver(f, S) = Iter(f, S)[S]
BY DEF SumOver, MapThenSumSet, MapThenFoldSet, Iter, IsIter, Pick

------------------------------------------------------------------------------
(* The sum over no element is zero.                                         *)
LEMMA SumEmpty == ASSUME NEW f PROVE SumOver(f, {}) = 0
<1>1. IsIter(Iter(f, {}), f, {})
  BY IterExists, FS_EmptySet
<1> QED BY <1>1, SumIsIter DEF IsIter

(* The sum is the first element's value and the sum over the others.        *)
LEMMA SumPick ==
    ASSUME NEW f, NEW S, IsFiniteSet(S), S # {}
    PROVE  SumOver(f, S) = f[Pick(S)] + SumOver(f, S \ {Pick(S)})
<1> DEFINE R == S \ {Pick(S)}
<1>1. IsFiniteSet(R) /\ R \subseteq S
  BY FS_RemoveElement
<1>2. IsIter(Iter(f, S), f, S) /\ IsIter(Iter(f, R), f, R)
  <2> HIDE DEF R
  <2> QED BY <1>1, IterExists
<1>3. Iter(f, S)[S] = f[Pick(S)] + Iter(f, S)[R]
  BY <1>2 DEF IsIter
<1>4. Iter(f, S)[R] = Iter(f, R)[R]
  <2> HIDE DEF R
  <2> QED BY <1>1, <1>2, IterUnique
<1> QED BY <1>3, <1>4, SumIsIter

(* A sum of natural numbers is a natural number.                            *)
LEMMA SumType ==
    ASSUME NEW A, NEW f \in [A -> Nat], NEW S, S \subseteq A, IsFiniteSet(S)
    PROVE  SumOver(f, S) \in Nat
<1> DEFINE T == {U \in SUBSET S : SumOver(f, U) \notin Nat}
<1> SUFFICES ASSUME T # {} PROVE FALSE
  OBVIOUS
<1>1. PICK U \in T : \A V \in T : V \subseteq U => V = U
  <2>1. T \subseteq SUBSET S
    OBVIOUS
  <2> HIDE DEF T
  <2> QED BY <2>1, SmallestSubset
<1>2. U # {} /\ IsFiniteSet(U) /\ Pick(U) \in U
  <2>1. SumOver(f, {}) \in Nat
    BY SumEmpty
  <2>2. U # {}
    BY <2>1
  <2> QED BY <2>2, FS_Subset, PickIsMember
<1>3. SumOver(f, U) = f[Pick(U)] + SumOver(f, U \ {Pick(U)})
  BY <1>2, SumPick
<1>4. U \ {Pick(U)} \notin T
  BY <1>1, <1>2
<1>5. SumOver(f, U \ {Pick(U)}) \in Nat
  BY <1>4
<1>6. f[Pick(U)] \in Nat
  BY <1>2
<1> QED BY <1>3, <1>5, <1>6

(* Whatever element is taken out first, the sum is the same: the elements    *)
(* of MapThenSumSet may come in any order, and an application that ends      *)
(* gives back what it added.                                                 *)
LEMMA SumRemove ==
    ASSUME NEW A, NEW f \in [A -> Nat], NEW S, S \subseteq A, IsFiniteSet(S), NEW a \in S
    PROVE  SumOver(f, S) = f[a] + SumOver(f, S \ {a})
<1> DEFINE T == {U \in SUBSET S : \E x \in U : SumOver(f, U) # f[x] + SumOver(f, U \ {x})}
<1> SUFFICES ASSUME T # {} PROVE FALSE
  OBVIOUS
<1>1. PICK U \in T : \A V \in T : V \subseteq U => V = U
  <2>1. T \subseteq SUBSET S
    OBVIOUS
  <2> HIDE DEF T
  <2> QED BY <2>1, SmallestSubset
<1>2. PICK x \in U : SumOver(f, U) # f[x] + SumOver(f, U \ {x})
  OBVIOUS
<1> DEFINE y == Pick(U)
<1>3. y \in U /\ IsFiniteSet(U) /\ U \subseteq A
  BY PickIsMember, FS_Subset
<1>4. SumOver(f, U) = f[y] + SumOver(f, U \ {y})
  BY <1>3, SumPick
<1> HIDE DEF y
<1>5. x # y
  BY <1>2, <1>4
<1>6. \A V \in SUBSET U : V # U => \A z \in V : SumOver(f, V) = f[z] + SumOver(f, V \ {z})
  BY <1>1
<1>7. SumOver(f, U \ {y}) = f[x] + SumOver(f, (U \ {y}) \ {x})
  BY <1>3, <1>5, <1>6
<1>8. SumOver(f, U \ {x}) = f[y] + SumOver(f, (U \ {x}) \ {y})
  BY <1>3, <1>5, <1>6
<1>9. (U \ {y}) \ {x} = (U \ {x}) \ {y}
  OBVIOUS
<1>10. SumOver(f, (U \ {x}) \ {y}) \in Nat
  <2>1. IsFiniteSet((U \ {x}) \ {y})
    BY <1>3, FS_RemoveElement
  <2> QED BY <1>3, <2>1, SumType
<1>11. f[x] \in Nat /\ f[y] \in Nat
  BY <1>3
<1> QED BY <1>2, <1>4, <1>7, <1>8, <1>9, <1>10, <1>11

(* A new element adds its value to the sum: an application is started.      *)
LEMMA SumAdd ==
    ASSUME NEW A, NEW f \in [A -> Nat], NEW S, S \subseteq A, IsFiniteSet(S), NEW a \in A \ S
    PROVE  SumOver(f, S \cup {a}) = SumOver(f, S) + f[a]
<1>1. IsFiniteSet(S \cup {a}) /\ (S \cup {a}) \ {a} = S
  BY FS_AddElement
<1>2. SumOver(f, S \cup {a}) = f[a] + SumOver(f, S)
  BY <1>1, SumRemove
<1>3. SumOver(f, S) \in Nat /\ f[a] \in Nat
  BY SumType
<1> QED BY <1>2, <1>3

(* The sum over a part of a set is at most the sum over the set.            *)
LEMMA SumMonotone ==
    ASSUME NEW A, NEW f \in [A -> Nat], NEW S, S \subseteq A, IsFiniteSet(S), NEW R \in SUBSET S
    PROVE  SumOver(f, R) <= SumOver(f, S)
<1> DEFINE T == {U \in SUBSET S : R \subseteq U /\ ~(SumOver(f, R) <= SumOver(f, U))}
<1> SUFFICES ASSUME T # {} PROVE FALSE
  OBVIOUS
<1>1. PICK U \in T : \A V \in T : V \subseteq U => V = U
  <2>1. T \subseteq SUBSET S
    OBVIOUS
  <2> HIDE DEF T
  <2> QED BY <2>1, SmallestSubset
<1>2. IsFiniteSet(U) /\ IsFiniteSet(R)
  BY FS_Subset
<1>3. SumOver(f, R) \in Nat
  BY <1>2, SumType
<1>4. PICK x \in U : x \notin R
  <2>1. R \subseteq U /\ ~(SumOver(f, R) <= SumOver(f, U))
    OBVIOUS
  <2>2. U # R
    BY <1>3, <2>1
  <2> QED BY <2>1, <2>2, Zenon
<1>5. U \ {x} \notin T
  BY <1>1, <1>4
<1>6. SumOver(f, R) <= SumOver(f, U \ {x})
  BY <1>4, <1>5
<1>7. SumOver(f, U) = f[x] + SumOver(f, U \ {x})
  BY <1>2, SumRemove
<1>8. SumOver(f, U \ {x}) \in Nat /\ f[x] \in Nat
  <2>1. IsFiniteSet(U \ {x})
    BY <1>2, FS_RemoveElement
  <2> QED BY <2>1, SumType
<1> QED BY <1>3, <1>6, <1>7, <1>8

(* A sum depends on the values in the set only.                             *)
LEMMA SumAgree ==
    ASSUME NEW A, NEW f \in [A -> Nat], NEW g \in [A -> Nat], NEW S, S \subseteq A,
           IsFiniteSet(S), \A x \in S : f[x] = g[x]
    PROVE  SumOver(f, S) = SumOver(g, S)
<1> DEFINE T == {U \in SUBSET S : SumOver(f, U) # SumOver(g, U)}
<1> SUFFICES ASSUME T # {} PROVE FALSE
  OBVIOUS
<1>1. PICK U \in T : \A V \in T : V \subseteq U => V = U
  <2>1. T \subseteq SUBSET S
    OBVIOUS
  <2> HIDE DEF T
  <2> QED BY <2>1, SmallestSubset
<1>2. U # {} /\ IsFiniteSet(U) /\ Pick(U) \in U
  <2>1. SumOver(f, {}) = SumOver(g, {})
    BY SumEmpty
  <2>2. U # {}
    BY <2>1
  <2> QED BY <2>2, FS_Subset, PickIsMember
<1>3. /\ SumOver(f, U) = f[Pick(U)] + SumOver(f, U \ {Pick(U)})
      /\ SumOver(g, U) = g[Pick(U)] + SumOver(g, U \ {Pick(U)})
  BY <1>2, SumPick
<1>4. U \ {Pick(U)} \notin T
  BY <1>1, <1>2
<1>5. SumOver(f, U \ {Pick(U)}) = SumOver(g, U \ {Pick(U)})
  BY <1>4
<1>6. f[Pick(U)] = g[Pick(U)]
  BY <1>2
<1> QED BY <1>3, <1>5, <1>6

(* A step changes the value of one element.                                 *)
LEMMA SumChange ==
    ASSUME NEW A, NEW f \in [A -> Nat], NEW g \in [A -> Nat], NEW S, S \subseteq A,
           IsFiniteSet(S), NEW a \in S, \A x \in S \ {a} : f[x] = g[x]
    PROVE  /\ SumOver(g, S) + f[a] = SumOver(f, S) + g[a]
           /\ SumOver(f, S) \in Nat /\ SumOver(g, S) \in Nat
           /\ f[a] \in Nat /\ g[a] \in Nat
           /\ f[a] <= SumOver(f, S)
<1> DEFINE R == S \ {a}
<1>1. IsFiniteSet(R) /\ R \subseteq A
  BY FS_RemoveElement
<1>2. SumOver(f, S) = f[a] + SumOver(f, R) /\ SumOver(g, S) = g[a] + SumOver(g, R)
  BY SumRemove
<1>3. SumOver(f, R) = SumOver(g, R)
  <2>1. \A x \in R : f[x] = g[x]
    OBVIOUS
  <2> HIDE DEF R
  <2> QED BY <1>1, <2>1, SumAgree
<1>4. SumOver(f, R) \in Nat /\ f[a] \in Nat /\ g[a] \in Nat
  <2> HIDE DEF R
  <2> QED BY <1>1, SumType
<1> HIDE DEF R
<1> QED BY <1>2, <1>3, <1>4

(* A sum is zero when there is nothing to add.                              *)
LEMMA SumZero ==
    ASSUME NEW A, NEW f \in [A -> Nat], NEW S, S \subseteq A, IsFiniteSet(S)
    PROVE  SumOver(f, S) = 0 <=> \A x \in S : f[x] = 0
<1>1. ASSUME SumOver(f, S) = 0, NEW x \in S PROVE f[x] = 0
  BY <1>1, SumChange
<1>2. ASSUME \A x \in S : f[x] = 0 PROVE SumOver(f, S) = 0
  <2> DEFINE T == {U \in SUBSET S : SumOver(f, U) # 0}
  <2> SUFFICES ASSUME T # {} PROVE FALSE
    OBVIOUS
  <2>1. PICK U \in T : \A V \in T : V \subseteq U => V = U
    <3>1. T \subseteq SUBSET S
      OBVIOUS
    <3> HIDE DEF T
    <3> QED BY <3>1, SmallestSubset
  <2>2. U # {} /\ IsFiniteSet(U) /\ Pick(U) \in U
    <3>1. SumOver(f, {}) = 0
      BY SumEmpty
    <3>2. U # {}
      BY <3>1
    <3> QED BY <3>2, FS_Subset, PickIsMember
  <2>3. SumOver(f, U) = f[Pick(U)] + SumOver(f, U \ {Pick(U)})
    BY <2>2, SumPick
  <2>4. U \ {Pick(U)} \notin T
    BY <2>1, <2>2
  <2>5. SumOver(f, U \ {Pick(U)}) = 0
    BY <2>4
  <2>6. f[Pick(U)] = 0
    BY <1>2, <2>2
  <2> QED BY <2>3, <2>5, <2>6
<1> QED BY <1>1, <1>2

(* The sum over two disjoint sets.                                          *)
LEMMA SumUnion ==
    ASSUME NEW A, NEW f \in [A -> Nat], NEW X, X \subseteq A, IsFiniteSet(X),
           NEW Y, Y \subseteq A, IsFiniteSet(Y), X \cap Y = {}
    PROVE  SumOver(f, X \cup Y) = SumOver(f, X) + SumOver(f, Y)
<1> DEFINE T == {U \in SUBSET Y : SumOver(f, X \cup U) # SumOver(f, X) + SumOver(f, U)}
<1> SUFFICES ASSUME T # {} PROVE FALSE
  OBVIOUS
<1>1. PICK U \in T : \A V \in T : V \subseteq U => V = U
  <2>1. T \subseteq SUBSET Y
    OBVIOUS
  <2> HIDE DEF T
  <2> QED BY <2>1, SmallestSubset
<1>2. SumOver(f, X) \in Nat
  BY SumType
<1>3. U # {}
  <2>1. SumOver(f, {}) = 0 /\ X \cup {} = X
    BY SumEmpty
  <2> QED BY <1>2, <2>1
<1>4. PICK y : y \in U
  BY <1>3
<1>5. U \ {y} \notin T
  BY <1>1, <1>4
<1>6. SumOver(f, X \cup (U \ {y})) = SumOver(f, X) + SumOver(f, U \ {y})
  BY <1>5
<1>7. IsFiniteSet(U) /\ U \subseteq A /\ y \in A
  BY <1>4, FS_Subset
<1>8. IsFiniteSet(X \cup U) /\ X \cup U \subseteq A /\ y \in X \cup U
  BY <1>4, <1>7, FS_Union
<1>9. SumOver(f, U) = f[y] + SumOver(f, U \ {y})
  BY <1>4, <1>7, SumRemove
<1>10. PICK W : W = X \cup U
  OBVIOUS
<1>11. SumOver(f, W) = f[y] + SumOver(f, W \ {y})
  BY <1>8, <1>10, SumRemove
<1>12. W \ {y} = X \cup (U \ {y})
  BY <1>4, <1>10
<1>13. SumOver(f, U \ {y}) \in Nat /\ f[y] \in Nat
  <2>1. IsFiniteSet(U \ {y})
    BY <1>7, FS_RemoveElement
  <2> QED BY <1>7, <2>1, SumType
<1> QED BY <1>2, <1>6, <1>9, <1>10, <1>11, <1>12, <1>13

(* Fewer elements with smaller values have a smaller sum.                   *)
LEMMA SumSmaller ==
    ASSUME NEW A, NEW f \in [A -> Nat], NEW X, X \subseteq A, IsFiniteSet(X),
           NEW Y, Y \subseteq A, IsFiniteSet(Y), Cardinality(Y) <= Cardinality(X),
           \A x \in X, y \in Y : f[y] <= f[x]
    PROVE  SumOver(f, Y) <= SumOver(f, X)
<1> DEFINE T == {U \in SUBSET Y : \E V \in SUBSET X : /\ Cardinality(U) <= Cardinality(V)
                                                      /\ ~(SumOver(f, U) <= SumOver(f, V))}
<1> SUFFICES ASSUME T # {} PROVE FALSE
  OBVIOUS
<1>1. PICK U \in T : \A V \in T : V \subseteq U => V = U
  <2>1. T \subseteq SUBSET Y
    OBVIOUS
  <2> HIDE DEF T
  <2> QED BY <2>1, SmallestSubset
<1>2. PICK V \in SUBSET X : Cardinality(U) <= Cardinality(V) /\ ~(SumOver(f, U) <= SumOver(f, V))
  OBVIOUS
<1>3. IsFiniteSet(U) /\ IsFiniteSet(V) /\ U \subseteq A /\ V \subseteq A
  BY FS_Subset
<1>4. Cardinality(U) \in Nat /\ Cardinality(V) \in Nat
  BY <1>3, FS_CardinalityType
<1>5. SumOver(f, U) \in Nat /\ SumOver(f, V) \in Nat
  BY <1>3, SumType
<1>6. U # {}
  BY <1>2, <1>5, SumEmpty
<1>7. Cardinality(V) # 0
  BY <1>2, <1>3, <1>4, <1>6, FS_EmptySet
<1>8. V # {}
  BY <1>7, FS_EmptySet
<1>9. PICK u \in U, v \in V : f[u] <= f[v]
  BY <1>6, <1>8
<1>10. /\ IsFiniteSet(U \ {u}) /\ Cardinality(U \ {u}) = Cardinality(U) - 1
       /\ IsFiniteSet(V \ {v}) /\ Cardinality(V \ {v}) = Cardinality(V) - 1
  BY <1>3, <1>9, FS_RemoveElement
<1>11. U \ {u} \notin T
  BY <1>1, <1>9
<1>12. SumOver(f, U \ {u}) <= SumOver(f, V \ {v})
  <2>1. Cardinality(U \ {u}) <= Cardinality(V \ {v})
    BY <1>2, <1>4, <1>10
  <2> QED BY <1>11, <2>1
<1>13. SumOver(f, U) = f[u] + SumOver(f, U \ {u}) /\ SumOver(f, V) = f[v] + SumOver(f, V \ {v})
  BY <1>3, <1>9, SumRemove
<1>14. /\ SumOver(f, U \ {u}) \in Nat /\ SumOver(f, V \ {v}) \in Nat
       /\ f[u] \in Nat /\ f[v] \in Nat
  BY <1>3, <1>10, SumType
<1> QED BY <1>2, <1>9, <1>12, <1>13, <1>14

(* The same when the sets have members in common, which need not be small.  *)
LEMMA SumDominated ==
    ASSUME NEW A, NEW f \in [A -> Nat], NEW X, X \subseteq A, IsFiniteSet(X),
           NEW Y, Y \subseteq A, IsFiniteSet(Y), Cardinality(Y) <= Cardinality(X),
           \A x \in X \ Y, y \in Y \ X : f[y] <= f[x]
    PROVE  SumOver(f, Y) <= SumOver(f, X)
<1>1. PICK B : B = X \cap Y
  OBVIOUS
<1>2. PICK V : V = X \ Y
  OBVIOUS
<1>3. PICK U : U = Y \ X
  OBVIOUS
<1>4. /\ X = B \cup V /\ Y = B \cup U /\ B \cap V = {} /\ B \cap U = {}
      /\ B \subseteq A /\ V \subseteq A /\ U \subseteq A
  BY <1>1, <1>2, <1>3
<1>5. IsFiniteSet(B) /\ IsFiniteSet(V) /\ IsFiniteSet(U)
  BY <1>1, <1>2, <1>3, FS_Subset
<1>6. Cardinality(V) = Cardinality(X) - Cardinality(B)
      /\ Cardinality(U) = Cardinality(Y) - Cardinality(B)
  <2>1. Cardinality(X \ Y) = Cardinality(X) - Cardinality(X \cap Y)
    BY FS_Difference
  <2>2. Cardinality(Y \ X) = Cardinality(Y) - Cardinality(Y \cap X)
    BY FS_Difference
  <2>3. Y \cap X = X \cap Y
    OBVIOUS
  <2> QED BY <1>1, <1>2, <1>3, <2>1, <2>2, <2>3
<1>7. Cardinality(X) \in Nat /\ Cardinality(Y) \in Nat /\ Cardinality(B) \in Nat
  BY <1>5, FS_CardinalityType
<1>8. Cardinality(U) <= Cardinality(V)
  BY <1>6, <1>7
<1>9. SumOver(f, U) <= SumOver(f, V)
  BY <1>2, <1>3, <1>4, <1>5, <1>8, SumSmaller
<1>10. SumOver(f, X) = SumOver(f, B) + SumOver(f, V) /\ SumOver(f, Y) = SumOver(f, B) + SumOver(f, U)
  BY <1>4, <1>5, SumUnion
<1>11. SumOver(f, B) \in Nat /\ SumOver(f, V) \in Nat /\ SumOver(f, U) \in Nat
  BY <1>4, <1>5, SumType
<1> QED BY <1>9, <1>10, <1>11

------------------------------------------------------------------------------
(* A set of natural numbers has a least member ...                          *)
LEMMA LeastNumber ==
    ASSUME NEW S, S \subseteq Nat, S # {} PROVE \E m \in S : \A x \in S : m <= x
<1>1. PICK m \in S : \A x \in S : ~(<<x, m>> \in OpToRel(<, Nat))
  BY NatLessThanWellFounded, WFMin
<1>2. \A x \in S : ~(x < m)
  BY <1>1 DEF OpToRel
<1> QED BY <1>2

(* ... and, if it is bounded, a greatest one.                               *)
LEMMA GreatestNumber ==
    ASSUME NEW S, S \subseteq Nat, S # {}, NEW b \in Nat, \A x \in S : x <= b
    PROVE  \E m \in S : \A x \in S : m >= x
<1> DEFINE R == {b - x : x \in S}
<1>1. R \subseteq Nat /\ R # {}
  <2>1. \A x \in S : b - x \in Nat
    OBVIOUS
  <2>2. PICK x : x \in S
    OBVIOUS
  <2>3. b - x \in R
    BY <2>2
  <2> QED BY <2>1, <2>3
<1>2. PICK r \in R : \A x \in R : r <= x
  <2> HIDE DEF R
  <2> QED BY <1>1, LeastNumber
<1>3. PICK m \in S : r = b - m
  OBVIOUS
<1>4. \A x \in S : b - m <= b - x
  BY <1>2, <1>3
<1> QED BY <1>4

(* A set of sequences has one that is empty or whose front is not in it.    *)
LEMMA SmallestSequence ==
    ASSUME NEW S, NEW B, B \subseteq Seq(S), B # {}
    PROVE  \E s \in B : \/ s = <<>>
                        \/ \E t \in Seq(S) \ B, x \in S : s = Append(t, x)
<1> DEFINE L == {Len(s) : s \in B}
<1>1. L \subseteq Nat /\ L # {}
  BY LenProperties
<1>2. PICK m \in L : \A n \in L : m <= n
  <2> HIDE DEF L
  <2> QED BY <1>1, LeastNumber
<1>3. PICK s \in B : m = Len(s)
  OBVIOUS
<1>4. s \in Seq(S) /\ Len(s) \in Nat
  BY LenProperties
<1>5. CASE s # <<>>
  <2>1. Len(s) > 0
    BY <1>4, <1>5, EmptySeq
  <2>2. PICK t : t = [i \in 1 .. Len(s) - 1 |-> s[i]]
    OBVIOUS
  <2>3. t \in Seq(S) /\ Len(t) = Len(s) - 1
    BY <1>4, <2>1, <2>2
  <2>4. t \notin B
    <3> SUFFICES ASSUME t \in B PROVE FALSE
      OBVIOUS
    <3>1. Len(t) \in L
      OBVIOUS
    <3>2. m <= Len(t)
      BY <1>2, <3>1
    <3> QED BY <1>3, <1>4, <2>3, <3>2
  <2>5. PICK x \in S : x = s[Len(s)]
    BY <1>4, <2>1
  <2>6. s = Append(t, x)
    <3>1. /\ Append(t, x) \in Seq(S) /\ Len(Append(t, x)) = Len(s)
          /\ \A i \in 1 .. Len(t) : Append(t, x)[i] = t[i]
          /\ Append(t, x)[Len(t) + 1] = x
      BY <1>4, <2>1, <2>3, AppendProperties
    <3>2. \A i \in 1 .. Len(s) : s[i] = Append(t, x)[i]
      BY <1>4, <2>1, <2>2, <2>3, <2>5, <3>1
    <3> QED BY <1>4, <3>1, <3>2, SeqEqual
  <2> QED BY <2>3, <2>4, <2>6
<1> QED BY <1>3, <1>5

==============================================================================

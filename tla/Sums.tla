-------------------------------- MODULE Sums --------------------------------
(***************************************************************************)
(* Sums over finite sets, SumFunctionOnSet of the community modules, as    *)
(* facts to cite: what a sum over no element is, what one more element     *)
(* adds, and what follows from these two.  The fold is defined by a        *)
(* recursive function on the subsets of the set; that such a function      *)
(* exists, and each fact about all finite sets, is shown by induction on   *)
(* the number of elements, stated with a set of numbers (or of subsets)    *)
(* in the place of a predicate.  Used by the theorems on the reward        *)
(* distributions and on the allocation of the supply.                      *)
(***************************************************************************)
EXTENDS Integers, Functions, FiniteSetTheorems, WellFoundedInduction, TLAPS

\* A set with 0, and with the successor of each of its numbers, has every number: the
\* least number it did not have would have a predecessor that it has.
LEMMA NatSetInduction ==
  ASSUME NEW S, 0 \in S, \A n \in Nat : n \in S => n + 1 \in S
  PROVE  \A n \in Nat : n \in S
<1> DEFINE T == Nat \ S
           R == OpToRel(<, Nat)
<1> SUFFICES ASSUME T # {} PROVE FALSE
  OBVIOUS
<1>1. PICK x \in T : \A y \in T : <<y, x>> \notin R
  <2>1. IsWellFoundedOn(R, Nat)
    BY NatLessThanWellFounded
  <2>2. T \subseteq Nat
    OBVIOUS
  <2> HIDE DEF T, R
  <2> QED BY <2>1, <2>2, WFMin
<1>2. x - 1 \in Nat
  OBVIOUS
<1>3. <<x - 1, x>> \in R
  BY <1>2 DEF OpToRel
<1>4. x \in Nat /\ x \notin S /\ (x - 1 \in Nat \ S => <<x - 1, x>> \notin R)
  BY <1>1
<1> HIDE DEF R
<1>5. x - 1 \in S
  BY <1>2, <1>3, <1>4
<1> QED BY <1>2, <1>4, <1>5

\* A set that has the empty set, and with a subset of U also the subset and one more
\* element, has every subset of the finite set U.
LEMMA SubsetInduction ==
  ASSUME NEW U, IsFiniteSet(U), NEW Q, {} \in Q,
         \A S \in SUBSET U : \A x \in U \ S : S \in Q => S \cup {x} \in Q
  PROVE  \A S \in SUBSET U : S \in Q
<1> DEFINE N == {n \in Nat : \A S \in SUBSET U : Cardinality(S) = n => S \in Q}
<1>1. \A S \in SUBSET U : IsFiniteSet(S) /\ Cardinality(S) \in Nat
  BY FS_Subset, FS_CardinalityType
<1>2. 0 \in N
  BY <1>1, FS_EmptySet
<1>3. ASSUME NEW n \in Nat, n \in N PROVE n + 1 \in N
  <2> SUFFICES ASSUME NEW S \in SUBSET U, Cardinality(S) = n + 1 PROVE S \in Q
    OBVIOUS
  <2>0. IsFiniteSet(S) /\ Cardinality(S) = n + 1
    BY <1>1
  <2>1. S # {}
    BY FS_EmptySet
  <2>2. PICK x : x \in S
    BY <2>1
  <2>3. Cardinality(S \ {x}) = n
    <3>1. Cardinality(S \ {x}) = Cardinality(S) - 1
      BY <2>0, <2>2, FS_RemoveElement
    <3> QED BY <2>0, <3>1
  <2>4. S \ {x} \in Q
    BY <1>3, <2>3
  <2>5. (S \ {x}) \cup {x} = S
    BY <2>2
  <2> QED BY <2>2, <2>4, <2>5
<1>4. \A n \in Nat : n \in N
  <2> HIDE DEF N
  <2> QED BY <1>2, <1>3, NatSetInduction
<1> QED BY <1>1, <1>4

\* The equation that SumFunctionOnSet is defined by, for the subsets of S.
SumEquation(iter, f, S) ==
  iter = [s \in SUBSET S |->
            IF s = {} THEN 0 ELSE LET x == CHOOSE x \in s : TRUE IN f[x] + iter[s \ {x}]]

\* Some function satisfies the equation: one that does for the subsets of at most n
\* elements gives one for n + 1.
LEMMA SumWellDefined ==
  ASSUME NEW f, NEW S, IsFiniteSet(S)
  PROVE  \E iter : SumEquation(iter, f, S)
<1> DEFINE Pick(s)   == CHOOSE x \in s : TRUE
           Def(g, s) == IF s = {} THEN 0 ELSE f[Pick(s)] + g[s \ {Pick(s)}]
           Fits(g, n) == \A s \in SUBSET S : Cardinality(s) <= n => g[s] = Def(g, s)
           N          == {n \in Nat : \E g : Fits(g, n)}
<1>1. \A T : T # {} => Pick(T) \in T
  OBVIOUS
<1>2. \A s \in SUBSET S : IsFiniteSet(s) /\ Cardinality(s) \in Nat /\ Cardinality(s) <= Cardinality(S)
  BY FS_Subset, FS_CardinalityType
<1> HIDE DEF Pick
<1>3. \A s \in SUBSET S : s # {} => /\ s \ {Pick(s)} \in SUBSET S
                                    /\ Cardinality(s \ {Pick(s)}) = Cardinality(s) - 1
  BY <1>1, <1>2, FS_RemoveElement
<1>4. 0 \in N
  <2> DEFINE g == [s \in SUBSET S |-> 0]
  <2>1. \A s \in SUBSET S : Cardinality(s) <= 0 => s = {}
    BY <1>2, FS_EmptySet
  <2>2. Fits(g, 0)
    BY <2>1
  <2> QED BY <2>2
<1>5. ASSUME NEW n \in Nat, n \in N PROVE n + 1 \in N
  <2>1. PICK g : Fits(g, n)
    BY <1>5
  <2> DEFINE h == [s \in SUBSET S |-> Def(g, s)]
  <2>2. ASSUME NEW s \in SUBSET S, Cardinality(s) <= n + 1 PROVE h[s] = Def(h, s)
    <3>1. CASE s = {}
      BY <3>1
    <3>2. CASE s # {}
      <4> DEFINE t == s \ {Pick(s)}
      <4>1. t \in SUBSET S /\ Cardinality(t) <= n
        BY <1>2, <1>3, <2>2, <3>2
      <4>2. g[t] = Def(g, t) /\ h[t] = Def(g, t)
        BY <2>1, <4>1
      <4> HIDE DEF t
      <4>3. h[s] = f[Pick(s)] + g[t]
        BY <3>2 DEF t
      <4>4. Def(h, s) = f[Pick(s)] + h[t]
        BY <3>2 DEF t
      <4> QED BY <4>2, <4>3, <4>4
    <3> QED BY <3>1, <3>2
  <2>3. Fits(h, n + 1)
    BY <2>2
  <2>4. \E k : Fits(k, n + 1)
    <3> HIDE DEF Fits, h
    <3> QED BY <2>3, Zenon
  <2> HIDE DEF Fits
  <2> QED BY <2>4
<1>6. \A n \in Nat : n \in N
  <2> HIDE DEF N
  <2> QED BY <1>4, <1>5, NatSetInduction
<1>7. PICK g : Fits(g, Cardinality(S))
  <2>1. Cardinality(S) \in N
    BY <1>2, <1>6
  <2> QED BY <2>1
<1>8. \A s \in SUBSET S : g[s] = Def(g, s)
  BY <1>2, <1>7
<1> DEFINE iter == [s \in SUBSET S |-> g[s]]
<1>9. iter = [s \in SUBSET S |-> Def(iter, s)]
  <2>1. \A s \in SUBSET S : s # {} => iter[s \ {Pick(s)}] = g[s \ {Pick(s)}]
    BY <1>3
  <2> QED BY <1>8, <2>1
<1>10. SumEquation(iter, f, S)
  <2> HIDE DEF iter
  <2> QED BY <1>9 DEF Pick, SumEquation
<1> HIDE DEF iter
<1> QED BY <1>10

\* The library's sum is the value of such a function.
LEMMA SumUnfolds ==
  ASSUME NEW f, NEW S, IsFiniteSet(S)
  PROVE  \E iter : SumFunctionOnSet(f, S) = iter[S] /\ SumEquation(iter, f, S)
<1> DEFINE it == CHOOSE iter : SumEquation(iter, f, S)
<1>1. SumEquation(it, f, S)
  BY SumWellDefined, Zenon
<1>2. SumFunctionOnSet(f, S) = it[S]
  BY Zenon DEF SumFunctionOnSet, FoldFunctionOnSet, MapThenFoldSet, SumEquation
<1> QED BY <1>1, <1>2, Zenon

\* The sum over no element.
LEMMA SumEmpty == ASSUME NEW f PROVE SumFunctionOnSet(f, {}) = 0
<1>1. PICK iter : SumFunctionOnSet(f, {}) = iter[{}] /\ SumEquation(iter, f, {})
  BY FS_EmptySet, SumUnfolds
<1> QED BY <1>1 DEF SumEquation

\* The recursion passes by the sums of the smaller sets.
LEMMA SumOfSubset ==
  ASSUME NEW f
  PROVE  \A n \in Nat : \A S, iter : (IsFiniteSet(S) /\ SumEquation(iter, f, S)) =>
           \A T \in SUBSET S : Cardinality(T) = n => iter[T] = SumFunctionOnSet(f, T)
<1> DEFINE N == {n \in Nat : \A S, iter : (IsFiniteSet(S) /\ SumEquation(iter, f, S)) =>
                   \A T \in SUBSET S : Cardinality(T) = n => iter[T] = SumFunctionOnSet(f, T)}
<1>1. 0 \in N
  <2> SUFFICES ASSUME NEW S, NEW iter, IsFiniteSet(S), SumEquation(iter, f, S),
                      NEW T \in SUBSET S, Cardinality(T) = 0
               PROVE  iter[T] = SumFunctionOnSet(f, T)
    OBVIOUS
  <2>1. T = {}
    BY FS_Subset, FS_EmptySet
  <2> QED BY <2>1, SumEmpty DEF SumEquation
<1>2. ASSUME NEW n \in Nat, n \in N PROVE n + 1 \in N
  <2> SUFFICES ASSUME NEW S, NEW iter, IsFiniteSet(S), SumEquation(iter, f, S),
                      NEW T \in SUBSET S, Cardinality(T) = n + 1
               PROVE  iter[T] = SumFunctionOnSet(f, T)
    OBVIOUS
  <2> DEFINE x == CHOOSE y \in T : TRUE
  <2>1. IsFiniteSet(T) /\ T # {}
    BY FS_Subset, FS_EmptySet
  <2>2. x \in T
    BY <2>1
  <2>3. PICK it : SumFunctionOnSet(f, T) = it[T] /\ SumEquation(it, f, T)
    BY <2>1, SumUnfolds
  <2>4. iter[T] = f[x] + iter[T \ {x}]
    BY <2>1 DEF SumEquation
  <2>5. it[T] = f[x] + it[T \ {x}]
    BY <2>1, <2>3 DEF SumEquation
  <2>6. Cardinality(T \ {x}) = n
    <3>1. Cardinality(T \ {x}) = Cardinality(T) - 1
      <4> HIDE DEF x
      <4> QED BY <2>1, <2>2, FS_RemoveElement
    <3> QED BY <3>1
  <2>7. T \ {x} \in SUBSET T /\ T \ {x} \in SUBSET S
    OBVIOUS
  <2> HIDE DEF x
  <2>8. iter[T \ {x}] = SumFunctionOnSet(f, T \ {x})
    BY <1>2, <2>6, <2>7
  <2>9. it[T \ {x}] = SumFunctionOnSet(f, T \ {x})
    BY <1>2, <2>1, <2>3, <2>6, <2>7
  <2> QED BY <2>3, <2>4, <2>5, <2>8, <2>9
<1>3. \A n \in Nat : n \in N
  <2> HIDE DEF N
  <2> QED BY <1>1, <1>2, NatSetInduction
<1> QED BY <1>3

\* Whatever set a solution was chosen for, on its subsets it gives their sums.
LEMMA SumOfPart ==
  ASSUME NEW f, NEW S, IsFiniteSet(S), NEW iter, SumEquation(iter, f, S), NEW T \in SUBSET S
  PROVE  iter[T] = SumFunctionOnSet(f, T)
<1>1. PICK n \in Nat : Cardinality(T) = n
  BY FS_Subset, FS_CardinalityType
<1>2. \A A, it : (IsFiniteSet(A) /\ SumEquation(it, f, A)) =>
         \A B \in SUBSET A : Cardinality(B) = n => it[B] = SumFunctionOnSet(f, B)
  BY SumOfSubset
<1>3. \A B \in SUBSET S : Cardinality(B) = n => iter[B] = SumFunctionOnSet(f, B)
  BY <1>2, Zenon
<1> QED BY <1>1, <1>3

\* A sum is the chosen element's value and the sum over the others.
LEMMA SumChooses ==
  ASSUME NEW f, NEW S, IsFiniteSet(S), S # {}
  PROVE  LET x == CHOOSE x \in S : TRUE
         IN  SumFunctionOnSet(f, S) = f[x] + SumFunctionOnSet(f, S \ {x})
<1> DEFINE x == CHOOSE x \in S : TRUE
<1>1. PICK iter : SumFunctionOnSet(f, S) = iter[S] /\ SumEquation(iter, f, S)
  BY SumUnfolds
<1>2. iter[S] = f[x] + iter[S \ {x}]
  BY <1>1 DEF SumEquation
<1>3. S \ {x} \in SUBSET S /\ Cardinality(S \ {x}) \in Nat
  BY FS_Subset, FS_CardinalityType
<1>5. iter[S \ {x}] = SumFunctionOnSet(f, S \ {x})
  <2> HIDE DEF x
  <2> QED BY <1>1, <1>3, SumOfPart
<1> QED BY <1>1, <1>2, <1>5

\* A sum of integers is one.
LEMMA SumType ==
  ASSUME NEW S, IsFiniteSet(S), NEW f, \A x \in S : f[x] \in Int
  PROVE  SumFunctionOnSet(f, S) \in Int
<1> DEFINE N == {n \in Nat : \A T \in SUBSET S : Cardinality(T) = n => SumFunctionOnSet(f, T) \in Int}
<1>1. \A T \in SUBSET S : IsFiniteSet(T) /\ Cardinality(T) \in Nat
  BY FS_Subset, FS_CardinalityType
<1>2. 0 \in N
  BY <1>1, FS_EmptySet, SumEmpty
<1>3. ASSUME NEW n \in Nat, n \in N PROVE n + 1 \in N
  <2> SUFFICES ASSUME NEW T \in SUBSET S, Cardinality(T) = n + 1
               PROVE  SumFunctionOnSet(f, T) \in Int
    OBVIOUS
  <2>1. IsFiniteSet(T) /\ T # {} /\ Cardinality(T) = n + 1
    BY <1>1, FS_EmptySet
  <2>2. PICK x \in T : SumFunctionOnSet(f, T) = f[x] + SumFunctionOnSet(f, T \ {x})
    BY <2>1, SumChooses
  <2>3. Cardinality(T \ {x}) = n
    <3>1. Cardinality(T \ {x}) = Cardinality(T) - 1
      BY <2>1, FS_RemoveElement
    <3> QED BY <2>1, <3>1
  <2>4. T \ {x} \in SUBSET S
    OBVIOUS
  <2>5. SumFunctionOnSet(f, T \ {x}) \in Int
    BY <1>3, <2>3, <2>4
  <2> QED BY <2>2, <2>5
<1>4. \A n \in Nat : n \in N
  <2> HIDE DEF N
  <2> QED BY <1>2, <1>3, NatSetInduction
<1> QED BY <1>1, <1>4

\* Any element may come first.
LEMMA SumRemove ==
  ASSUME NEW S, IsFiniteSet(S), NEW f, \A y \in S : f[y] \in Int, NEW x \in S
  PROVE  SumFunctionOnSet(f, S) = f[x] + SumFunctionOnSet(f, S \ {x})
<1> DEFINE N == {n \in Nat : \A T \in SUBSET S : Cardinality(T) = n => \A y \in T :
                   SumFunctionOnSet(f, T) = f[y] + SumFunctionOnSet(f, T \ {y})}
<1>1. \A T \in SUBSET S : /\ IsFiniteSet(T) /\ Cardinality(T) \in Nat
                          /\ SumFunctionOnSet(f, T) \in Int
  BY FS_Subset, FS_CardinalityType, SumType
<1>2. 0 \in N
  BY <1>1, FS_EmptySet
<1>3. ASSUME NEW n \in Nat, n \in N PROVE n + 1 \in N
  <2> SUFFICES ASSUME NEW T \in SUBSET S, Cardinality(T) = n + 1, NEW y \in T
               PROVE  SumFunctionOnSet(f, T) = f[y] + SumFunctionOnSet(f, T \ {y})
    OBVIOUS
  <2>1. IsFiniteSet(T) /\ T # {} /\ Cardinality(T) = n + 1
    BY <1>1, FS_EmptySet
  <2>2. PICK c \in T : SumFunctionOnSet(f, T) = f[c] + SumFunctionOnSet(f, T \ {c})
    BY <2>1, SumChooses
  <2>3. CASE c = y
    BY <2>2, <2>3
  <2>4. CASE c # y
    <3>1. Cardinality(T \ {c}) = n /\ Cardinality(T \ {y}) = n
      <4>1. Cardinality(T \ {c}) = Cardinality(T) - 1 /\ Cardinality(T \ {y}) = Cardinality(T) - 1
        BY <2>1, FS_RemoveElement
      <4> QED BY <2>1, <4>1
    <3>2. /\ T \ {c} \in SUBSET S /\ T \ {y} \in SUBSET S
          /\ y \in T \ {c} /\ c \in T \ {y} /\ (T \ {c}) \ {y} = (T \ {y}) \ {c}
          /\ (T \ {c}) \ {y} \in SUBSET S
      BY <2>4
    <3>3. SumFunctionOnSet(f, T \ {c}) = f[y] + SumFunctionOnSet(f, (T \ {c}) \ {y})
      BY <1>3, <3>1, <3>2
    <3>4. SumFunctionOnSet(f, T \ {y}) = f[c] + SumFunctionOnSet(f, (T \ {c}) \ {y})
      BY <1>3, <3>1, <3>2
    <3>5. f[y] \in Int /\ f[c] \in Int /\ SumFunctionOnSet(f, (T \ {c}) \ {y}) \in Int
      BY <1>1, <3>2
    <3> QED BY <2>2, <3>3, <3>4, <3>5
  <2> QED BY <2>3, <2>4
<1>4. \A n \in Nat : n \in N
  <2> HIDE DEF N
  <2> QED BY <1>2, <1>3, NatSetInduction
<1> QED BY <1>1, <1>4

\* One more element adds its value.
LEMMA SumAdd ==
  ASSUME NEW S, IsFiniteSet(S), NEW x, x \notin S, NEW f, \A y \in S \cup {x} : f[y] \in Int
  PROVE  SumFunctionOnSet(f, S \cup {x}) = f[x] + SumFunctionOnSet(f, S)
<1>1. IsFiniteSet(S \cup {x}) /\ (S \cup {x}) \ {x} = S /\ x \in S \cup {x}
  BY FS_AddElement
<1> QED BY <1>1, SumRemove

\* A sum of natural numbers is one.
LEMMA SumNat ==
  ASSUME NEW S, IsFiniteSet(S), NEW f, \A x \in S : f[x] \in Nat
  PROVE  SumFunctionOnSet(f, S) \in Nat
<1> DEFINE Q == {T \in SUBSET S : SumFunctionOnSet(f, T) \in Nat}
<1>1. {} \in Q
  BY SumEmpty
<1>2. ASSUME NEW T \in SUBSET S, NEW x \in S \ T, T \in Q PROVE T \cup {x} \in Q
  <2>1. IsFiniteSet(T) /\ x \notin T /\ \A y \in T \cup {x} : f[y] \in Int
    BY FS_Subset
  <2>2. SumFunctionOnSet(f, T \cup {x}) = f[x] + SumFunctionOnSet(f, T)
    BY <2>1, SumAdd
  <2> QED BY <1>2, <2>2
<1>3. S \in Q
  <2> HIDE DEF Q
  <2> QED BY <1>1, <1>2, SubsetInduction
<1> QED BY <1>3

\* Only the values on the set count.
LEMMA SumSame ==
  ASSUME NEW S, IsFiniteSet(S), NEW f, NEW g, \A x \in S : f[x] \in Int /\ g[x] = f[x]
  PROVE  SumFunctionOnSet(f, S) = SumFunctionOnSet(g, S)
<1> DEFINE Q == {T \in SUBSET S : SumFunctionOnSet(f, T) = SumFunctionOnSet(g, T)}
<1>1. {} \in Q
  BY SumEmpty
<1>2. ASSUME NEW T \in SUBSET S, NEW x \in S \ T, T \in Q PROVE T \cup {x} \in Q
  <2>1. IsFiniteSet(T) /\ \A y \in T \cup {x} : f[y] \in Int /\ g[y] \in Int
    BY FS_Subset
  <2>2. /\ SumFunctionOnSet(f, T \cup {x}) = f[x] + SumFunctionOnSet(f, T)
        /\ SumFunctionOnSet(g, T \cup {x}) = g[x] + SumFunctionOnSet(g, T)
    BY <2>1, SumAdd
  <2> QED BY <1>2, <2>2
<1>3. S \in Q
  <2> HIDE DEF Q
  <2> QED BY <1>1, <1>2, SubsetInduction
<1> QED BY <1>3

\* A sum of zeros is zero.
LEMMA SumZero ==
  ASSUME NEW S, IsFiniteSet(S), NEW f, \A x \in S : f[x] = 0
  PROVE  SumFunctionOnSet(f, S) = 0
<1> DEFINE Q == {T \in SUBSET S : SumFunctionOnSet(f, T) = 0}
<1>1. {} \in Q
  BY SumEmpty
<1>2. ASSUME NEW T \in SUBSET S, NEW x \in S \ T, T \in Q PROVE T \cup {x} \in Q
  <2>1. IsFiniteSet(T) /\ x \notin T /\ \A y \in T \cup {x} : f[y] \in Int
    BY FS_Subset
  <2>2. SumFunctionOnSet(f, T \cup {x}) = f[x] + SumFunctionOnSet(f, T)
    BY <2>1, SumAdd
  <2> QED BY <1>2, <2>2
<1>3. S \in Q
  <2> HIDE DEF Q
  <2> QED BY <1>1, <1>2, SubsetInduction
<1> QED BY <1>3

\* If one value only is not zero, it is the sum.
LEMMA SumOfOne ==
  ASSUME NEW S, IsFiniteSet(S), NEW f, NEW x \in S, f[x] \in Int, \A y \in S \ {x} : f[y] = 0
  PROVE  SumFunctionOnSet(f, S) = f[x]
<1>1. IsFiniteSet(S \ {x})
  BY FS_Subset
<1>2. SumFunctionOnSet(f, S \ {x}) = 0
  BY <1>1, SumZero
<1>3. \A y \in S : f[y] \in Int
  OBVIOUS
<1>4. SumFunctionOnSet(f, S) = f[x] + SumFunctionOnSet(f, S \ {x})
  BY <1>3, SumRemove
<1> QED BY <1>2, <1>4

\* The sum of the first n values, and one more.
LEMMA SumUpTo ==
  ASSUME NEW n \in Nat, NEW f, \A k \in 1..(n + 1) : f[k] \in Int
  PROVE  SumFunctionOnSet(f, 1..(n + 1)) = f[n + 1] + SumFunctionOnSet(f, 1..n)
<1>1. IsFiniteSet(1..n) /\ n + 1 \notin 1..n /\ (1..n) \cup {n + 1} = 1..(n + 1)
  BY FS_Interval
<1>2. SumFunctionOnSet(f, (1..n) \cup {n + 1}) = f[n + 1] + SumFunctionOnSet(f, 1..n)
  BY <1>1, SumAdd
<1> QED BY <1>1, <1>2

\* Changing one value changes the sum by the difference.
LEMMA SumChange ==
  ASSUME NEW S, IsFiniteSet(S), NEW f, NEW g, NEW x \in S,
         \A y \in S : f[y] \in Int /\ g[y] \in Int,
         \A y \in S \ {x} : g[y] = f[y]
  PROVE  SumFunctionOnSet(g, S) = SumFunctionOnSet(f, S) - f[x] + g[x]
<1>1. IsFiniteSet(S \ {x})
  BY FS_Subset
<1>2. SumFunctionOnSet(f, S) = f[x] + SumFunctionOnSet(f, S \ {x})
  BY SumRemove
<1>3. SumFunctionOnSet(g, S) = g[x] + SumFunctionOnSet(g, S \ {x})
  BY SumRemove
<1>4. SumFunctionOnSet(f, S \ {x}) = SumFunctionOnSet(g, S \ {x})
  BY <1>1, SumSame
<1>5. SumFunctionOnSet(f, S \ {x}) \in Int
  BY <1>1, SumType
<1> QED BY <1>2, <1>3, <1>4, <1>5

\* The sum over a set is the sum over a part of it and over the rest.
LEMMA SumUnion ==
  ASSUME NEW S, IsFiniteSet(S), NEW R, IsFiniteSet(R), S \cap R = {},
         NEW f, \A x \in S \cup R : f[x] \in Int
  PROVE  SumFunctionOnSet(f, S \cup R) = SumFunctionOnSet(f, S) + SumFunctionOnSet(f, R)
<1> DEFINE Q == {T \in SUBSET R :
             SumFunctionOnSet(f, S \cup T) = SumFunctionOnSet(f, S) + SumFunctionOnSet(f, T)}
<1>0. SumFunctionOnSet(f, S) \in Int /\ \A T \in SUBSET R : SumFunctionOnSet(f, T) \in Int
  BY SumType, FS_Subset
<1>1. {} \in Q
  <2>1. S \cup {} = S
    OBVIOUS
  <2>2. SumFunctionOnSet(f, S) = SumFunctionOnSet(f, S) + SumFunctionOnSet(f, {})
    BY <1>0, SumEmpty
  <2> QED BY <2>1, <2>2
<1>2. ASSUME NEW T \in SUBSET R, NEW x \in R \ T, T \in Q PROVE T \cup {x} \in Q
  <2>1. /\ IsFiniteSet(T) /\ IsFiniteSet(S \cup T) /\ x \notin S \cup T
        /\ S \cup (T \cup {x}) = (S \cup T) \cup {x}
    BY FS_Subset, FS_Union
  <2>2. SumFunctionOnSet(f, T \cup {x}) = f[x] + SumFunctionOnSet(f, T)
    BY <2>1, SumAdd
  <2>3. SumFunctionOnSet(f, (S \cup T) \cup {x}) = f[x] + SumFunctionOnSet(f, S \cup T)
    BY <2>1, SumAdd
  <2>4. f[x] \in Int
    OBVIOUS
  <2>5. SumFunctionOnSet(f, S \cup T) = SumFunctionOnSet(f, S) + SumFunctionOnSet(f, T)
    BY <1>2
  <2>6. SumFunctionOnSet(f, S \cup (T \cup {x}))
          = SumFunctionOnSet(f, S) + SumFunctionOnSet(f, T \cup {x})
    <3>1. SumFunctionOnSet(f, S) \in Int /\ SumFunctionOnSet(f, T) \in Int
      BY <1>0
    <3> DEFINE a == SumFunctionOnSet(f, S)
               b == SumFunctionOnSet(f, T)
               c == f[x]
    <3>2. a \in Int /\ b \in Int /\ c \in Int
      BY <2>4, <3>1
    <3>3. c + (a + b) = a + (c + b)
      <4> HIDE DEF a, b, c
      <4> QED BY <3>2
    <3> QED BY <2>1, <2>2, <2>3, <2>5, <3>3
  <2>7. T \cup {x} \in SUBSET R
    OBVIOUS
  <2> QED BY <2>6, <2>7
<1>3. R \in Q
  <2> HIDE DEF Q
  <2> QED BY <1>1, <1>2, SubsetInduction
<1> QED BY <1>3

\* A sum can be taken value by value: each value as often as it occurs.
LEMMA SumByValue ==
  ASSUME NEW D, IsFiniteSet(D), NEW d, \A s \in D : d[s] \in Int
  PROVE  LET V == {d[s] : s \in D}
         IN  SumFunctionOnSet([v \in V |-> v * Cardinality({s \in D : d[s] = v})], V)
               = SumFunctionOnSet(d, D)
<1> DEFINE V    == {d[s] : s \in D}
           F(A) == [v \in V |-> v * Cardinality({s \in A : d[s] = v})]
           Q    == {A \in SUBSET D : SumFunctionOnSet(F(A), V) = SumFunctionOnSet(d, A)}
<1>1. IsFiniteSet(V) /\ V \subseteq Int
  <2>1. V \subseteq Int
    OBVIOUS
  <2>2. V = {[x \in D |-> d[x]][s] : s \in D}
    OBVIOUS
  <2>3. IsFiniteSet(V)
    <3> DEFINE e == [s \in D |-> d[s]]
    <3>1. e \in Surjection(D, V)
      BY DEF Surjection
    <3> HIDE DEF e, V
    <3> QED BY <3>1, FS_Surjection
  <2> QED BY <2>1, <2>3
<1>2. \A A \in SUBSET D : IsFiniteSet(A) /\ \A v \in V :
        IsFiniteSet({s \in A : d[s] = v}) /\ Cardinality({s \in A : d[s] = v}) \in Nat
  <2> SUFFICES ASSUME NEW A \in SUBSET D, NEW v \in V
               PROVE  /\ IsFiniteSet(A) /\ IsFiniteSet({s \in A : d[s] = v})
                      /\ Cardinality({s \in A : d[s] = v}) \in Nat
    BY FS_Subset
  <2>1. IsFiniteSet(A)
    BY FS_Subset
  <2>2. IsFiniteSet({s \in A : d[s] = v})
    BY <2>1, FS_Subset
  <2> QED BY <2>1, <2>2, FS_CardinalityType
<1>3. \A A \in SUBSET D : \A v \in V : F(A)[v] \in Int
  <2> SUFFICES ASSUME NEW A \in SUBSET D, NEW v \in V PROVE F(A)[v] \in Int
    OBVIOUS
  <2>1. Cardinality({s \in A : d[s] = v}) \in Int
    <3>1. Cardinality({s \in A : d[s] = v}) \in Nat
      BY <1>2
    <3> QED BY <3>1
  <2>2. v \in Int
    BY <1>1
  <2> DEFINE n == Cardinality({s \in A : d[s] = v})
  <2>3. v * n \in Int
    <3>1. n \in Int
      BY <2>1
    <3> HIDE DEF n
    <3> QED BY <2>2, <3>1
  <2> QED BY <2>3
<1>4. {} \in Q
  <2> DEFINE g == F({})
  <2>1. \A v \in V : g[v] = 0
    <3> SUFFICES ASSUME NEW v \in V PROVE v * Cardinality({s \in {} : d[s] = v}) = 0
      OBVIOUS
    <3>1. {s \in {} : d[s] = v} = {}
      OBVIOUS
    <3>2. v \in Int /\ Cardinality({s \in {} : d[s] = v}) = 0
      BY <1>1, <3>1, FS_EmptySet
    <3> QED BY <3>2
  <2>2. SumFunctionOnSet(g, V) = 0
    <3> HIDE DEF g, V
    <3> QED BY <1>1, <2>1, SumZero
  <2> QED BY <2>2, SumEmpty
<1>5. ASSUME NEW A \in SUBSET D, NEW x \in D \ A, A \in Q PROVE A \cup {x} \in Q
  <2> DEFINE f == F(A)
             g == F(A \cup {x})
  <2>1. SumFunctionOnSet(f, V) = SumFunctionOnSet(d, A)
    BY <1>5
  <2>2. d[x] \in V /\ d[x] \in Int
    OBVIOUS
  <2>3. \A y \in V : f[y] \in Int /\ g[y] \in Int
    <3>1. A \cup {x} \in SUBSET D
      OBVIOUS
    <3> HIDE DEF F, V
    <3> QED BY <1>3, <3>1
  <2>4. \A y \in V \ {d[x]} : g[y] = f[y]
    <3> SUFFICES ASSUME NEW y \in V \ {d[x]} PROVE g[y] = f[y]
      OBVIOUS
    <3>1. {s \in A \cup {x} : d[s] = y} = {s \in A : d[s] = y}
      OBVIOUS
    <3> QED BY <3>1
  <2>5. g[d[x]] = f[d[x]] + d[x]
    <3> DEFINE B == {s \in A : d[s] = d[x]}
               n == Cardinality(B)
    <3>1. {s \in A \cup {x} : d[s] = d[x]} = B \cup {x} /\ x \notin B
      OBVIOUS
    <3>2. IsFiniteSet(B) /\ n \in Nat
      BY <1>2, <2>2
    <3>3. Cardinality(B \cup {x}) = n + 1
      <4> HIDE DEF B
      <4> QED BY <3>1, <3>2, FS_AddElement DEF n
    <3>4. g[d[x]] = d[x] * Cardinality(B \cup {x}) /\ f[d[x]] = d[x] * n
      BY <2>2, <3>1
    <3>5. d[x] * (n + 1) = d[x] * n + d[x]
      <4>1. \A a \in Int : \A m \in Nat : a * (m + 1) = a * m + a
        OBVIOUS
      <4> HIDE DEF n
      <4> QED BY <2>2, <3>2, <4>1
    <3> QED BY <3>3, <3>4, <3>5
  <2> DEFINE v == d[x]
  <2>6. v \in V /\ v \in Int /\ g[v] = f[v] + v /\ \A y \in V \ {v} : g[y] = f[y]
    BY <2>2, <2>4, <2>5
  <2>7. SumFunctionOnSet(g, V) = SumFunctionOnSet(f, V) - f[v] + g[v]
    <3>1. IsFiniteSet(V)
      BY <1>1
    <3>2. v \in V /\ \A y \in V \ {v} : g[y] = f[y]
      BY <2>6
    <3>3. \A y \in V : f[y] \in Int /\ g[y] \in Int
      BY <2>3
    <3> HIDE DEF f, g, V, v, F, Q
    <3> QED BY <3>1, <3>2, <3>3, SumChange
  <2>8. f[v] \in Int /\ SumFunctionOnSet(f, V) \in Int
    <3> HIDE DEF f, g, V, v
    <3> QED BY <1>1, <2>3, <2>6, SumType
  <2>9. SumFunctionOnSet(g, V) = SumFunctionOnSet(f, V) + v
    <3> HIDE DEF f, g, V, v
    <3> QED BY <2>6, <2>7, <2>8
  <2>10. SumFunctionOnSet(d, A \cup {x}) = d[x] + SumFunctionOnSet(d, A)
    BY <1>2, SumAdd
  <2>11. SumFunctionOnSet(d, A) \in Int
    BY <1>2, SumType
  <2>12. SumFunctionOnSet(g, V) = SumFunctionOnSet(d, A \cup {x})
    <3> HIDE DEF f, g, V
    <3> QED BY <2>1, <2>2, <2>9, <2>10, <2>11
  <2> QED BY <2>12
<1>6. D \in Q
  <2> HIDE DEF Q
  <2> QED BY <1>4, <1>5, SubsetInduction
<1> QED BY <1>6

\* The sum over a part is the sum of what is zero outside the part.
LEMMA SumWhere ==
  ASSUME NEW S, IsFiniteSet(S), NEW T \in SUBSET S, NEW f, NEW g,
         \A x \in S : f[x] \in Int /\ g[x] = IF x \in T THEN f[x] ELSE 0
  PROVE  SumFunctionOnSet(f, T) = SumFunctionOnSet(g, S)
<1>1. /\ IsFiniteSet(T) /\ IsFiniteSet(S \ T) /\ T \cap (S \ T) = {}
      /\ T \cup (S \ T) = S
  BY FS_Subset
<1>2. \A x \in T \cup (S \ T) : g[x] \in Int
  BY <1>1
<1>3. SumFunctionOnSet(g, T \cup (S \ T)) = SumFunctionOnSet(g, T) + SumFunctionOnSet(g, S \ T)
  BY <1>1, <1>2, SumUnion
<1>4. SumFunctionOnSet(g, S \ T) = 0
  BY <1>1, SumZero
<1>5. SumFunctionOnSet(f, T) = SumFunctionOnSet(g, T) /\ SumFunctionOnSet(g, T) \in Int
  BY <1>1, <1>2, SumSame, SumType
<1> QED
  <2> HIDE DEF SumFunctionOnSet
  <2>1. SumFunctionOnSet(g, S) = SumFunctionOnSet(g, T) + 0
    BY <1>1, <1>3, <1>4
  <2> QED BY <1>5, <2>1
=============================================================================

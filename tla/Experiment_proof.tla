--------------------------- MODULE Experiment_proof --------------------------
(***************************************************************************)
(* Theorems about Experiment, for any records, payloads, benchmarks and    *)
(* limits.  First the arithmetic of the metrics, then the folds and the    *)
(* sorting the datasets are made with, then the steps of an evaluation,    *)
(* the datasets a freeze makes, and the laws of the metrics.               *)
(***************************************************************************)
EXTENDS Experiment, TLAPS, FiniteSetTheorems, WellFoundedInduction, FunctionTheorems

(* Every set of numbers has a least one.                                   *)
LEMMA Least ==
  ASSUME NEW T \in SUBSET Nat, T # {}
  PROVE  \E n \in T : \A m \in T : n <= m
<1> DEFINE Less == OpToRel(<, Nat)
<1>1. \A m, n \in Nat : m < n => <<m, n>> \in Less
  BY Zenon DEF OpToRel
<1>2. \E n \in T : \A m \in T : <<m, n>> \notin Less
  BY NatLessThanWellFounded, WFMin, Zenon
<1> HIDE DEF Less
<1>3. PICK n \in T : \A m \in T : <<m, n>> \notin Less
  BY <1>2
<1>4. \A m \in T : m \in Nat /\ n \in Nat /\ ~(m < n)
  BY <1>1, <1>3
<1> QED
  BY <1>4

(* Induction over the numbers, for the property of being in T.             *)
LEMMA NumberInduction ==
  ASSUME NEW T, 0 \in T, \A n \in Nat : n \in T => n + 1 \in T
  PROVE  Nat \subseteq T
<1> SUFFICES ASSUME Nat \ T # {} PROVE FALSE
  OBVIOUS
<1>1. PICK n \in Nat \ T : \A m \in Nat \ T : n <= m
  BY Least
<1>2. n # 0 /\ n - 1 \in Nat
  OBVIOUS
<1>3. n - 1 \in T
  BY <1>1, <1>2
<1> QED
  BY <1>2, <1>3

(* Induction over the subsets of a finite set.                             *)
LEMMA SubsetInduction ==
  ASSUME NEW S, IsFiniteSet(S), NEW T, {} \in T,
         \A s \in SUBSET S : \A x \in S \ s : s \in T => s \cup {x} \in T
  PROVE  SUBSET S \subseteq T
<1> DEFINE N == {n \in Nat : \A s \in SUBSET S : Cardinality(s) = n => s \in T}
<1>1. \A s \in SUBSET S : IsFiniteSet(s) /\ Cardinality(s) \in Nat
  BY FS_Subset, FS_CardinalityType
<1>2. 0 \in N
  BY <1>1, FS_EmptySet
<1>3. ASSUME NEW n \in Nat, n \in N PROVE n + 1 \in N
  <2> SUFFICES ASSUME NEW s \in SUBSET S, Cardinality(s) = n + 1 PROVE s \in T
    OBVIOUS
  <2>1. PICK x \in s : TRUE
    BY <1>1, FS_EmptySet
  <2>2. Cardinality(s \ {x}) = Cardinality(s) - 1
    BY <1>1, <2>1, FS_RemoveElement
  <2>3. s \ {x} \in T /\ x \in S \ (s \ {x})
    BY <1>3, <2>1, <2>2
  <2>4. (s \ {x}) \cup {x} = s
    OBVIOUS
  <2> QED
    BY <2>2, <2>3, <2>4
<1> HIDE DEF N
<1>4. Nat \subseteq N
  BY <1>2, <1>3, NumberInduction
<1> QED
  BY <1>1, <1>4 DEF N

-----------------------------------------------------------------------------
(* A sum over part of a function's domain; Total is the sum over all of it *)
First(S) == CHOOSE x \in S : TRUE

Summed(f, S) == MapThenFoldSet(LAMBDA a, b : a + b, 0, LAMBDA i : f[i],
                               LAMBDA s : CHOOSE x \in s : TRUE, S)

SumEquation(g, f, S) ==
    g = [s \in SUBSET S |-> IF s = {} THEN 0 ELSE f[First(s)] + g[s \ {First(s)}]]

(* Total folds over the domain: it is the sum over it.                     *)
LEMMA TotalIsSummed == ASSUME NEW f PROVE Total(f) = Summed(f, DOMAIN f)
  BY Zenon DEF Total, Summed, FoldFunction, FoldFunctionOnSet

(* The recursion has a solution on every finite set: it is found for the   *)
(* subsets of at most n elements, n growing.                               *)
LEMMA SumExists ==
  ASSUME NEW f, NEW S, IsFiniteSet(S)
  PROVE  \E g : SumEquation(g, f, S)
<1> DEFINE Solves(g, s) == g[s] = IF s = {} THEN 0 ELSE f[First(s)] + g[s \ {First(s)}]
           N == {n \in Nat : \E g : \A s \in SUBSET S : Cardinality(s) <= n => Solves(g, s)}
<1>1. \A s \in SUBSET S : IsFiniteSet(s) /\ Cardinality(s) \in Nat
  BY FS_Subset, FS_CardinalityType
<1>2. \A s \in SUBSET S : s # {} =>
         First(s) \in s /\ Cardinality(s \ {First(s)}) = Cardinality(s) - 1
  BY <1>1, FS_RemoveElement DEF First
<1>3. 0 \in N
  <2> DEFINE g == [s \in SUBSET S |-> 0]
  <2>1. \A s \in SUBSET S : Cardinality(s) <= 0 => Solves(g, s)
    BY <1>1, FS_EmptySet
  <2> QED
    BY <2>1
<1>4. ASSUME NEW n \in Nat, n \in N PROVE n + 1 \in N
  <2>1. PICK g : \A s \in SUBSET S : Cardinality(s) <= n => Solves(g, s)
    BY <1>4
  <2> DEFINE h == [s \in SUBSET S |-> IF Cardinality(s) <= n THEN g[s]
                                      ELSE f[First(s)] + g[s \ {First(s)}]]
  <2>2. ASSUME NEW s \in SUBSET S, Cardinality(s) <= n + 1 PROVE Solves(h, s)
    <3>1. CASE s = {}
      BY <1>1, <2>1, <3>1, FS_EmptySet
    <3>2. CASE s # {}
      <4> DEFINE rest == s \ {First(s)}
      <4>1. rest \in SUBSET S /\ Cardinality(rest) <= n
        BY <1>1, <1>2, <2>2, <3>2
      <4>2. h[rest] = g[rest]
        BY <4>1
      <4>3. h[s] = f[First(s)] + g[rest]
        BY <1>1, <2>1, <3>2
      <4> QED
        BY <3>2, <4>2, <4>3
    <3> QED
      BY <3>1, <3>2
  <2> HIDE DEF h, Solves
  <2> QED
    BY <2>2
<1> HIDE DEF N
<1>5. Cardinality(S) \in N
  BY <1>1, <1>3, <1>4, NumberInduction
<1>6. PICK g : \A s \in SUBSET S : Cardinality(s) <= Cardinality(S) => Solves(g, s)
  BY <1>5 DEF N
<1>7. \A s \in SUBSET S : Solves(g, s)
  BY <1>1, <1>6, FS_Subset
<1> DEFINE h == [s \in SUBSET S |-> g[s]]
<1>8. SumEquation(h, f, S)
  <2>1. \A s \in SUBSET S : s # {} => s \ {First(s)} \in SUBSET S
    OBVIOUS
  <2>2. \A s \in SUBSET S :
           h[s] = IF s = {} THEN 0 ELSE f[First(s)] + h[s \ {First(s)}]
    BY <1>7, <2>1
  <2> QED
    BY <2>2 DEF SumEquation
<1> QED
  BY <1>8

(* The recursive function inside Summed exists: some solution of its       *)
(* equation gives the sum.                                                 *)
LEMMA SumChosen ==
  ASSUME NEW f, NEW S, IsFiniteSet(S)
  PROVE  \E g : SumEquation(g, f, S) /\ Summed(f, S) = g[S]
<1> DEFINE g == CHOOSE g : SumEquation(g, f, S)
<1>1. SumEquation(g, f, S)
  BY SumExists
<1>2. Summed(f, S) = g[S]
  BY Zenon DEF Summed, MapThenFoldSet, SumEquation, First
<1> QED
  BY <1>1, <1>2

(* Strong induction over the subsets of a finite set.                      *)
LEMMA SmallerInduction ==
  ASSUME NEW S, IsFiniteSet(S), NEW T,
         \A s \in SUBSET S : (\A t \in SUBSET s : t # s => t \in T) => s \in T
  PROVE  SUBSET S \subseteq T
<1> DEFINE N == {n \in Nat : \A s \in SUBSET S : Cardinality(s) <= n => s \in T}
<1>1. \A s \in SUBSET S : IsFiniteSet(s) /\ Cardinality(s) \in Nat
  BY FS_Subset, FS_CardinalityType
<1>2. \A s \in SUBSET S : \A t \in SUBSET s : t # s => Cardinality(t) < Cardinality(s)
  <2> SUFFICES ASSUME NEW s \in SUBSET S, NEW t \in SUBSET s, t # s
               PROVE  Cardinality(t) < Cardinality(s)
    OBVIOUS
  <2>1. Cardinality(t) <= Cardinality(s) /\ Cardinality(t) # Cardinality(s)
    BY <1>1, FS_Subset
  <2> QED
    BY <1>1, <2>1
<1>3. 0 \in N
  <2> SUFFICES ASSUME NEW s \in SUBSET S, Cardinality(s) <= 0 PROVE s \in T
    OBVIOUS
  <2>1. \A t \in SUBSET s : t # s => Cardinality(t) < 0
    BY <1>1, <1>2
  <2>2. \A t \in SUBSET s : t # s => t \in T
    BY <1>1, <2>1
  <2> QED
    BY <2>2
<1>4. ASSUME NEW n \in Nat, n \in N PROVE n + 1 \in N
  <2> SUFFICES ASSUME NEW s \in SUBSET S, Cardinality(s) <= n + 1 PROVE s \in T
    OBVIOUS
  <2>1. ASSUME NEW t \in SUBSET s, t # s PROVE t \in T
    <3>1. t \in SUBSET S /\ Cardinality(t) < Cardinality(s)
      BY <1>2, <2>1
    <3>2. Cardinality(t) <= n
      BY <1>1, <3>1
    <3> QED
      BY <1>4, <3>1, <3>2
  <2> QED
    BY <2>1
<1> HIDE DEF N
<1>5. Nat \subseteq N
  BY <1>3, <1>4, NumberInduction
<1> QED
  BY <1>1, <1>5 DEF N

(* The solution for a set holds those of its subsets.                      *)
LEMMA SumOfSubset ==
  ASSUME NEW f, NEW S, IsFiniteSet(S), NEW g, SumEquation(g, f, S), NEW s \in SUBSET S
  PROVE  Summed(f, s) = g[s]
<1>1. PICK h : SumEquation(h, f, s) /\ Summed(f, s) = h[s]
  BY SumChosen, FS_Subset
<1> DEFINE T == {t \in SUBSET s : g[t] = h[t]}
<1>2. ASSUME NEW t \in SUBSET s, \A u \in SUBSET t : u # t => u \in T PROVE t \in T
  <2>1. CASE t = {}
    BY <1>1, <2>1 DEF SumEquation
  <2>2. CASE t # {}
    <3>1. First(t) \in t
      BY <2>2 DEF First
    <3>2. t \ {First(t)} \in T
      BY <1>2, <3>1
    <3> QED
      BY <1>1, <2>2, <3>2 DEF SumEquation
  <2> QED
    BY <2>1, <2>2
<1> HIDE DEF T
<1>3. IsFiniteSet(s)
  BY FS_Subset
<1>4. SUBSET s \subseteq T
  BY <1>2, <1>3, SmallerInduction
<1> QED
  BY <1>1, <1>4 DEF T

(* A sum over nothing is 0.                                                *)
LEMMA SumEmpty == ASSUME NEW f PROVE Summed(f, {}) = 0
<1>1. PICK g : SumEquation(g, f, {}) /\ Summed(f, {}) = g[{}]
  BY SumChosen, FS_EmptySet
<1> QED
  BY <1>1 DEF SumEquation

(* A sum is the first element, in the fold's choice, and the sum of the    *)
(* rest.                                                                   *)
LEMMA SumFirst ==
  ASSUME NEW f, NEW S, IsFiniteSet(S), S # {}
  PROVE  First(S) \in S /\ Summed(f, S) = f[First(S)] + Summed(f, S \ {First(S)})
<1>1. PICK g : SumEquation(g, f, S) /\ Summed(f, S) = g[S]
  BY SumChosen
<1>2. First(S) \in S
  BY DEF First
<1>3. Summed(f, S \ {First(S)}) = g[S \ {First(S)}]
  BY <1>1, SumOfSubset
<1> QED
  BY <1>1, <1>2, <1>3 DEF SumEquation

(* Sums of integers are integers, and any element may be taken first.      *)
LEMMA SumRemove ==
  ASSUME NEW f, NEW S, IsFiniteSet(S), \A i \in S : f[i] \in Int
  PROVE  /\ Summed(f, S) \in Int
         /\ \A x \in S : Summed(f, S) = f[x] + Summed(f, S \ {x})
<1> DEFINE T == {s \in SUBSET S : /\ Summed(f, s) \in Int
                                  /\ \A x \in s : Summed(f, s) = f[x] + Summed(f, s \ {x})}
<1>1. \A s \in SUBSET S : IsFiniteSet(s)
  BY FS_Subset
<1>2. ASSUME NEW s \in SUBSET S, \A t \in SUBSET s : t # s => t \in T PROVE s \in T
  <2>1. CASE s = {}
    BY <2>1, SumEmpty
  <2>2. CASE s # {}
    <3> DEFINE c == First(s)
    <3>1. c \in s /\ Summed(f, s) = f[c] + Summed(f, s \ {c})
      BY <1>1, <2>2, SumFirst
    <3>2. s \ {c} \in T
      BY <1>2, <3>1
    <3> HIDE DEF c
    <3>3. Summed(f, s) \in Int
      BY <3>1, <3>2
    <3>4. ASSUME NEW x \in s PROVE Summed(f, s) = f[x] + Summed(f, s \ {x})
      <4>1. CASE x = c
        BY <3>1, <4>1
      <4>2. CASE x # c
        <5> DEFINE rest == (s \ {x}) \ {c}
        <5>1. (s \ {c}) \ {x} = rest
          OBVIOUS
        <5>2. s \ {x} \in T /\ rest \in T
          BY <1>2
        <5>3. Summed(f, s \ {c}) = f[x] + Summed(f, rest)
          BY <3>2, <4>2, <5>1
        <5>4. Summed(f, s \ {x}) = f[c] + Summed(f, rest)
          BY <3>1, <4>2, <5>2
        <5>5. f[x] \in Int /\ f[c] \in Int /\ Summed(f, rest) \in Int
          BY <3>1, <5>2
        <5> HIDE DEF rest
        <5> QED
          BY <3>1, <5>3, <5>4, <5>5
      <4> QED
        BY <4>1, <4>2
    <3> QED
      BY <3>3, <3>4
  <2> QED
    BY <2>1, <2>2
<1> HIDE DEF T
<1>3. S \in T
  BY <1>2, SmallerInduction
<1> QED
  BY <1>3 DEF T

(* A sum does not depend on the order in which the fold takes the          *)
(* elements: any one can be split off.                                     *)
LEMMA SumAdd ==
  ASSUME NEW f, NEW S, IsFiniteSet(S), NEW x, x \notin S, \A i \in S \cup {x} : f[i] \in Int
  PROVE  /\ Summed(f, S) \in Int /\ f[x] \in Int
         /\ Summed(f, S \cup {x}) = f[x] + Summed(f, S)
<1>1. (S \cup {x}) \ {x} = S /\ IsFiniteSet(S \cup {x})
  BY FS_AddElement
<1> QED
  BY <1>1, SumRemove

(* Two functions whose values are related on a set have sums that are.     *)
LEMMA SumSame ==
  ASSUME NEW S, IsFiniteSet(S), NEW f, NEW g, \A i \in S : f[i] \in Int /\ f[i] = g[i]
  PROVE  Summed(f, S) = Summed(g, S)
<1> DEFINE T == {s \in SUBSET S : Summed(f, s) = Summed(g, s)}
<1>1. {} \in T
  BY SumEmpty
<1>2. ASSUME NEW s \in SUBSET S, NEW x \in S \ s, s \in T PROVE s \cup {x} \in T
  <2>1. IsFiniteSet(s)
    BY FS_Subset
  <2>2. /\ Summed(f, s \cup {x}) = f[x] + Summed(f, s)
        /\ Summed(g, s \cup {x}) = g[x] + Summed(g, s)
    BY <2>1, SumAdd
  <2> QED
    BY <1>2, <2>2
<1> HIDE DEF T
<1>3. SUBSET S \subseteq T
  BY <1>1, <1>2, SubsetInduction
<1> QED
  BY <1>3 DEF T

(* Sums of smaller terms are smaller.                                      *)
LEMMA SumAtMost ==
  ASSUME NEW S, IsFiniteSet(S), NEW f, NEW g,
         \A i \in S : f[i] \in Int /\ g[i] \in Int /\ f[i] <= g[i]
  PROVE  Summed(f, S) <= Summed(g, S)
<1> DEFINE T == {s \in SUBSET S : Summed(f, s) <= Summed(g, s)}
<1>1. {} \in T
  BY SumEmpty
<1>2. ASSUME NEW s \in SUBSET S, NEW x \in S \ s, s \in T PROVE s \cup {x} \in T
  <2>1. IsFiniteSet(s)
    BY FS_Subset
  <2>2. /\ Summed(f, s \cup {x}) = f[x] + Summed(f, s) /\ Summed(f, s) \in Int
        /\ Summed(g, s \cup {x}) = g[x] + Summed(g, s) /\ Summed(g, s) \in Int
    BY <2>1, SumAdd
  <2>3. Summed(f, s) <= Summed(g, s) /\ f[x] <= g[x] /\ f[x] \in Int /\ g[x] \in Int
    BY <1>2
  <2>4. Summed(f, s \cup {x}) <= Summed(g, s \cup {x})
    BY <2>2, <2>3
  <2> QED
    BY <2>4
<1> HIDE DEF T
<1>3. SUBSET S \subseteq T
  BY <1>1, <1>2, SubsetInduction
<1> QED
  BY <1>3 DEF T

(* A sum is linear in its terms.                                           *)
LEMMA SumLinear ==
  ASSUME NEW S, IsFiniteSet(S), NEW a \in Int, NEW b \in Int, NEW f, NEW g, NEW h,
         \A i \in S : f[i] \in Int /\ g[i] \in Int /\ h[i] = a * f[i] + b * g[i]
  PROVE  Summed(h, S) = a * Summed(f, S) + b * Summed(g, S)
<1> DEFINE T == {s \in SUBSET S : Summed(h, s) = a * Summed(f, s) + b * Summed(g, s)}
<1>1. {} \in T
  BY SumEmpty
<1>2. ASSUME NEW s \in SUBSET S, NEW x \in S \ s, s \in T PROVE s \cup {x} \in T
  <2>1. IsFiniteSet(s) /\ \A i \in S : h[i] \in Int
    BY FS_Subset
  <2>2. /\ Summed(f, s \cup {x}) = f[x] + Summed(f, s) /\ Summed(f, s) \in Int
        /\ Summed(g, s \cup {x}) = g[x] + Summed(g, s) /\ Summed(g, s) \in Int
        /\ Summed(h, s \cup {x}) = h[x] + Summed(h, s)
    BY <2>1, SumAdd
  <2>3. /\ f[x] \in Int /\ g[x] \in Int /\ h[x] = a * f[x] + b * g[x]
        /\ Summed(h, s) = a * Summed(f, s) + b * Summed(g, s)
    BY <1>2
  <2>4. \A u, v, w, z \in Int : (a * u + b * v) + (a * w + b * z) = a * (u + w) + b * (v + z)
    OBVIOUS
  <2>5. Summed(h, s \cup {x}) = a * Summed(f, s \cup {x}) + b * Summed(g, s \cup {x})
    BY <2>2, <2>3, <2>4
  <2> QED
    BY <2>5
<1> HIDE DEF T
<1>3. SUBSET S \subseteq T
  BY <1>1, <1>2, SubsetInduction
<1> QED
  BY <1>3 DEF T

(* A sum of equal terms is a product.                                      *)
LEMMA SumConstant ==
  ASSUME NEW S, IsFiniteSet(S), NEW c \in Int, NEW f, \A i \in S : f[i] = c
  PROVE  Summed(f, S) = c * Cardinality(S)
<1> DEFINE T == {s \in SUBSET S : Summed(f, s) = c * Cardinality(s)}
<1>1. {} \in T
  BY SumEmpty, FS_EmptySet
<1>2. ASSUME NEW s \in SUBSET S, NEW x \in S \ s, s \in T PROVE s \cup {x} \in T
  <2>1. IsFiniteSet(s) /\ Cardinality(s) \in Nat
    BY FS_Subset, FS_CardinalityType
  <2>2. Summed(f, s \cup {x}) = c + Summed(f, s)
    BY <2>1, SumAdd
  <2>3. Cardinality(s \cup {x}) = Cardinality(s) + 1
    BY <2>1, FS_AddElement
  <2>4. \A n \in Nat : c + c * n = c * (n + 1)
    OBVIOUS
  <2>5. Summed(f, s) = c * Cardinality(s)
    BY <1>2
  <2>6. Summed(f, s \cup {x}) = c * Cardinality(s \cup {x})
    BY <2>1, <2>2, <2>3, <2>4, <2>5
  <2> QED
    BY <2>6
<1> HIDE DEF T
<1>3. SUBSET S \subseteq T
  BY <1>1, <1>2, SubsetInduction
<1> QED
  BY <1>3 DEF T

(* Where values lie between two bounds, so does their mean.                *)
LEMMA SumBetween ==
  ASSUME NEW S, IsFiniteSet(S), NEW low \in Int, NEW high \in Int, NEW f,
         \A i \in S : f[i] \in Int /\ low <= f[i] /\ f[i] <= high
  PROVE  low * Cardinality(S) <= Summed(f, S) /\ Summed(f, S) <= high * Cardinality(S)
<1> DEFINE l == [i \in S |-> low]
           h == [i \in S |-> high]
<1>1. Summed(l, S) <= Summed(f, S) /\ Summed(f, S) <= Summed(h, S)
  BY SumAtMost
<1>2. Summed(l, S) = low * Cardinality(S) /\ Summed(h, S) = high * Cardinality(S)
  BY SumConstant
<1> QED
  BY <1>1, <1>2

(* The magnitude of a sum is at most the sum of the magnitudes.            *)
LEMMA SumMagnitude ==
  ASSUME NEW S, IsFiniteSet(S), NEW f, NEW g,
         \A i \in S : f[i] \in Int /\ g[i] = Magnitude(f[i])
  PROVE  Magnitude(Summed(f, S)) <= Summed(g, S)
<1> DEFINE n == [i \in S |-> -f[i]]
<1>1. \A i \in S : /\ g[i] \in Int /\ f[i] <= g[i]
                   /\ n[i] \in Int /\ n[i] <= g[i] /\ n[i] = (-1) * f[i] + 0 * f[i]
  BY DEF Magnitude
<1> HIDE DEF n
<1>2. Summed(f, S) <= Summed(g, S) /\ Summed(n, S) <= Summed(g, S)
  BY <1>1, SumAtMost
<1>3. Summed(n, S) = (-1) * Summed(f, S) + 0 * Summed(f, S)
  BY <1>1, SumLinear
<1>4. Summed(f, S) \in Int
  BY SumRemove
<1> QED
  BY <1>2, <1>3, <1>4 DEF Magnitude

(* Elements that count nothing can be left out; with none below zero, a    *)
(* part has no larger sum than the whole.                                  *)
LEMMA SumPart ==
  ASSUME NEW S, IsFiniteSet(S), NEW f, \A i \in S : f[i] \in Int, NEW R \in SUBSET S
  PROVE  /\ (\A i \in S \ R : f[i] = 0) => Summed(f, R) = Summed(f, S)
         /\ (\A i \in S \ R : f[i] >= 0) => Summed(f, R) <= Summed(f, S)
<1> DEFINE T == {s \in SUBSET S :
                    /\ (\A i \in S \ R : f[i] = 0) => Summed(f, s \cap R) = Summed(f, s)
                    /\ (\A i \in S \ R : f[i] >= 0) => Summed(f, s \cap R) <= Summed(f, s)}
<1>1. {} \in T
  <2>1. {} \cap R = {}
    OBVIOUS
  <2> QED
    BY <2>1, SumEmpty
<1>2. ASSUME NEW s \in SUBSET S, NEW x \in S \ s, s \in T PROVE s \cup {x} \in T
  <2>1. IsFiniteSet(s) /\ IsFiniteSet(s \cap R)
    BY FS_Subset
  <2>2. Summed(f, s \cup {x}) = f[x] + Summed(f, s) /\ Summed(f, s) \in Int /\ f[x] \in Int
    BY <2>1, SumAdd
  <2>3. Summed(f, s \cap R) \in Int
    BY <2>1, SumRemove
  <2>4. CASE x \in R
    <3>1. (s \cup {x}) \cap R = (s \cap R) \cup {x}
      BY <2>4
    <3>2. Summed(f, (s \cap R) \cup {x}) = f[x] + Summed(f, s \cap R)
      BY <2>1, SumAdd
    <3>3. Summed(f, (s \cup {x}) \cap R) = f[x] + Summed(f, s \cap R)
      BY <3>1, <3>2, Zenon
    <3> DEFINE u == Summed(f, (s \cup {x}) \cap R)
               v == Summed(f, s \cup {x})
               w == Summed(f, s \cap R)
               y == Summed(f, s)
    <3>4. u = f[x] + w /\ v = f[x] + y /\ w \in Int /\ y \in Int /\ f[x] \in Int
      BY <2>2, <2>3, <3>3
    <3> HIDE DEF u, v, w, y
    <3>5. (w = y => u = v) /\ (w <= y => u <= v)
      BY <3>4
    <3>6. /\ Summed(f, s \cap R) = Summed(f, s) =>
                Summed(f, (s \cup {x}) \cap R) = Summed(f, s \cup {x})
          /\ Summed(f, s \cap R) <= Summed(f, s) =>
                Summed(f, (s \cup {x}) \cap R) <= Summed(f, s \cup {x})
      BY <3>5 DEF u, v, w, y
    <3> QED
      BY <1>2, <3>6
  <2>5. CASE x \notin R
    <3>1. (s \cup {x}) \cap R = s \cap R
      BY <2>5
    <3>2. Summed(f, (s \cup {x}) \cap R) = Summed(f, s \cap R)
      BY <3>1, Zenon
    <3>3. /\ f[x] = 0 /\ Summed(f, s \cap R) = Summed(f, s) =>
                Summed(f, (s \cup {x}) \cap R) = Summed(f, s \cup {x})
          /\ f[x] >= 0 /\ Summed(f, s \cap R) <= Summed(f, s) =>
                Summed(f, (s \cup {x}) \cap R) <= Summed(f, s \cup {x})
      BY <2>2, <2>3, <3>2
    <3> QED
      BY <1>2, <2>5, <3>3
  <2> QED
    BY <2>4, <2>5
<1> HIDE DEF T
<1>3. SUBSET S \subseteq T
  BY <1>1, <1>2, SubsetInduction
<1>4. S \cap R = R
  OBVIOUS
<1> QED
  BY <1>3, <1>4 DEF T

(* A sum does not depend on how its elements are named.                    *)
LEMMA SumRenamed ==
  ASSUME NEW S, IsFiniteSet(S), NEW o, \A i, j \in S : o[i] = o[j] => i = j,
         NEW f, NEW h, \A i \in S : f[o[i]] \in Int /\ h[i] = f[o[i]]
  PROVE  /\ IsFiniteSet({o[i] : i \in S})
         /\ Summed(h, S) = Summed(f, {o[i] : i \in S})
<1> DEFINE Image(s) == {o[i] : i \in s}
           T == {s \in SUBSET S : IsFiniteSet(Image(s)) /\ Summed(h, s) = Summed(f, Image(s))}
<1>1. {} \in T
  <2>1. Image({}) = {}
    OBVIOUS
  <2> QED
    BY <2>1, SumEmpty, FS_EmptySet
<1>2. ASSUME NEW s \in SUBSET S, NEW x \in S \ s, s \in T PROVE s \cup {x} \in T
  <2>1. IsFiniteSet(s) /\ IsFiniteSet(Image(s)) /\ Summed(h, s) = Summed(f, Image(s))
    BY <1>2, FS_Subset
  <2>2. Image(s \cup {x}) = Image(s) \cup {o[x]} /\ o[x] \notin Image(s)
    OBVIOUS
  <2>3. Summed(h, s \cup {x}) = h[x] + Summed(h, s)
    BY <2>1, SumAdd
  <2>4. \A y \in Image(s) \cup {o[x]} : f[y] \in Int
    OBVIOUS
  <2> HIDE DEF Image
  <2>5. Summed(f, Image(s) \cup {o[x]}) = f[o[x]] + Summed(f, Image(s))
    BY <2>1, <2>2, <2>4, SumAdd
  <2>6. IsFiniteSet(Image(s) \cup {o[x]})
    BY <2>1, FS_AddElement
  <2>7. Summed(h, s \cup {x}) = Summed(f, Image(s \cup {x}))
    BY <2>1, <2>2, <2>3, <2>5
  <2> QED
    BY <2>2, <2>6, <2>7
<1> HIDE DEF T
<1>3. SUBSET S \subseteq T
  BY <1>1, <1>2, SubsetInduction
<1> QED
  BY <1>3 DEF T

(* A square is a natural number.                                           *)
LEMMA SquareNotNegative == \A a \in Int : a * a \in Nat
  OBVIOUS

(* One term more: from c * c <= a * b the same of the three larger sums.   *)
LEMMA OneTermMore ==
  ASSUME NEW a \in Nat, NEW b \in Nat, NEW c \in Int, c * c <= a * b,
         NEW x \in Int, NEW y \in Int
  PROVE  (x * y + c) * (x * y + c) <= (x * x + a) * (y * y + b)
<1>1. 2 * (x * y * c) <= a * (y * y) + b * (x * x)
  <2>1. CASE a = 0
    <3>1. c = 0
      BY <2>1
    <3> QED
      BY <2>1, <3>1
  <2>2. CASE a > 0
    <3>1. 0 <= (a * y - c * x) * (a * y - c * x)
      BY SquareNotNegative
    <3>2. (a * y - c * x) * (a * y - c * x)
              = a * (a * (y * y)) - a * (2 * (x * y * c)) + (c * c) * (x * x)
      OBVIOUS
    <3>3. (c * c) * (x * x) <= (a * b) * (x * x)
      BY SquareNotNegative
    <3>4. (a * b) * (x * x) = a * (b * (x * x))
      OBVIOUS
    <3>5. 0 <= a * (a * (y * y) - 2 * (x * y * c) + b * (x * x))
      BY <3>1, <3>2, <3>3, <3>4
    <3> DEFINE d == a * (y * y) - 2 * (x * y * c) + b * (x * x)
    <3>6. d \in Int /\ 0 <= a * d
      BY <3>5
    <3> HIDE DEF d
    <3>7. 0 <= d
      BY <2>2, <3>6
    <3> QED
      BY <3>7 DEF d
  <2> QED
    BY <2>1, <2>2
<1>2. (x * y + c) * (x * y + c) = (x * x) * (y * y) + 2 * (x * y * c) + c * c
  OBVIOUS
<1>3. (x * x + a) * (y * y + b) = (x * x) * (y * y) + a * (y * y) + b * (x * x) + a * b
  OBVIOUS
<1> QED
  BY <1>1, <1>2, <1>3

(* The inequality of Cauchy and Schwarz.                                   *)
LEMMA CauchySchwarz ==
  ASSUME NEW S, IsFiniteSet(S), NEW f, NEW g, NEW ff, NEW gg, NEW fg,
         \A i \in S : /\ f[i] \in Int /\ g[i] \in Int
                      /\ ff[i] = f[i] * f[i] /\ gg[i] = g[i] * g[i] /\ fg[i] = f[i] * g[i]
  PROVE  /\ Summed(ff, S) \in Nat /\ Summed(gg, S) \in Nat /\ Summed(fg, S) \in Int
         /\ Summed(fg, S) * Summed(fg, S) <= Summed(ff, S) * Summed(gg, S)
<1> DEFINE T == {s \in SUBSET S :
                    /\ Summed(ff, s) \in Nat /\ Summed(gg, s) \in Nat /\ Summed(fg, s) \in Int
                    /\ Summed(fg, s) * Summed(fg, s) <= Summed(ff, s) * Summed(gg, s)}
<1>1. {} \in T
  BY SumEmpty
<1>2. ASSUME NEW s \in SUBSET S, NEW x \in S \ s, s \in T PROVE s \cup {x} \in T
  <2> DEFINE a == Summed(ff, s)
             b == Summed(gg, s)
             c == Summed(fg, s)
  <2>1. \A i \in S : ff[i] \in Int /\ gg[i] \in Int /\ fg[i] \in Int
    OBVIOUS
  <2>2. /\ Summed(ff, s \cup {x}) = ff[x] + a
        /\ Summed(gg, s \cup {x}) = gg[x] + b
        /\ Summed(fg, s \cup {x}) = fg[x] + c
    BY <2>1, SumAdd, FS_Subset
  <2>3. /\ f[x] \in Int /\ g[x] \in Int /\ ff[x] = f[x] * f[x] /\ gg[x] = g[x] * g[x]
        /\ fg[x] = f[x] * g[x]
    OBVIOUS
  <2>4. a \in Nat /\ b \in Nat /\ c \in Int /\ c * c <= a * b
    BY <1>2
  <2> HIDE DEF a, b, c
  <2>5. (fg[x] + c) * (fg[x] + c) <= (ff[x] + a) * (gg[x] + b)
    BY <2>3, <2>4, OneTermMore
  <2>6. ff[x] + a \in Nat /\ gg[x] + b \in Nat /\ fg[x] + c \in Int
    BY <2>3, <2>4, SquareNotNegative
  <2> QED
    BY <2>2, <2>5, <2>6
<1> HIDE DEF T
<1>3. SUBSET S \subseteq T
  BY <1>1, <1>2, SubsetInduction
<1> QED
  BY <1>3 DEF T

(* Rounding to the nearest unit: what is at most the whole is at most      *)
(* Scale, and what is at most m times the whole at most m * Scale.         *)
LEMMA NearestBounds ==
  ASSUME NEW num \in Nat, NEW den \in Nat, den > 0, NEW m \in Nat, num <= m * den
  PROVE  Nearest(num, den) \in 0..(m * Scale)
<1> DEFINE low == (Scale * num) \div den
           rest == (Scale * num) % den
<1>1. Scale \in Nat /\ Scale * num \in Nat /\ m * Scale \in Nat
  BY MetricsAssumption
<1>2. low \in Nat /\ rest \in Nat /\ rest < den /\ Scale * num = low * den + rest
  BY <1>1
<1>3. Scale * num <= (m * Scale) * den
  <2>1. \A a, b, c \in Nat : a <= b => c * a <= c * b
    OBVIOUS
  <2>2. m * den \in Nat
    OBVIOUS
  <2>3. Scale * num <= Scale * (m * den)
    BY <1>1, <2>1, <2>2
  <2>4. Scale * (m * den) = (m * Scale) * den
    BY <1>1
  <2> QED
    BY <2>3, <2>4
<1> DEFINE M == m * Scale
<1> HIDE DEF low, rest, M
<1>4. low * den + rest <= M * den /\ M \in Nat
  BY <1>1, <1>2, <1>3 DEF M
<1>5. low <= M /\ (rest > 0 => low + 1 <= M)
  <2>1. \A a, b \in Int : a >= b + 1 => a * den >= b * den + den
    OBVIOUS
  <2>2. low <= M
    BY <1>2, <1>4, <2>1
  <2>3. ASSUME rest > 0 PROVE low + 1 <= M
    BY <1>2, <1>4, <2>2, <2>3
  <2> QED
    BY <2>2, <2>3
<1>6. Nearest(num, den) \in {low, low + 1} /\ (Nearest(num, den) = low + 1 => rest > 0)
  <2>1. Nearest(num, den) = IF 2 * rest > den \/ (2 * rest = den /\ low % 2 = 1)
                            THEN low + 1 ELSE low
    BY DEF Nearest, low, rest
  <2> QED
    BY <1>2, <2>1
<1> QED
  BY <1>2, <1>4, <1>5, <1>6 DEF M

(* quantize_decimal leaves a quotient within its bounds, which are whole.  *)
LEMMA QuantizeBounds ==
  ASSUME NEW num \in Nat, NEW den \in Nat, den > 0, NEW m \in Nat, num <= m * den
  PROVE  quantize(num, den) \in 0..(m * Scale)
<1>1. quantize(num, den) = Nearest(num, den)
  BY DEF quantize
<1> QED
  BY <1>1, NearestBounds

(* Where the number is at most the root, there is a nearest unit.          *)
LEMMA RootBounds ==
  ASSUME NEW num \in Nat, NEW square \in Nat, square > 0, num * num <= square
  PROVE  NearestToRoot(num, square) \in 0..Scale
<1> DEFINE aim == 4 * Scale * Scale * num * num
           Above(r) == aim < (2 * r + 1) * (2 * r + 1) * square
           Near(r) == ((2 * r - 1) * (2 * r - 1) * square <= aim \/ r = 0) /\ Above(r)
           T == {r \in 0..Scale : Above(r)}
<1>1. Scale \in Nat /\ aim \in Nat
  BY MetricsAssumption
<1>2. Above(Scale)
  <2> DEFINE q == 4 * Scale * Scale
  <2>1. q \in Nat /\ aim = q * (num * num) /\ num * num \in Nat
    BY <1>1
  <2>2. (2 * Scale + 1) * (2 * Scale + 1) = q + (4 * Scale + 1)
    BY <1>1
  <2> HIDE DEF q, aim
  <2>3. q * (num * num) <= q * square
    BY <2>1
  <2>4. (q + (4 * Scale + 1)) * square = q * square + (4 * Scale + 1) * square
    BY <1>1, <2>1
  <2>5. (4 * Scale + 1) * square > 0
    BY <1>1
  <2>6. q * square \in Nat /\ (4 * Scale + 1) * square \in Nat /\ q * (num * num) \in Nat
    BY <1>1, <2>1
  <2>7. aim < (q + (4 * Scale + 1)) * square
    BY <2>1, <2>3, <2>4, <2>5, <2>6
  <2> QED
    BY <2>2, <2>7
<1> HIDE DEF aim
<1>3. T \in SUBSET Nat /\ T # {}
  BY <1>1, <1>2
<1>4. PICK r \in T : \A s \in T : r <= s
  BY <1>3, Least
<1>5. r \in 0..Scale /\ Above(r)
  OBVIOUS
<1>6. r # 0 => (2 * r - 1) * (2 * r - 1) * square <= aim
  <2> SUFFICES ASSUME r # 0 PROVE (2 * r - 1) * (2 * r - 1) * square <= aim
    OBVIOUS
  <2>1. r - 1 \in 0..Scale /\ r - 1 \notin T
    BY <1>1, <1>4, <1>5
  <2>2. ~ Above(r - 1)
    BY <2>1
  <2>3. 2 * (r - 1) + 1 = 2 * r - 1
    BY <1>5
  <2>4. (2 * r - 1) * (2 * r - 1) * square \in Int
    BY <1>5
  <2> QED
    BY <1>1, <2>2, <2>3, <2>4
<1>7. \E s \in 0..Scale : Near(s)
  BY <1>5, <1>6
<1>8. NearestToRoot(num, square) = CHOOSE s \in 0..Scale : Near(s)
  BY Zenon DEF NearestToRoot, aim
<1> QED
  BY <1>7, <1>8

ScoreSeq(n) == [1..n -> 0..TopScore]

(* A sequence of n scores: its domain, its length, its values.             *)
LEMMA ScoreSeqFacts ==
  ASSUME NEW n \in Nat \ {0}, NEW values \in ScoreSeq(n)
  PROVE  /\ DOMAIN values = 1..n /\ Len(values) = n
         /\ IsFiniteSet(1..n) /\ Cardinality(1..n) = n
         /\ \A i \in 1..n : values[i] \in Nat /\ values[i] <= TopScore
<1>1. IsFiniteSet(1..n) /\ Cardinality(1..n) = n
  BY FS_Interval
<1>2. DOMAIN values = 1..n /\ values \in Seq(0..TopScore)
  BY DEF ScoreSeq, TopScore
<1>3. Len(values) = n
  BY <1>2
<1>4. \A i \in 1..n : values[i] \in 0..TopScore
  BY DEF ScoreSeq
<1>5. \A v \in 0..TopScore : v \in Nat /\ v <= TopScore
  BY DEF TopScore
<1> QED
  BY <1>1, <1>2, <1>3, <1>4, <1>5

(* The mean absolute error is between 0 and the top score (metrics.mae).   *)
LEMMA MaeRange ==
  ASSUME NEW n \in Nat \ {0}, NEW labels \in ScoreSeq(n), NEW scores \in ScoreSeq(n)
  PROVE  mae(labels, scores) \in 0..(TopScore * Scale)
<1> DEFINE f == [i \in DOMAIN labels |-> Magnitude(labels[i] - scores[i])]
<1>1. DOMAIN f = 1..n /\ Len(labels) = n /\ \A i \in 1..n : f[i] \in Int /\ 0 <= f[i] /\ f[i] <= TopScore
  BY ScoreSeqFacts DEF Magnitude, TopScore
<1>2. mae(labels, scores) = quantize(Summed(f, 1..n), n)
  BY <1>1, TotalIsSummed DEF mae
<1> HIDE DEF f
<1>3. TopScore \in Nat /\ IsFiniteSet(1..n) /\ Cardinality(1..n) = n
  BY ScoreSeqFacts DEF TopScore
<1>4. 0 <= Summed(f, 1..n) /\ Summed(f, 1..n) <= TopScore * n
  <2> DEFINE low == 0
  <2>1. low \in Int /\ TopScore \in Int /\ \A i \in 1..n : low <= f[i]
    BY <1>1, <1>3
  <2>2. low * n = 0
    OBVIOUS
  <2> HIDE DEF low
  <2>3. low * Cardinality(1..n) <= Summed(f, 1..n)
        /\ Summed(f, 1..n) <= TopScore * Cardinality(1..n)
    BY <1>1, <1>3, <2>1, SumBetween
  <2> QED
    BY <1>3, <2>2, <2>3
<1>5. Summed(f, 1..n) \in Int
  BY <1>1, <1>3, SumRemove
<1>6. Summed(f, 1..n) \in Nat /\ Summed(f, 1..n) <= TopScore * n
  BY <1>3, <1>4, <1>5
<1> DEFINE total == Summed(f, 1..n)
<1>7. total \in Nat /\ total <= TopScore * n /\ mae(labels, scores) = quantize(total, n)
  BY <1>2, <1>6
<1> HIDE DEF total
<1>8. quantize(total, n) \in 0..(TopScore * Scale)
  <2>1. n \in Nat /\ n > 0
    OBVIOUS
  <2> QED
    BY <1>3, <1>7, <2>1, QuantizeBounds
<1> QED
  BY <1>7, <1>8

(* f1 is between 0 and 1 for every threshold (metrics.f1).                 *)
LEMMA F1Range ==
  ASSUME NEW n \in Nat \ {0}, NEW labels \in ScoreSeq(n), NEW scores \in ScoreSeq(n),
         NEW threshold
  PROVE  f1(labels, scores, threshold) \in 0..Scale
<1> DEFINE actual == {i \in DOMAIN labels : labels[i] >= threshold}
           found == {i \in DOMAIN labels : scores[i] >= threshold}
           hits == Cardinality(actual \cap found)
           misses == Cardinality(actual \cup found) - hits
<1>1. IsFiniteSet(actual) /\ IsFiniteSet(found)
  BY ScoreSeqFacts, FS_Subset
<1> HIDE DEF actual, found
<1>2. IsFiniteSet(actual \cup found) /\ actual \cap found \in SUBSET (actual \cup found)
  BY <1>1, FS_Union
<1>3. hits \in Nat /\ misses \in Nat
  BY <1>2, FS_Subset, FS_CardinalityType
<1>4. f1(labels, scores, threshold) =
         IF hits + misses = 0 THEN 0 ELSE quantize(2 * hits, 2 * hits + misses)
  BY DEF f1, actual, found
<1> HIDE DEF hits, misses
<1>5. hits + misses # 0 => quantize(2 * hits, 2 * hits + misses) \in 0..(1 * Scale)
  BY <1>3, QuantizeBounds
<1>6. 1 * Scale = Scale /\ Scale \in Nat
  BY MetricsAssumption
<1> QED
  BY <1>4, <1>5, <1>6

(* pairwise_accuracy is between 0 and 1, a tie counting half               *)
(* (metrics.pairwise_accuracy).                                            *)
LEMMA PairwiseRange ==
  ASSUME NEW labels, NEW scores, NEW maxPairs \in Nat \ {0},
         IsFiniteSet(DOMAIN _sampled_pair_indices(Len(labels), maxPairs))
  PROVE  pairwise_accuracy(labels, scores, maxPairs) \in 0..Scale
<1> DEFINE sample == _sampled_pair_indices(Len(labels), maxPairs)
           Order(values, k) == LET pair == _unrank_pair(sample[k], Len(labels))
                               IN  Sign(values[pair[1] + 1] - values[pair[2] + 1])
           comparable == {k \in DOMAIN sample : Order(labels, k) # 0}
           right == {k \in comparable : Order(scores, k) = Order(labels, k)}
           tied == {k \in comparable : Order(scores, k) = 0}
<1>1. IsFiniteSet(comparable)
  BY FS_Subset
<1>2. /\ right \in SUBSET comparable /\ tied \in SUBSET comparable
      /\ right \cap tied = {}
  OBVIOUS
<1>3. pairwise_accuracy(labels, scores, maxPairs) =
         IF comparable = {} THEN 0
         ELSE quantize(2 * Cardinality(right) + Cardinality(tied), 2 * Cardinality(comparable))
  BY DEF pairwise_accuracy
<1> HIDE DEF comparable, right, tied
<1>4. IsFiniteSet(right) /\ IsFiniteSet(tied) /\ right \cup tied \in SUBSET comparable
  BY <1>1, <1>2, FS_Subset
<1>5. Cardinality(right \cup tied) = Cardinality(right) + Cardinality(tied)
  <2>1. Cardinality(right \cup tied)
            = Cardinality(right) + Cardinality(tied) - Cardinality(right \cap tied)
    BY <1>4, FS_Union
  <2>2. Cardinality(right \cap tied) = 0
    BY <1>2, FS_EmptySet
  <2> QED
    BY <2>1, <2>2, <1>4, FS_CardinalityType
<1> DEFINE r == Cardinality(right)
           t == Cardinality(tied)
           c == Cardinality(comparable)
<1>6. r \in Nat /\ t \in Nat /\ c \in Nat /\ r + t <= c
  BY <1>1, <1>4, <1>5, FS_CardinalityType, FS_Subset
<1>7. comparable # {} => c # 0
  BY <1>1, FS_EmptySet
<1> HIDE DEF r, t, c
<1>8. c # 0 => quantize(2 * r + t, 2 * c) \in 0..(1 * Scale)
  <2>1. 2 * r + t \in Nat /\ 2 * c \in Nat /\ 2 * r + t <= 1 * (2 * c) /\ (c # 0 => 2 * c > 0)
    BY <1>6
  <2> QED
    BY <2>1, QuantizeBounds
<1>9. 1 * Scale = Scale /\ Scale \in Nat
  BY MetricsAssumption
<1> QED
  BY <1>3, <1>7, <1>8, <1>9 DEF r, t, c

(* A sample has finitely many slots.                                       *)
LEMMA SampleFinite ==
  ASSUME NEW n \in Nat, NEW maxPairs \in Nat \ {0}
  PROVE  IsFiniteSet(DOMAIN _sampled_pair_indices(n, maxPairs))
<1> DEFINE total == (n * (n - 1)) \div 2
<1>1. total \in Int
  OBVIOUS
<1>2. IsFiniteSet(1..total) /\ IsFiniteSet(1..maxPairs)
  BY <1>1, FS_Interval
<1> HIDE DEF total
<1>3. DOMAIN _sampled_pair_indices(n, maxPairs) \in {1..total, 1..maxPairs}
  BY DEF _sampled_pair_indices, total
<1> QED
  BY <1>2, <1>3

(* spearman is between -1 and 1 (metrics.spearman); this is the Cauchy-    *)
(* Schwarz inequality of the ranks.                                        *)
LEMMA SpearmanRange ==
  ASSUME NEW n \in Nat \ {0}, NEW labels \in ScoreSeq(n), NEW scores \in ScoreSeq(n)
  PROVE  spearman(labels, scores) \in (-Scale)..Scale
<1> DEFINE left == Deviations(labels)
           right == Deviations(scores)
           Product(f, g) == [i \in DOMAIN labels |-> f[i] * g[i]]
           c == Summed(Product(left, right), 1..n)
           l == Summed(Product(left, left), 1..n)
           r == Summed(Product(right, right), 1..n)
<1>1. DOMAIN labels = 1..n /\ IsFiniteSet(1..n)
  BY ScoreSeqFacts
<1>2. ASSUME NEW values \in ScoreSeq(n)
      PROVE  \A i \in 1..n : Deviations(values)[i] \in Int
  <2> DEFINE ranks == _average_ranks(values)
  <2>1. DOMAIN values = 1..n /\ Len(values) = n
    BY ScoreSeqFacts
  <2>2. \A s \in SUBSET (1..n) : Cardinality(s) \in Nat
    BY <1>1, FS_Subset, FS_CardinalityType
  <2>3. DOMAIN ranks = 1..n /\ \A i \in 1..n : ranks[i] \in Int
    BY <2>1, <2>2 DEF _average_ranks
  <2> HIDE DEF ranks
  <2>4. Total(ranks) \in Int
    BY <1>1, <2>3, TotalIsSummed, SumRemove
  <2> QED
    BY <2>1, <2>3, <2>4 DEF Deviations, ranks
<1>3. \A i \in 1..n : left[i] \in Int /\ right[i] \in Int
  BY <1>2
<1>4. l \in Nat /\ r \in Nat /\ c \in Int /\ c * c <= l * r
  BY <1>1, <1>3, CauchySchwarz
<1>5. spearman(labels, scores) =
         IF l * r = 0 THEN 0
         ELSE IF c < 0 THEN -NearestToRoot(-c, l * r) ELSE NearestToRoot(c, l * r)
  <2>1. \A f, g : Total(Product(f, g)) = Summed(Product(f, g), 1..n)
    BY <1>1, TotalIsSummed
  <2>2. spearman(labels, scores) =
           LET covariance == Total(Product(left, right))
               variances == Total(Product(left, left)) * Total(Product(right, right))
           IN  IF variances = 0 THEN 0
               ELSE IF covariance < 0 THEN -NearestToRoot(-covariance, variances)
               ELSE NearestToRoot(covariance, variances)
    BY Zenon DEF spearman
  <2> QED
    BY <2>1, <2>2, Zenon
<1> HIDE DEF c, l, r
<1>6. l * r \in Nat
  BY <1>4
<1>7. c < 0 /\ l * r # 0 => NearestToRoot(-c, l * r) \in 0..Scale
  BY <1>4, <1>6, RootBounds
<1>8. ~(c < 0) /\ l * r # 0 => NearestToRoot(c, l * r) \in 0..Scale
  BY <1>4, <1>6, RootBounds
<1>9. Scale \in Nat
  BY MetricsAssumption
<1> QED
  BY <1>5, <1>7, <1>8, <1>9

(* A sum of sums.                                                          *)
LEMMA SumPlus ==
  ASSUME NEW S, IsFiniteSet(S), NEW f, NEW g, NEW h,
         \A i \in S : f[i] \in Int /\ g[i] \in Int /\ h[i] = f[i] + g[i]
  PROVE  /\ Summed(f, S) \in Int /\ Summed(g, S) \in Int
         /\ Summed(h, S) = Summed(f, S) + Summed(g, S)
<1>1. PICK one \in Int : one = 1
  OBVIOUS
<1>2. \A i \in S : h[i] = one * f[i] + one * g[i]
  BY <1>1
<1>3. Summed(h, S) = one * Summed(f, S) + one * Summed(g, S)
  BY <1>2, SumLinear
<1>4. Summed(f, S) \in Int /\ Summed(g, S) \in Int
  BY SumRemove
<1> QED
  BY <1>1, <1>3, <1>4

(* A sum of differences.                                                   *)
LEMMA SumMinus ==
  ASSUME NEW S, IsFiniteSet(S), NEW f, NEW g, NEW h,
         \A i \in S : f[i] \in Int /\ g[i] \in Int /\ h[i] = f[i] - g[i]
  PROVE  /\ Summed(f, S) \in Int /\ Summed(g, S) \in Int
         /\ Summed(h, S) = Summed(f, S) - Summed(g, S)
<1>1. \A i \in S : g[i] \in Int /\ h[i] \in Int /\ f[i] = g[i] + h[i]
  OBVIOUS
<1>2. Summed(g, S) \in Int /\ Summed(h, S) \in Int /\ Summed(f, S) = Summed(g, S) + Summed(h, S)
  BY <1>1, SumPlus
<1> QED
  BY <1>2

(* A sum over one element.                                                 *)
LEMMA SumSingle ==
  ASSUME NEW f, NEW x, f[x] \in Int
  PROVE  Summed(f, {x}) = f[x]
<1>1. {} \cup {x} = {x} /\ x \notin {} /\ IsFiniteSet({})
  BY FS_EmptySet
<1>2. Summed(f, {} \cup {x}) = f[x] + Summed(f, {})
  BY <1>1, SumAdd
<1>3. Summed(f, {}) = 0
  BY SumEmpty
<1> QED
  BY <1>1, <1>2, <1>3

(* A sum may be taken bin by bin.                                          *)
LEMMA SumByBins ==
  ASSUME NEW S, IsFiniteSet(S), NEW K, IsFiniteSet(K), NEW bin \in [S -> K],
         NEW f, \A i \in S : f[i] \in Int,
         NEW part, \A b \in K : \A i \in S : part[b][i] = IF bin[i] = b THEN f[i] ELSE 0,
         NEW sums, \A b \in K : sums[b] = Summed(part[b], S)
  PROVE  /\ \A b \in K : sums[b] \in Int
         /\ Summed(sums, K) = Summed(f, S)
<1> DEFINE Sums(s) == [b \in K |-> Summed(part[b], s)]
           T == {s \in SUBSET S : Summed(Sums(s), K) = Summed(f, s)}
<1>1. \A b \in K : \A i \in S : part[b][i] \in Int
  OBVIOUS
<1>2. \A s \in SUBSET S : IsFiniteSet(s)
  BY FS_Subset
<1>3. \A s \in SUBSET S : \A b \in K : Sums(s)[b] \in Int
  BY <1>1, <1>2, SumRemove
<1>4. {} \in T
  <2>1. \A b \in K : Sums({})[b] = 0
    BY SumEmpty
  <2>2. Summed(Sums({}), K) = 0 * Cardinality(K)
    BY <2>1, SumConstant
  <2>3. Cardinality(K) \in Nat
    BY FS_CardinalityType
  <2> QED
    BY <2>2, <2>3, SumEmpty
<1>5. ASSUME NEW s \in SUBSET S, NEW x \in S \ s, s \in T PROVE s \cup {x} \in T
  <2> DEFINE more == [b \in K |-> IF bin[x] = b THEN f[x] ELSE 0]
  <2>1. Summed(more, K) = f[x]
    <3>1. /\ \A b \in K : more[b] \in Int
          /\ {bin[x]} \in SUBSET K /\ more[bin[x]] = f[x]
          /\ \A b \in K \ {bin[x]} : more[b] = 0
      OBVIOUS
    <3> HIDE DEF more
    <3>2. Summed(more, {bin[x]}) = Summed(more, K)
      BY <3>1, SumPart
    <3> QED
      BY <3>1, <3>2, SumSingle
  <2>2. \A b \in K : /\ more[b] \in Int /\ Sums(s)[b] \in Int
                     /\ Sums(s \cup {x})[b] = more[b] + Sums(s)[b]
    <3> SUFFICES ASSUME NEW b \in K
                 PROVE  /\ more[b] \in Int /\ Sums(s)[b] \in Int
                        /\ Sums(s \cup {x})[b] = more[b] + Sums(s)[b]
      OBVIOUS
    <3>1. Summed(part[b], s \cup {x}) = part[b][x] + Summed(part[b], s)
          /\ Summed(part[b], s) \in Int
      BY <1>1, <1>2, SumAdd
    <3>2. part[b][x] = more[b] /\ more[b] \in Int
      OBVIOUS
    <3>3. Sums(s \cup {x})[b] = Summed(part[b], s \cup {x}) /\ Sums(s)[b] = Summed(part[b], s)
      OBVIOUS
    <3> HIDE DEF more, Sums
    <3> QED
      BY <3>1, <3>2, <3>3
  <2> DEFINE before == Sums(s)
             after == Sums(s \cup {x})
  <2>3. \A b \in K : more[b] \in Int /\ before[b] \in Int /\ after[b] = more[b] + before[b]
    BY <2>2
  <2> HIDE DEF more, before, after
  <2>3a. Summed(after, K) = Summed(more, K) + Summed(before, K)
    BY <2>3, SumPlus
  <2>4. Summed(f, s \cup {x}) = f[x] + Summed(f, s) /\ Summed(f, s) \in Int /\ f[x] \in Int
    BY <1>2, SumAdd
  <2>5. Summed(Sums(s), K) = Summed(f, s)
    BY <1>5
  <2>6. Summed(Sums(s \cup {x}), K) = Summed(f, s \cup {x})
    BY <2>1, <2>3a, <2>4, <2>5 DEF before, after
  <2> QED
    BY <2>6
<1> HIDE DEF T
<1>6. SUBSET S \subseteq T
  BY <1>4, <1>5, SubsetInduction
<1>7. Summed(Sums(S), K) = Summed(f, S)
  BY <1>6 DEF T
<1>8. \A b \in K : Sums(S)[b] = sums[b] /\ Sums(S)[b] \in Int
  BY <1>3
<1> HIDE DEF Sums
<1>9. Summed(Sums(S), K) = Summed(sums, K)
  BY <1>8, SumSame
<1> QED
  BY <1>7, <1>8, <1>9

(* The sum over the bins lies between the distance of the totals and the   *)
(* sum of the distances.                                                   *)
LEMMA BinnedDistance ==
  ASSUME NEW S, IsFiniteSet(S), NEW K, IsFiniteSet(K), NEW bin \in [S -> K],
         NEW f, \A i \in S : f[i] \in Int,
         NEW part, \A b \in K : \A i \in S : part[b][i] = IF bin[i] = b THEN f[i] ELSE 0,
         NEW sums, \A b \in K : sums[b] = Summed(part[b], S),
         NEW sizes, \A b \in K : sizes[b] = Magnitude(sums[b]),
         NEW g, \A i \in S : g[i] = Magnitude(f[i])
  PROVE  /\ \A b \in K : sums[b] \in Int
         /\ Magnitude(Summed(f, S)) <= Summed(sizes, K)
         /\ Summed(sizes, K) <= Summed(g, S)
         /\ Summed(sizes, K) \in Nat /\ Summed(g, S) \in Nat
<1> DEFINE gpart == [b \in K |-> [i \in S |-> IF bin[i] = b THEN g[i] ELSE 0]]
           gsums == [b \in K |-> Summed(gpart[b], S)]
<1>2. /\ \A b \in K : \A i \in S : gpart[b][i] = IF bin[i] = b THEN g[i] ELSE 0
      /\ \A b \in K : gsums[b] = Summed(gpart[b], S)
  OBVIOUS
<1>3. \A i \in S : g[i] \in Nat /\ g[i] \in Int
  BY DEF Magnitude
<1>4. \A b \in K : \A i \in S : part[b][i] \in Int /\ gpart[b][i] = Magnitude(part[b][i])
  BY <1>2 DEF Magnitude
<1> HIDE DEF gpart, gsums
<1>5. (\A b \in K : sums[b] \in Int) /\ Summed(sums, K) = Summed(f, S)
  BY SumByBins
<1>6. (\A b \in K : gsums[b] \in Int) /\ Summed(gsums, K) = Summed(g, S)
  BY <1>2, <1>3, SumByBins, SMTT(60)
<1>7. \A b \in K : Magnitude(Summed(part[b], S)) <= Summed(gpart[b], S)
  BY <1>4, SumMagnitude
<1>8. \A b \in K : sizes[b] \in Int /\ sizes[b] >= 0 /\ sizes[b] <= gsums[b]
  BY <1>2, <1>5, <1>7 DEF Magnitude
<1>9. Magnitude(Summed(sums, K)) <= Summed(sizes, K)
  BY <1>5, SumMagnitude
<1>10. Summed(sizes, K) <= Summed(gsums, K)
  BY <1>6, <1>8, SumAtMost
<1>11. Summed(sizes, K) \in Int /\ Summed(g, S) \in Int /\ Summed(sums, K) \in Int
  BY <1>3, <1>5, <1>8, SumRemove
<1>12. Magnitude(Summed(sums, K)) \in Nat
  BY <1>11 DEF Magnitude
<1>13. Summed(sizes, K) \in Nat /\ Summed(g, S) \in Nat
  BY <1>6, <1>9, <1>10, <1>11, <1>12
<1> QED
  BY <1>5, <1>6, <1>9, <1>10, <1>13

(* What calibration_error divides by the size of the data.                 *)
Binned(labels, scores, bins) ==
    LET Of(values, b) == Total([i \in DOMAIN values |->
                                   IF Bin(scores[i], bins) = b THEN values[i] ELSE 0])
    IN  Total([b \in 0..(bins - 1) |-> Magnitude(Of(scores, b) - Of(labels, b))])

Distances(labels, scores) == [i \in DOMAIN labels |-> Magnitude(labels[i] - scores[i])]

(* The binned error is between the error of one bin and that of a bin per  *)
(* record.                                                                 *)
LEMMA BinnedBetween ==
  ASSUME NEW n \in Nat \ {0}, NEW labels \in ScoreSeq(n), NEW scores \in ScoreSeq(n),
         NEW bins \in Nat \ {0}
  PROVE  /\ Binned(labels, scores, bins) \in Nat /\ Total(Distances(labels, scores)) \in Nat
         /\ Total(scores) \in Int /\ Total(labels) \in Int
         /\ Magnitude(Total(scores) - Total(labels)) <= Binned(labels, scores, bins)
         /\ Binned(labels, scores, bins) <= Total(Distances(labels, scores))
         /\ Total(Distances(labels, scores)) <= TopScore * n
<1> DEFINE S == 1..n
           K == 0..(bins - 1)
           bin == [i \in S |-> Bin(scores[i], bins)]
           f == [i \in S |-> scores[i] - labels[i]]
           Part(values, b) == [i \in S |-> IF bin[i] = b THEN values[i] ELSE 0]
           part == [b \in K |-> Part(f, b)]
           sums == [b \in K |-> Summed(part[b], S)]
           sizes == [b \in K |-> Magnitude(sums[b])]
           g == Distances(labels, scores)
<1>1. DOMAIN labels = S /\ DOMAIN scores = S /\ IsFiniteSet(S) /\ IsFiniteSet(K)
  BY ScoreSeqFacts, FS_Interval
<1>2. \A i \in S : labels[i] \in 0..TopScore /\ scores[i] \in 0..TopScore
  BY DEF ScoreSeq
<1>3. bin \in [S -> K]
  <2> SUFFICES ASSUME NEW i \in S PROVE Bin(scores[i], bins) \in K
    OBVIOUS
  <2>1. scores[i] * bins \in Nat
    BY <1>2 DEF TopScore
  <2>2. (scores[i] * bins) \div TopScore \in Nat
    BY <2>1 DEF TopScore
  <2> QED
    BY <2>2 DEF Bin, MinOf
<1>4. \A i \in S : /\ f[i] \in Int /\ g[i] = Magnitude(f[i])
                   /\ g[i] \in Int /\ 0 <= g[i] /\ g[i] <= TopScore
                   /\ scores[i] \in Int /\ labels[i] \in Int /\ f[i] = scores[i] - labels[i]
  <2>1. \A a, b \in 0..TopScore :
           /\ b - a \in Int /\ Magnitude(a - b) = Magnitude(b - a)
           /\ Magnitude(a - b) \in Int /\ 0 <= Magnitude(a - b) /\ Magnitude(a - b) <= TopScore
    BY DEF Magnitude, TopScore
  <2>2. \A i \in S : f[i] = scores[i] - labels[i] /\ g[i] = Magnitude(labels[i] - scores[i])
    BY <1>1 DEF Distances
  <2>3. \A a \in 0..TopScore : a \in Int
    OBVIOUS
  <2> HIDE DEF f, g, S
  <2> QED
    BY <1>2, <2>1, <2>2, <2>3
<1>5. \A b \in K : Summed(Part(f, b), S) = Summed(Part(scores, b), S) - Summed(Part(labels, b), S)
  <2> SUFFICES ASSUME NEW b \in K
               PROVE  Summed(Part(f, b), S) = Summed(Part(scores, b), S) - Summed(Part(labels, b), S)
    OBVIOUS
  <2>1. \A i \in S : /\ Part(labels, b)[i] \in Int /\ Part(scores, b)[i] \in Int
                     /\ Part(f, b)[i] = Part(scores, b)[i] - Part(labels, b)[i]
    BY <1>4
  <2> DEFINE fb == Part(f, b)
             sb == Part(scores, b)
             lb == Part(labels, b)
  <2>2. \A i \in S : sb[i] \in Int /\ lb[i] \in Int /\ fb[i] = sb[i] - lb[i]
    BY <2>1
  <2> HIDE DEF fb, sb, lb, S
  <2>3. Summed(fb, S) = Summed(sb, S) - Summed(lb, S)
    BY <1>1, <2>2, SumMinus
  <2> QED
    BY <2>3 DEF fb, sb, lb
<1>6. Summed(f, S) = Summed(scores, S) - Summed(labels, S)
      /\ Summed(labels, S) \in Int /\ Summed(scores, S) \in Int
  <2> HIDE DEF f, S
  <2>1. \A i \in S : scores[i] \in Int /\ labels[i] \in Int /\ f[i] = scores[i] - labels[i]
    BY <1>4
  <2> QED
    BY <1>1, <2>1, SumMinus
<1>7. /\ Total(scores) = Summed(scores, S) /\ Total(labels) = Summed(labels, S)
      /\ Total(g) = Summed(g, S)
  BY <1>1, TotalIsSummed DEF Distances
<1>8. Binned(labels, scores, bins) = Summed(sizes, K)
  <2> DEFINE Of(values, b) == Total([i \in DOMAIN values |->
                                       IF Bin(scores[i], bins) = b THEN values[i] ELSE 0])
             size == [b \in K |-> Magnitude(Of(scores, b) - Of(labels, b))]
  <2>1. ASSUME NEW b, NEW values, DOMAIN values = S
        PROVE  Of(values, b) = Summed(Part(values, b), S)
    <3>1. [i \in DOMAIN values |-> IF Bin(scores[i], bins) = b THEN values[i] ELSE 0]
              = Part(values, b)
      BY <2>1
    <3>2. DOMAIN Part(values, b) = S
      OBVIOUS
    <3> HIDE DEF Part
    <3> QED
      BY <3>1, <3>2, TotalIsSummed
  <2>2. \A b \in K : Of(scores, b) - Of(labels, b) = sums[b]
    <3> HIDE DEF Of, Part
    <3> QED
      BY <1>1, <1>5, <2>1
  <2>3. size = sizes
    BY <2>2
  <2>4. Binned(labels, scores, bins) = Total(size)
    BY DEF Binned
  <2>5. Total(sizes) = Summed(sizes, K)
    BY TotalIsSummed
  <2> QED
    BY <2>3, <2>4, <2>5
<1>9. /\ \A b \in K : \A i \in S : part[b][i] = IF bin[i] = b THEN f[i] ELSE 0
      /\ \A b \in K : sums[b] = Summed(part[b], S)
      /\ \A b \in K : sizes[b] = Magnitude(sums[b])
      /\ \A i \in S : g[i] = Magnitude(f[i])
  BY <1>4
<1> HIDE DEF bin, f, part, sums, sizes, g, S, K
<1>10. /\ Magnitude(Summed(f, S)) <= Summed(sizes, K)
       /\ Summed(sizes, K) <= Summed(g, S)
       /\ Summed(sizes, K) \in Nat /\ Summed(g, S) \in Nat
  BY <1>1, <1>3, <1>4, <1>9, BinnedDistance, SMTT(60)
<1>11. Summed(g, S) <= TopScore * n
  <2>1. Cardinality(S) = n
    BY ScoreSeqFacts DEF S
  <2>2. TopScore \in Int /\ \E low \in Int : low = 0
    BY DEF TopScore
  <2>3. PICK low \in Int : low = 0
    BY <2>2
  <2>4. \A i \in S : low <= g[i]
    BY <1>4, <2>3
  <2>5. Summed(g, S) <= TopScore * Cardinality(S)
    BY <1>1, <1>4, <2>2, <2>4, SumBetween
  <2> QED
    BY <2>1, <2>5
<1>12. Total(scores) - Total(labels) = Summed(f, S)
  BY <1>6, <1>7
<1> QED
  BY <1>6, <1>7, <1>8, <1>10, <1>11, <1>12 DEF g

(* The calibration error is between 0 and 1 for every number of bins       *)
(* (metrics.calibration_error).                                            *)
LEMMA CalibrationRange ==
  ASSUME NEW n \in Nat \ {0}, NEW labels \in ScoreSeq(n), NEW scores \in ScoreSeq(n),
         NEW bins \in Nat \ {0}
  PROVE  calibration_error(labels, scores, bins) \in 0..Scale
<1>1. calibration_error(labels, scores, bins) = quantize(Binned(labels, scores, bins), TopScore * n)
  BY ScoreSeqFacts DEF calibration_error, Binned
<1>2. Binned(labels, scores, bins) \in Nat /\ Binned(labels, scores, bins) <= TopScore * n
  BY BinnedBetween DEF TopScore
<1>3. TopScore * n \in Nat /\ TopScore * n > 0 /\ 1 * (TopScore * n) = TopScore * n
  BY DEF TopScore
<1>4. quantize(Binned(labels, scores, bins), TopScore * n) \in 0..(1 * Scale)
  BY <1>2, <1>3, QuantizeBounds
<1> QED
  BY <1>1, <1>4, MetricsAssumption

(* A strict total order on a finite set: below[x] is what lies before x.   *)
StrictOrder(below, S) ==
    /\ \A x \in S : below[x] \in SUBSET S /\ x \notin below[x]
    /\ \A x, y \in S : x = y \/ x \in below[y] \/ y \in below[x]
    /\ \A x, y \in S : x \in below[y] => below[x] \subseteq below[y]

(* Under a strict total order the number of elements below one numbers     *)
(* the elements, from 0 without a gap.                                     *)
LEMMA Places ==
  ASSUME NEW S, IsFiniteSet(S), NEW below, StrictOrder(below, S)
  PROVE  /\ Cardinality(S) \in Nat
         /\ \A x \in S : Cardinality(below[x]) \in 0..(Cardinality(S) - 1)
         /\ \A x, y \in S : x \in below[y] <=> Cardinality(below[x]) < Cardinality(below[y])
         /\ \A k \in 0..(Cardinality(S) - 1) : \E x \in S : Cardinality(below[x]) = k
<1> DEFINE place == [x \in S |-> Cardinality(below[x])]
           n == Cardinality(S)
<1>1. n \in Nat
  BY FS_CardinalityType
<1>2. \A x \in S : IsFiniteSet(below[x]) /\ below[x] \in SUBSET S /\ x \notin below[x]
  BY FS_Subset DEF StrictOrder
<1>3. \A x, y \in S : x \in below[y] => place[x] < place[y]
  <2> SUFFICES ASSUME NEW x \in S, NEW y \in S, x \in below[y] PROVE place[x] < place[y]
    OBVIOUS
  <2>1. below[x] \in SUBSET below[y] /\ below[x] # below[y]
    BY <1>2 DEF StrictOrder
  <2>2. Cardinality(below[x]) <= Cardinality(below[y])
        /\ Cardinality(below[x]) # Cardinality(below[y])
    BY <1>2, <2>1, FS_Subset
  <2>3. Cardinality(below[x]) \in Nat /\ Cardinality(below[y]) \in Nat
    BY <1>2, FS_CardinalityType
  <2> QED
    BY <2>2, <2>3
<1>4. \A x \in S : place[x] \in 0..(n - 1)
  <2> SUFFICES ASSUME NEW x \in S PROVE Cardinality(below[x]) \in 0..(n - 1)
    OBVIOUS
  <2>1. Cardinality(below[x]) \in Nat /\ Cardinality(below[x]) <= n /\ Cardinality(below[x]) # n
    BY <1>2, FS_Subset, FS_CardinalityType
  <2> QED
    BY <1>1, <2>1
<1>5. \A x, y \in S : x \in below[y] <=> place[x] < place[y]
  <2> SUFFICES ASSUME NEW x \in S, NEW y \in S, place[x] < place[y] PROVE x \in below[y]
    BY <1>3
  <2>1. place[x] \in Int /\ place[y] \in Int
    BY <1>4
  <2>2. x # y /\ y \notin below[x]
    BY <1>3, <2>1
  <2> QED
    BY <2>2 DEF StrictOrder
<1>6. place \in Injection(S, 0..(n - 1))
  <2>1. place \in [S -> 0..(n - 1)]
    BY <1>4
  <2>2. ASSUME NEW x \in S, NEW y \in S, place[x] = place[y] PROVE x = y
    BY <1>3, <1>4, <2>2 DEF StrictOrder
  <2> HIDE DEF place, n
  <2> QED
    BY <2>1, <2>2, Fun_IsInj
<1>7. IsFiniteSet(0..(n - 1)) /\ Cardinality(0..(n - 1)) = n
  BY <1>1, FS_Interval
<1>8. place \in Surjection(S, 0..(n - 1))
  BY <1>6, <1>7, FS_Injection
<1>9. \A k \in 0..(n - 1) : \E x \in S : place[x] = k
  BY <1>8 DEF Surjection
<1> QED
  BY <1>1, <1>4, <1>5, <1>9

Placed(below, S) ==
    [r \in 1..Cardinality(S) |-> CHOOSE x \in S : Cardinality(below[x]) = r - 1]

(* What is arranged is every element once, in the order.                   *)
LEMMA ArrangedInOrder ==
  ASSUME NEW S, IsFiniteSet(S), NEW below, StrictOrder(below, S),
         NEW arr, arr = Placed(below, S)
  PROVE  /\ Cardinality(S) \in Nat
         /\ arr \in [1..Cardinality(S) -> S]
         /\ \A r, t \in 1..Cardinality(S) : r < t <=> arr[r] \in below[arr[t]]
         /\ \A r, t \in 1..Cardinality(S) : arr[r] = arr[t] => r = t
         /\ \A x \in S : \E r \in 1..Cardinality(S) : arr[r] = x
<1> DEFINE n == Cardinality(S)
<1>1. n \in Nat
  BY Places
<1>2. \A r \in 1..n : arr[r] \in S /\ Cardinality(below[arr[r]]) = r - 1
  <2> SUFFICES ASSUME NEW r \in 1..n
               PROVE  arr[r] \in S /\ Cardinality(below[arr[r]]) = r - 1
    OBVIOUS
  <2>1. r - 1 \in 0..(n - 1)
    BY <1>1
  <2>2. \E x \in S : Cardinality(below[x]) = r - 1
    BY <2>1, Places
  <2>3. arr[r] = CHOOSE x \in S : Cardinality(below[x]) = r - 1
    BY DEF Placed
  <2> QED
    BY <2>2, <2>3
<1>3. \A r, t \in 1..n : r < t <=> arr[r] \in below[arr[t]]
  <2> SUFFICES ASSUME NEW r \in 1..n, NEW t \in 1..n
               PROVE  r < t <=> arr[r] \in below[arr[t]]
    OBVIOUS
  <2>1. arr[r] \in below[arr[t]] <=> Cardinality(below[arr[r]]) < Cardinality(below[arr[t]])
    BY <1>2, Places
  <2>2. arr[r] \in below[arr[t]] <=> r - 1 < t - 1
    BY <1>2, <2>1
  <2> QED
    BY <1>1, <2>2
<1>4. \A r, t \in 1..n : arr[r] = arr[t] => r = t
  BY <1>1, <1>2
<1>5. ASSUME NEW x \in S PROVE \E r \in 1..n : arr[r] = x
  <2>1. Cardinality(below[x]) \in 0..(n - 1)
    BY Places
  <2> DEFINE r == Cardinality(below[x]) + 1
  <2>2. r \in 1..n /\ Cardinality(below[x]) = r - 1
    BY <1>1, <2>1
  <2> HIDE DEF r
  <2>3. Cardinality(below[arr[r]]) = Cardinality(below[x]) /\ arr[r] \in S
    BY <1>2, <2>2
  <2>4. arr[r] \notin below[x] /\ x \notin below[arr[r]]
    BY <2>1, <2>3, Places
  <2>5. arr[r] = x
    BY <2>3, <2>4 DEF StrictOrder
  <2> QED
    BY <2>2, <2>5
<1>6. arr \in [1..n -> S]
  BY <1>2 DEF Placed
<1> QED
  BY <1>1, <1>3, <1>4, <1>5, <1>6

(* A ranking holds every position once, highest value first (the sort of   *)
(* metrics._dcg).                                                          *)
LEMMA RankedInOrder ==
  ASSUME NEW n \in Nat \ {0}, NEW values \in ScoreSeq(n)
  PROVE  /\ Ranked(values) \in [1..n -> 1..n]
         /\ \A r, t \in 1..n : Ranked(values)[r] = Ranked(values)[t] => r = t
         /\ \A x \in 1..n : \E r \in 1..n : Ranked(values)[r] = x
         /\ \A r, t \in 1..n : r < t => values[Ranked(values)[t]] <= values[Ranked(values)[r]]
<1> DEFINE S == 1..n
           below == [i \in S |-> {j \in S : values[j] > values[i] \/ (values[j] = values[i] /\ j < i)}]
           order == Ranked(values)
<1>1. DOMAIN values = S /\ IsFiniteSet(S) /\ Cardinality(S) = n /\ \A i \in S : values[i] \in Int
  BY ScoreSeqFacts
<1>2. StrictOrder(below, S)
  <2>1. \A i \in S : below[i] \in SUBSET S /\ i \notin below[i]
    BY <1>1
  <2>2. \A i, j \in S : i = j \/ i \in below[j] \/ j \in below[i]
    BY <1>1
  <2>3. \A i, j \in S : i \in below[j] => below[i] \subseteq below[j]
    BY <1>1
  <2> QED
    BY <2>1, <2>2, <2>3 DEF StrictOrder
<1>3. order = Placed(below, S)
  <2> DEFINE Before(i, j) == values[i] > values[j] \/ (values[i] = values[j] /\ i < j)
  <2>1. order = [r \in 1..Cardinality(S) |->
                    CHOOSE i \in S : Cardinality({j \in S : Before(j, i)}) = r - 1]
    BY <1>1 DEF Ranked, Arranged
  <2>2. \A i \in S : {j \in S : Before(j, i)} = below[i]
    OBVIOUS
  <2> DEFINE A(r) == CHOOSE i \in S : Cardinality({j \in S : Before(j, i)}) = r - 1
             B(r) == CHOOSE i \in S : Cardinality(below[i]) = r - 1
  <2> HIDE DEF S, Before, order, below
  <2>3. \A r : A(r) = B(r)
    BY <2>2
  <2>4. order = [r \in 1..Cardinality(S) |-> A(r)]
    BY <2>1, Zenon
  <2> HIDE DEF A, B
  <2>5. order = [r \in 1..Cardinality(S) |-> B(r)]
    BY <2>3, <2>4
  <2> QED
    BY <2>5 DEF B, Placed
<1> HIDE DEF S, order, below
<1>4. /\ order \in [1..Cardinality(S) -> S]
      /\ \A r, t \in 1..Cardinality(S) : r < t <=> order[r] \in below[order[t]]
      /\ \A r, t \in 1..Cardinality(S) : order[r] = order[t] => r = t
      /\ \A i \in S : \E r \in 1..Cardinality(S) : order[r] = i
  <2>1. IsFiniteSet(S)
    BY <1>1
  <2> QED
    BY <2>1, <1>2, <1>3, ArrangedInOrder
<1>5. \A i, j \in S : j \in below[i] => values[i] <= values[j]
  BY <1>1 DEF below, S
<1> QED
  BY <1>1, <1>4, <1>5 DEF order, S

(* Weights that do not increase keep a sum with no negative partial sum    *)
(* from being negative.                                                    *)
LEMMA WeightedNotNegative ==
  ASSUME NEW k \in Nat, NEW c, NEW d, NEW cd,
         \A r \in 1..k : c[r] \in Int /\ d[r] \in Nat /\ cd[r] = c[r] * d[r],
         \A r, t \in 1..k : r <= t => d[t] <= d[r],
         \A j \in 1..k : Summed(c, 1..j) >= 0
  PROVE  Summed(cd, 1..k) >= 0
<1> DEFINE T == {j \in Nat : 1 <= j /\ j <= k => Summed(cd, 1..j) >= d[j] * Summed(c, 1..j)}
<1>1. 0 \in T
  OBVIOUS
<1>2. ASSUME NEW j \in Nat, j \in T PROVE j + 1 \in T
  <2> SUFFICES ASSUME j + 1 <= k
               PROVE  Summed(cd, 1..(j + 1)) >= d[j + 1] * Summed(c, 1..(j + 1))
    OBVIOUS
  <2> DEFINE C == Summed(c, 1..j)
             CD == Summed(cd, 1..j)
             x == j + 1
  <2>1. 1..(j + 1) = (1..j) \cup {x} /\ x \notin 1..j /\ IsFiniteSet(1..j) /\ x \in 1..k
    BY FS_Interval
  <2>2. \A r \in (1..j) \cup {x} : c[r] \in Int /\ cd[r] \in Int
    OBVIOUS
  <2>3. /\ Summed(c, (1..j) \cup {x}) = c[x] + C /\ C \in Int
        /\ Summed(cd, (1..j) \cup {x}) = cd[x] + CD /\ CD \in Int
    BY <2>1, <2>2, SumAdd
  <2>4. c[x] \in Int /\ d[x] \in Nat /\ cd[x] = c[x] * d[x]
    BY <2>1
  <2>5. CD >= d[x] * C
    <3>1. CASE j = 0
      <4>1. 1..j = {}
        BY <3>1
      <4>2. C = 0 /\ CD = 0
        BY <4>1, SumEmpty
      <4> HIDE DEF C, CD, x
      <4> QED
        BY <2>4, <4>2
    <3>2. CASE j # 0
      <4>1. C >= 0 /\ d[x] <= d[j] /\ CD >= d[j] * C /\ d[j] \in Nat
        BY <1>2, <3>2
      <4> HIDE DEF C, CD, x
      <4>2. d[x] * C <= d[j] * C
        BY <2>3, <2>4, <4>1
      <4>3. d[x] * C \in Int /\ d[j] * C \in Int
        BY <2>3, <2>4, <4>1
      <4> QED
        BY <2>3, <4>1, <4>2, <4>3
    <3> QED
      BY <3>1, <3>2
  <2> HIDE DEF C, CD, x
  <2>6. cd[x] + CD >= d[x] * (c[x] + C)
    <3>1. d[x] * (c[x] + C) = c[x] * d[x] + d[x] * C
      BY <2>3, <2>4
    <3> QED
      BY <2>3, <2>4, <2>5, <3>1
  <2> QED
    BY <2>1, <2>3, <2>6 DEF x
<1> HIDE DEF T
<1>3. k \in T
  BY <1>1, <1>2, NumberInduction
<1>4. CASE k = 0
  <2>1. 1..k = {}
    BY <1>4
  <2> QED
    BY <2>1, SumEmpty, SMTT(30)
<1>5. CASE k # 0
  <2>1. Summed(cd, 1..k) >= d[k] * Summed(c, 1..k)
    BY <1>3, <1>5 DEF T
  <2>2. k \in 1..k /\ IsFiniteSet(1..k)
    BY <1>5, FS_Interval
  <2>3. Summed(cd, 1..k) \in Int /\ Summed(c, 1..k) \in Int
    BY <2>2, SumRemove, SMTT(30)
  <2>4. d[k] \in Nat /\ Summed(c, 1..k) >= 0
    BY <2>2
  <2>5. d[k] * Summed(c, 1..k) >= 0 /\ d[k] * Summed(c, 1..k) \in Int
    BY <2>3, <2>4
  <2> QED
    BY <2>1, <2>3, <2>5
<1> QED
  BY <1>4, <1>5

(* i puts the largest of v into R, and o puts no member there twice.       *)
Leading(N, R, v, i, o, least, a, b) ==
    /\ least \in Int
    /\ \A x \in N : v[x] \in Int
    /\ \A r \in N : i[r] \in N
    /\ \A r, t \in N : i[r] = i[t] => r = t
    /\ \A x \in N : \E r \in N : i[r] = x
    /\ \A r \in R : o[r] \in N
    /\ \A r, t \in R : o[r] = o[t] => r = t
    /\ \A r \in R : v[i[r]] >= least
    /\ \A r \in N \ R : v[i[r]] <= least
    /\ \A r \in R : a[r] = v[o[r]] /\ b[r] = v[i[r]]

(* The values o puts into R have no larger sum than those i puts there.    *)
LEMMA LeadingSum ==
  ASSUME NEW N, IsFiniteSet(N), NEW R \in SUBSET N, IsFiniteSet(R),
         NEW v, NEW i, NEW o, NEW least, NEW a, NEW b, Leading(N, R, v, i, o, least, a, b)
  PROVE  Summed(a, R) \in Int /\ Summed(b, R) \in Int /\ Summed(a, R) <= Summed(b, R)
<1> DEFINE excess == [x \in N |-> IF v[x] > least THEN v[x] - least ELSE 0]
           ea == [r \in R |-> excess[o[r]]]
           eb == [r \in N |-> excess[i[r]]]
           flat == [r \in R |-> least]
<1>1. \A x \in N : /\ excess[x] \in Int /\ excess[x] >= 0 /\ v[x] <= excess[x] + least
                   /\ v[x] <= least => excess[x] = 0
                   /\ v[x] >= least => v[x] = excess[x] + least
  BY DEF Leading
<1>2. \A r \in R : ea[r] = excess[o[r]] /\ flat[r] = least
  OBVIOUS
<1>3. \A r \in N : eb[r] = excess[i[r]]
  OBVIOUS
<1> HIDE DEF excess, ea, eb, flat
<1>3a. PICK af : \A r \in R : af[r] = excess[o[r]] + least
  <2>1. \A r \in R : [x \in R |-> excess[o[x]] + least][r] = excess[o[r]] + least
    OBVIOUS
  <2> QED
    BY <2>1
<1>4. Summed(ea, R) <= Summed(excess, N)
  <2> DEFINE Q == {o[r] : r \in R}
  <2>1. \A r \in R : excess[o[r]] \in Int /\ ea[r] = excess[o[r]]
    BY <1>1, <1>2 DEF Leading
  <2>1a. \A r, t \in R : o[r] = o[t] => r = t
    BY DEF Leading
  <2>2. Summed(ea, R) = Summed(excess, Q)
    BY <2>1, <2>1a, SumRenamed
  <2>3. Q \in SUBSET N
    BY DEF Leading
  <2>4. \A x \in N : excess[x] \in Int
    BY <1>1
  <2>5. \A x \in N \ Q : excess[x] >= 0
    BY <1>1
  <2> HIDE DEF Q
  <2>6. Summed(excess, Q) <= Summed(excess, N)
    BY <2>3, <2>4, <2>5, SumPart
  <2> QED
    BY <2>2, <2>6
<1>5. Summed(eb, N) = Summed(excess, N)
  <2>1. \A r \in N : excess[i[r]] \in Int /\ eb[r] = excess[i[r]]
    BY <1>1, <1>3 DEF Leading
  <2>1a. \A r, t \in N : i[r] = i[t] => r = t
    BY DEF Leading
  <2>2. {i[r] : r \in N} = N
    BY DEF Leading
  <2>3. Summed(eb, N) = Summed(excess, {i[r] : r \in N})
    BY <2>1, <2>1a, SumRenamed
  <2> QED
    BY <2>2, <2>3
<1>6. Summed(eb, R) = Summed(eb, N)
  <2>1. \A r \in N : eb[r] \in Int
    BY <1>1, <1>3 DEF Leading
  <2>2. \A r \in N \ R : eb[r] = 0
    BY <1>1, <1>3 DEF Leading
  <2> QED
    BY <2>1, <2>2, SumPart
<1>7. Summed(b, R) = Summed(eb, R) + Summed(flat, R)
      /\ Summed(eb, R) \in Int /\ Summed(flat, R) \in Int
  <2>1. \A r \in R : b[r] = v[i[r]] /\ v[i[r]] >= least /\ i[r] \in N /\ eb[r] = excess[i[r]]
    BY <1>3 DEF Leading
  <2>2. \A r \in R : eb[r] \in Int /\ flat[r] \in Int /\ b[r] = eb[r] + flat[r]
    BY <1>1, <1>2, <2>1 DEF Leading
  <2> QED
    BY <2>2, SumPlus, ZenonT(60)
<1>8. Summed(ea, R) \in Int /\ Summed(flat, R) \in Int
      /\ Summed(af, R) = Summed(ea, R) + Summed(flat, R)
  <2>1. \A r \in R : ea[r] \in Int /\ flat[r] \in Int /\ af[r] = ea[r] + flat[r]
    BY <1>1, <1>2, <1>3a DEF Leading
  <2> QED
    BY <2>1, SumPlus
<1>9. Summed(a, R) <= Summed(af, R) /\ Summed(a, R) \in Int
  <2>1. \A r \in R : a[r] = v[o[r]] /\ o[r] \in N /\ af[r] = excess[o[r]] + least
    BY <1>3a DEF Leading
  <2>2. \A r \in R : a[r] \in Int /\ af[r] \in Int /\ a[r] <= af[r]
    BY <1>1, <2>1 DEF Leading
  <2>3. Summed(a, R) <= Summed(af, R)
    BY <2>2, SumAtMost
  <2>4. Summed(a, R) \in Int
    BY <2>2, SumRemove
  <2> QED
    BY <2>3, <2>4
<1>10. Summed(af, R) \in Int
  BY <1>7, <1>8
<1> QED
  BY <1>4, <1>5, <1>6, <1>7, <1>8, <1>9, <1>10

(* The labels in the order of a ranking.                                   *)
Gains(labels, order) == [r \in DOMAIN labels |-> labels[order[r]]]

(* No ranking has a larger sum of first labels than that by the labels.    *)
LEMMA BestFirst ==
  ASSUME NEW n \in Nat \ {0}, NEW labels \in ScoreSeq(n), NEW scores \in ScoreSeq(n)
  PROVE  \A j \in 1..n : Summed(Gains(labels, Ranked(scores)), 1..j)
                            <= Summed(Gains(labels, Ranked(labels)), 1..j)
<1> SUFFICES ASSUME NEW j \in 1..n
             PROVE  Summed(Gains(labels, Ranked(scores)), 1..j)
                      <= Summed(Gains(labels, Ranked(labels)), 1..j)
  OBVIOUS
<1> DEFINE i == Ranked(labels)
           o == Ranked(scores)
           a == Gains(labels, o)
           b == Gains(labels, i)
<1>0. /\ \A r \in 1..n : a[r] = labels[o[r]] /\ b[r] = labels[i[r]]
  BY ScoreSeqFacts DEF Gains
<1>0a. Ranked(scores) \in [1..n -> 1..n]
       /\ \A r, t \in 1..n : Ranked(scores)[r] = Ranked(scores)[t] => r = t
  BY RankedInOrder
<1>0b. \A r \in 1..n : o[r] \in 1..n
  BY <1>0a
<1>0c. \A r, t \in 1..n : o[r] = o[t] => r = t
  BY <1>0a
<1> DEFINE R == 1..j
           N == 1..n
           least == labels[i[j]]
<1>1. IsFiniteSet(R) /\ IsFiniteSet(N)
  BY FS_Interval
<1>2. R \in SUBSET N
  OBVIOUS
<1>3. \A x \in N : labels[x] \in Int
  BY ScoreSeqFacts
<1>4a. /\ Ranked(labels) \in [1..n -> 1..n]
       /\ \A r, t \in 1..n : Ranked(labels)[r] = Ranked(labels)[t] => r = t
       /\ \A x \in 1..n : \E r \in 1..n : Ranked(labels)[r] = x
       /\ \A r, t \in 1..n : r < t => labels[Ranked(labels)[t]] <= labels[Ranked(labels)[r]]
  BY RankedInOrder
<1>4b. \A r \in N : i[r] \in N
  BY <1>4a
<1>4c. \A r, t \in N : i[r] = i[t] => r = t
  BY <1>4a
<1>4d. \A x \in N : \E r \in N : i[r] = x
  BY <1>4a
<1>4e. \A r, t \in N : r < t => labels[i[t]] <= labels[i[r]]
  BY <1>4a
<1>4f. j \in N /\ (\A r \in R : r = j \/ r < j) /\ (\A r \in N \ R : j < r)
  OBVIOUS
<1> HIDE DEF i, o, a, b
<1>5. \A r \in R : o[r] \in N /\ a[r] = labels[o[r]] /\ b[r] = labels[i[r]]
  BY <1>0, <1>0b
<1>6. \A r, t \in R : o[r] = o[t] => r = t
  BY <1>0c
<1> DEFINE w == [r \in N |-> labels[i[r]]]
<1>6a. \A r \in N : w[r] = labels[i[r]] /\ w[r] \in Int
  BY <1>3, <1>4b
<1>6b. least = w[j]
  OBVIOUS
<1> HIDE DEF R, N, least, w
<1>6c. \A r, t \in N : r < t => w[t] <= w[r]
  BY <1>4e, <1>6a
<1>7. \A r \in R : labels[i[r]] >= least
  <2> SUFFICES ASSUME NEW r \in R PROVE w[r] >= w[j]
    BY <1>2, <1>6a, <1>6b
  <2> QED
    BY <1>2, <1>4f, <1>6a, <1>6c
<1>8. \A r \in N \ R : labels[i[r]] <= least
  <2> SUFFICES ASSUME NEW r \in N \ R PROVE w[r] <= w[j]
    BY <1>6a, <1>6b
  <2> QED
    BY <1>4f, <1>6c
<1>9. least \in Int
  BY <1>4f, <1>6a, <1>6b
<1>9b. \A r \in R : a[r] = labels[o[r]] /\ b[r] = labels[i[r]]
  BY <1>5
<1>9a. Leading(N, R, labels, i, o, least, a, b)
  BY <1>3, <1>4b, <1>4c, <1>4d, <1>5, <1>6, <1>7, <1>8, <1>9, <1>9b DEF Leading
<1>10. Summed(a, R) \in Int /\ Summed(b, R) \in Int /\ Summed(a, R) <= Summed(b, R)
  BY <1>1, <1>2, <1>9a, <1>9b, LeadingSum, SMTT(60)
<1> QED
  BY <1>10 DEF R, a, b, i, o

(* No sum of the first kk weighted terms is larger than that of the terms  *)
(* whose leading sums are the largest.                                     *)
LEMMA WeightedBest ==
  ASSUME NEW k \in Nat, NEW a, NEW b, NEW d, NEW da, NEW db,
         \A r \in 1..k : a[r] \in Nat /\ b[r] \in Nat /\ d[r] \in Nat,
         \A r \in 1..k : da[r] = a[r] * d[r],
         \A r \in 1..k : db[r] = b[r] * d[r],
         \A r, t \in 1..k : r <= t => d[t] <= d[r],
         \A j \in 1..k : Summed(a, 1..j) <= Summed(b, 1..j)
  PROVE  Summed(da, 1..k) \in Nat /\ Summed(db, 1..k) \in Nat /\ Summed(da, 1..k) <= Summed(db, 1..k)
<1> DEFINE K == 1..k
<1>0. IsFiniteSet(K) /\ \A j \in K : IsFiniteSet(1..j) /\ \A r \in 1..j : r \in K
  BY FS_Interval
<1>1. PICK c : \A r \in K : c[r] = b[r] - a[r]
  <2>1. \A r \in K : [x \in K |-> b[x] - a[x]][r] = b[r] - a[r]
    OBVIOUS
  <2> QED
    BY <2>1
<1>2. PICK dc : \A r \in K : dc[r] = c[r] * d[r]
  <2>1. \A r \in K : [x \in K |-> c[x] * d[x]][r] = c[r] * d[r]
    OBVIOUS
  <2> QED
    BY <2>1
<1>3. \A r \in K : /\ a[r] \in Int /\ b[r] \in Int /\ c[r] \in Int /\ d[r] \in Nat
                   /\ c[r] = b[r] - a[r] /\ dc[r] = c[r] * d[r]
  BY <1>1, <1>2
<1>4. \A r \in K : /\ da[r] \in Nat /\ db[r] \in Nat /\ dc[r] = db[r] - da[r]
  <2> SUFFICES ASSUME NEW r \in K PROVE /\ da[r] \in Nat /\ db[r] \in Nat /\ dc[r] = db[r] - da[r]
    OBVIOUS
  <2>1. \A x, y, z \in Nat : x * z \in Nat /\ y * z \in Nat /\ (y - x) * z = y * z - x * z
    OBVIOUS
  <2>2. a[r] \in Nat /\ b[r] \in Nat /\ d[r] \in Nat /\ da[r] = a[r] * d[r] /\ db[r] = b[r] * d[r]
        /\ dc[r] = (b[r] - a[r]) * d[r]
    BY <1>3
  <2> QED
    BY <2>1, <2>2
<1> HIDE DEF K
<1>5. \A j \in K : Summed(c, 1..j) >= 0
  <2> SUFFICES ASSUME NEW j \in K PROVE Summed(c, 1..j) >= 0
    OBVIOUS
  <2> DEFINE J == 1..j
  <2>1. IsFiniteSet(J) /\ (\A r \in J : r \in K) /\ Summed(a, J) <= Summed(b, J)
    BY <1>0 DEF K
  <2> HIDE DEF J
  <2>2. \A r \in J : b[r] \in Int /\ a[r] \in Int /\ c[r] = b[r] - a[r]
    BY <1>3, <2>1
  <2>3. /\ Summed(b, J) \in Int /\ Summed(a, J) \in Int
        /\ Summed(c, J) = Summed(b, J) - Summed(a, J)
    BY <2>1, <2>2, SumMinus
  <2>4. Summed(c, J) >= 0
    BY <2>1, <2>3
  <2> QED
    BY <2>4 DEF J
<1>6. Summed(dc, 1..k) >= 0
  <2>1. \A r \in 1..k : c[r] \in Int /\ d[r] \in Nat /\ dc[r] = c[r] * d[r]
    BY <1>3 DEF K
  <2>2. \A j \in 1..k : Summed(c, 1..j) >= 0
    BY <1>5 DEF K
  <2> QED
    BY <2>1, <2>2, WeightedNotNegative
<1>7. /\ Summed(db, K) \in Int /\ Summed(da, K) \in Int
      /\ Summed(dc, K) = Summed(db, K) - Summed(da, K)
  <2>1. \A r \in K : db[r] \in Int /\ da[r] \in Int /\ dc[r] = db[r] - da[r]
    BY <1>4
  <2> QED
    BY <1>0, <2>1, SumMinus
<1>8. Summed(da, K) >= 0
  <2>1. \A r \in K : da[r] \in Int
    BY <1>4
  <2>2. \A r \in K \ {} : da[r] >= 0
    BY <1>4
  <2>3. Summed(da, {}) <= Summed(da, K)
    BY <1>0, <2>1, <2>2, SumPart
  <2> QED
    BY <2>3, SumEmpty
<1>9. Summed(dc, K) >= 0
  BY <1>6 DEF K
<1>10. Summed(da, K) \in Nat /\ Summed(db, K) \in Nat /\ Summed(da, K) <= Summed(db, K)
  BY <1>7, <1>8, <1>9
<1> QED
  BY <1>10 DEF K

(* The gain of a ranking lies between none and that of the ideal ranking.  *)
LEMMA NdcgRange ==
  ASSUME NEW n \in Nat \ {0}, NEW labels \in ScoreSeq(n), NEW scores \in ScoreSeq(n),
         NEW k \in Nat, 1..k \subseteq DOMAIN Discount
  PROVE  ndcg(labels, scores, k) \in 0..Scale
<1> DEFINE i == Ranked(labels)
           o == Ranked(scores)
           kk == MinOf(k, n)
           da == [r \in 1..MinOf(k, Len(labels)) |-> labels[o[r]] * Discount[r]]
           db == [r \in 1..MinOf(k, Len(labels)) |-> labels[i[r]] * Discount[r]]
<1>1. kk \in Nat /\ kk <= n /\ 1..kk \subseteq DOMAIN Discount /\ Len(labels) = n
      /\ (\A r \in 1..kk : r \in 1..n)
  BY ScoreSeqFacts DEF MinOf
<1>2. /\ o \in [1..n -> 1..n]
      /\ \A r, t \in 1..n : o[r] = o[t] => r = t
  BY RankedInOrder
<1>3. i \in [1..n -> 1..n]
  BY RankedInOrder
<1>4. _dcg(labels, o, k) = Summed(da, 1..kk) /\ _dcg(labels, i, k) = Summed(db, 1..kk)
  BY <1>1, TotalIsSummed DEF _dcg
<1>5. \A r \in 1..kk : da[r] = labels[o[r]] * Discount[r] /\ db[r] = labels[i[r]] * Discount[r]
  BY <1>1
<1> DEFINE a == Gains(labels, Ranked(scores))
           b == Gains(labels, Ranked(labels))
<1>6. \A r \in 1..n : a[r] = labels[o[r]] /\ b[r] = labels[i[r]]
  BY ScoreSeqFacts DEF Gains
<1>7. \A j \in 1..n : Summed(a, 1..j) <= Summed(b, 1..j)
  BY BestFirst
<1>8. ndcg(labels, scores, k) = IF _dcg(labels, i, k) = 0 THEN 0
                                ELSE quantize(_dcg(labels, o, k), _dcg(labels, i, k))
  BY DEF ndcg
<1> HIDE DEF i, o, kk, da, db, a, b
<1>9. \A j \in 1..kk : Summed(a, 1..j) <= Summed(b, 1..j)
  BY <1>1, <1>7
<1>10. \A r \in 1..kk : a[r] \in Nat /\ b[r] \in Nat /\ Discount[r] \in Nat
  <2>1. \A x \in 1..n : labels[x] \in Nat
    BY ScoreSeqFacts
  <2>2. \A r \in 1..kk : Discount[r] \in Nat
    BY <1>1, MetricsAssumption
  <2>3. \A r \in 1..n : o[r] \in 1..n /\ i[r] \in 1..n
    BY <1>2, <1>3
  <2> QED
    BY <1>1, <1>6, <2>1, <2>2, <2>3
<1>11. \A r \in 1..kk : da[r] = a[r] * Discount[r]
  BY <1>1, <1>5, <1>6
<1>12. \A r \in 1..kk : db[r] = b[r] * Discount[r]
  BY <1>1, <1>5, <1>6
<1>13. \A r, t \in 1..kk : r <= t => Discount[t] <= Discount[r]
  BY <1>1, MetricsAssumption
<1>14. /\ Summed(da, 1..kk) \in Nat /\ Summed(db, 1..kk) \in Nat
       /\ Summed(da, 1..kk) <= Summed(db, 1..kk)
  <2>1. kk \in Nat
    BY <1>1
  <2> QED
    BY <2>1, <1>9, <1>10, <1>11, <1>12, <1>13, WeightedBest
<1> DEFINE A == Summed(da, 1..kk)
           B == Summed(db, 1..kk)
<1>15. A \in Nat /\ B \in Nat /\ A <= B /\ Scale \in Nat
       /\ ndcg(labels, scores, k) = IF B = 0 THEN 0 ELSE quantize(A, B)
  BY <1>4, <1>8, <1>14, MetricsAssumption
<1> HIDE DEF A, B
<1>16. ASSUME B # 0 PROVE quantize(A, B) \in 0..Scale
  <2>1. PICK one \in Nat : one = 1
    OBVIOUS
  <2>2. B \in Nat /\ A \in Nat /\ B > 0 /\ A <= one * B
    BY <1>15, <1>16, <2>1
  <2>3. quantize(A, B) \in 0..(one * Scale)
    BY <2>1, <2>2, QuantizeBounds
  <2> QED
    BY <2>1, <2>3, <1>15
<1> QED
  BY <1>15, <1>16

(* A recursion that takes one element after the other has a solution.      *)
ChainEquation(g, S, pick, base, step) ==
    g = [s \in SUBSET S |-> IF s = {} THEN base ELSE step[pick[s]][g[s \ {pick[s]}]]]

(* A fold that takes one element of a set after another has a solution,    *)
(* which stays in the set its steps stay in.                               *)
LEMMA ChainSolution ==
  ASSUME NEW S, IsFiniteSet(S), NEW pick, \A s \in SUBSET S : s # {} => pick[s] \in s,
         NEW X, NEW base \in X, NEW step, \A i \in S, t \in X : step[i][t] \in X
  PROVE  \E g : /\ ChainEquation(g, S, pick, base, step)
                /\ \A s \in SUBSET S : g[s] \in X
<1> DEFINE Value(g, s) == IF s = {} THEN base ELSE step[pick[s]][g[s \ {pick[s]}]]
           Solves(g, s) == g[s] = Value(g, s) /\ g[s] \in X
           N == {n \in Nat : \E g : \A s \in SUBSET S : Cardinality(s) <= n => Solves(g, s)}
<1>1. \A s \in SUBSET S : IsFiniteSet(s) /\ Cardinality(s) \in Nat
  BY FS_Subset, FS_CardinalityType
<1>2. \A s \in SUBSET S : s # {} =>
         pick[s] \in S /\ s \ {pick[s]} \in SUBSET S /\ Cardinality(s \ {pick[s]}) = Cardinality(s) - 1
  BY <1>1, FS_RemoveElement
<1>2a. \A s \in SUBSET S : Cardinality(s) <= 0 <=> s = {}
  BY <1>1, FS_EmptySet
<1>3. 0 \in N
  <2> DEFINE g == [s \in SUBSET S |-> base]
  <2>1. \A s \in SUBSET S : Cardinality(s) <= 0 => Solves(g, s)
    BY <1>2a
  <2> QED
    BY <2>1
<1>4. ASSUME NEW n \in Nat, n \in N PROVE n + 1 \in N
  <2>1. PICK g : \A s \in SUBSET S : Cardinality(s) <= n => Solves(g, s)
    BY <1>4
  <2> DEFINE h == [s \in SUBSET S |-> IF Cardinality(s) <= n THEN g[s] ELSE Value(g, s)]
  <2>2. ASSUME NEW s \in SUBSET S, Cardinality(s) <= n + 1 PROVE Solves(h, s)
    <3>1. CASE s = {}
      <4>1. Cardinality(s) <= n
        BY <1>2a, <3>1, <1>1
      <4>2. h[s] = g[s] /\ Solves(g, s)
        BY <2>1, <4>1
      <4> QED
        BY <3>1, <4>2
    <3>2. CASE s # {}
      <4> DEFINE rest == s \ {pick[s]}
      <4>1. rest \in SUBSET S /\ Cardinality(rest) <= n
        BY <1>1, <1>2, <2>2, <3>2
      <4>2. h[rest] = g[rest] /\ g[rest] \in X
        BY <2>1, <4>1
      <4>3. h[s] = step[pick[s]][g[rest]]
        <5>1. Cardinality(s) <= n => g[s] = Value(g, s)
          BY <2>1
        <5>2. h[s] = Value(g, s)
          BY <5>1
        <5> QED
          BY <3>2, <5>2
      <4>4. step[pick[s]][g[rest]] \in X
        BY <1>2, <3>2, <4>2
      <4> QED
        BY <3>2, <4>2, <4>3, <4>4
    <3> QED
      BY <3>1, <3>2
  <2> HIDE DEF h, Solves
  <2> QED
    BY <2>2
<1> HIDE DEF N
<1>5. Cardinality(S) \in N
  BY <1>1, <1>3, <1>4, NumberInduction
<1>6. PICK g : \A s \in SUBSET S : Cardinality(s) <= Cardinality(S) => Solves(g, s)
  BY <1>5 DEF N
<1>7. \A s \in SUBSET S : Solves(g, s)
  BY <1>1, <1>6, FS_Subset
<1> DEFINE h == [s \in SUBSET S |-> g[s]]
<1>8. \A s \in SUBSET S : h[s] = Value(h, s) /\ h[s] \in X
  <2>1. \A s \in SUBSET S : s # {} => s \ {pick[s]} \in SUBSET S
    OBVIOUS
  <2> QED
    BY <1>7, <2>1
<1>9. h = [s \in SUBSET S |-> Value(h, s)]
  BY <1>8
<1> HIDE DEF h
<1> QED
  BY <1>8, <1>9 DEF ChainEquation

(* The largest of some numbers up to n is one of them.                     *)
LEMMA MaxChosen ==
  ASSUME NEW n \in Nat
  PROVE  /\ \A s \in SUBSET (1..n) : s # {} => Max(s) \in s
         /\ \A j \in 1..n : Max(1..j) = j
<1>1. ASSUME NEW s \in SUBSET (1..n), s # {} PROVE Max(s) \in s
  <2> DEFINE T == {n - x : x \in s}
  <2>0. \A x \in s : x \in Int /\ x <= n
    OBVIOUS
  <2>1. T \in SUBSET Nat /\ T # {}
    <3>1. \A x \in s : n - x \in Nat /\ n - x \in T
      BY <2>0
    <3>2. PICK x \in s : TRUE
      BY <1>1
    <3> QED
      BY <3>1, <3>2
  <2>2. PICK m \in T : \A t \in T : m <= t
    BY <2>1, Least
  <2>3. PICK x \in s : m = n - x
    BY <2>2
  <2>4. \A y \in s : x >= y
    <3> SUFFICES ASSUME NEW y \in s PROVE x >= y
      OBVIOUS
    <3>1. n - y \in T
      OBVIOUS
    <3>2. n - x <= n - y
      BY <2>2, <2>3, <3>1
    <3> QED
      BY <3>2
  <2> QED
    BY <2>4 DEF Max
<1>2. ASSUME NEW j \in 1..n PROVE Max(1..j) = j
  <2>1. \A y \in 1..j : j >= y
    OBVIOUS
  <2>2. \A x \in 1..j : (\A y \in 1..j : x >= y) => x = j
    OBVIOUS
  <2>3. j \in 1..j
    OBVIOUS
  <2> QED
    BY <2>1, <2>2, <2>3 DEF Max
<1> QED
  BY <1>1, <1>2

Sofars == [verdict : Refusals \cup {"ok"}, bytes : Nat, records : Seq(Lines)]

(* The size of a file is a number.                                         *)
LEMMA SizeIsNumber ==
  ASSUME NEW data \in Seq(Lines)
  PROVE  Size(data) \in Nat
<1>1. IsFiniteSet(DOMAIN data)
  BY FS_Interval
<1>2. Cardinality({i \in DOMAIN data : data[i].form = "loose"}) \in Nat
  BY <1>1, FS_Subset, FS_CardinalityType
<1> QED
  BY <1>2 DEF Size

(* The parser answers with the lines or with one of two errors             *)
(* (parse_scoring_jsonl).                                                  *)
LEMMA ScanResult ==
  ASSUME NEW lines, NEW max
  PROVE  Scan(lines, max) \in {No("invalid"), No("limit"), Ok(lines)}
  BY DEF Scan

(* The parser gives what it was given, or a reason.                        *)
LEMMA ParserResult ==
  ASSUME NEW data, NEW maxBytes, NEW maxRecords, NEW parsed,
         \/ parsed = parse_scoring_jsonl(data, maxBytes, maxRecords, FALSE)
         \/ parsed = parse_scoring_jsonl(data, maxBytes, maxRecords, TRUE)
  PROVE  /\ parsed.verdict \in Refusals \cup {"ok"}
         /\ IsOk(parsed) => parsed.value = data
<1>1. parsed \in {No("crash"), No("limit"), No("invalid"), Ok(data)}
  BY ScanResult DEF parse_scoring_jsonl
<1>2. \A why : No(why).verdict = why
  BY DEF No
<1>3. Ok(data).verdict = "ok" /\ Ok(data).value = data
  BY DEF Ok
<1>4. parsed.verdict \in Refusals \cup {"ok"}
  BY <1>1, <1>2, <1>3 DEF Refusals
<1>5. parsed.verdict = "ok" => parsed.value = data
  BY <1>1, <1>2, <1>3
<1> QED
  BY <1>1, <1>4, <1>5 DEF IsOk

(* One more source keeps the state of the freeze well formed               *)
(* (freeze_jsonl_sources).                                                 *)
LEMMA AddSourceTyped ==
  ASSUME NEW sofar \in Sofars, NEW source \in Seq(Lines), NEW maxTotal, NEW maxRecords
  PROVE  AddSource(sofar, source, maxTotal, maxRecords) \in Sofars
<1> DEFINE bytes == sofar.bytes + Size(source)
           left == maxRecords - Len(sofar.records)
           parsed == parse_scoring_jsonl(source, Size(source) + 1, left, FALSE)
           all == sofar.records \o parsed.value
<1>1. bytes \in Nat
  BY SizeIsNumber DEF Sofars
<1>2. parsed.verdict \in Refusals \cup {"ok"} /\ (IsOk(parsed) => parsed.value = source)
  BY ParserResult
<1> HIDE DEF parsed
<1>3. IsOk(parsed) => all \in Seq(Lines)
  BY <1>2 DEF Sofars
<1>4. AddSource(sofar, source, maxTotal, maxRecords) \in
         {sofar, [sofar EXCEPT !.verdict = "limit"], [sofar EXCEPT !.verdict = "invalid"],
          [sofar EXCEPT !.verdict = parsed.verdict]}
         \cup {s \in {[verdict |-> "ok", bytes |-> bytes, records |-> all]} : IsOk(parsed)}
  BY Zenon DEF AddSource, parsed
<1>5. \A why \in Refusals \cup {"ok"} : [sofar EXCEPT !.verdict = why] \in Sofars
  BY DEF Sofars
<1>6. IsOk(parsed) => [verdict |-> "ok", bytes |-> bytes, records |-> all] \in Sofars
  BY <1>1, <1>3 DEF Sofars
<1>7. {"limit", "invalid"} \subseteq Refusals
  BY DEF Refusals
<1> QED
  BY <1>2, <1>4, <1>5, <1>6, <1>7

Distinct(lines) == \A i, j \in DOMAIN lines : lines[i].id = lines[j].id => i = j

(* Records of different identities are sorted: all of them, each once, in  *)
(* the order of their identities.                                          *)
LEMMA SortedRecords ==
  ASSUME NEW records \in Seq(Lines), Distinct(records)
  PROVE  /\ Len(records) \in Nat
         /\ Sorted(records) \in [1..Len(records) -> Range(records)]
         /\ \A r, t \in 1..Len(records) : r < t <=> Sorted(records)[r].id < Sorted(records)[t].id
         /\ \A x \in Range(records) : \E r \in 1..Len(records) : Sorted(records)[r] = x
<1> DEFINE S == Range(records)
           n == Len(records)
           below == [x \in S |-> {y \in S : y.id < x.id}]
           sorted == Sorted(records)
<1>0. n \in Nat /\ DOMAIN records = 1..n
  OBVIOUS
<1>1. IsFiniteSet(1..n) /\ Cardinality(1..n) = n
  BY <1>0, FS_Interval
<1>2a. S \in SUBSET Lines
  BY DEF Range
<1>2. \A x \in S : x.id \in Nat
  BY <1>2a, DatasetAssumption DEF Lines
<1>3. \A x, y \in S : x.id = y.id => x = y
  BY DEF Range, Distinct
<1>4. IsFiniteSet(S) /\ Cardinality(S) = n
  <2>1. S = {records[i] : i \in 1..n}
    BY <1>0 DEF Range
  <2>2. records \in Bijection(1..n, S)
    <3>1. records \in [1..n -> S]
      BY <1>0 DEF Range
    <3>2. \A i, j \in 1..n : records[i] = records[j] => i = j
      BY <1>0 DEF Distinct
    <3>3. \A x \in S : \E i \in 1..n : records[i] = x
      BY <2>1
    <3> QED
      BY <3>1, <3>2, <3>3, Fun_IsBij
  <2>3. ExistsBijection(1..n, S)
    BY <2>2 DEF ExistsBijection
  <2> QED
    BY <1>1, <2>3, FS_Bijection
<1>5. StrictOrder(below, S)
  <2>1. \A x \in S : below[x] \in SUBSET S /\ x \notin below[x]
    BY <1>2
  <2>2. \A x, y \in S : x = y \/ x \in below[y] \/ y \in below[x]
    BY <1>2, <1>3
  <2>3. \A x, y \in S : x \in below[y] => below[x] \subseteq below[y]
    BY <1>2
  <2> QED
    BY <2>1, <2>2, <2>3 DEF StrictOrder
<1>6. sorted = Placed(below, S)
  <2> DEFINE Before(x, y) == x.id < y.id
  <2>1. sorted = [r \in 1..Cardinality(S) |->
                    CHOOSE x \in S : Cardinality({y \in S : Before(y, x)}) = r - 1]
    BY DEF Sorted, Arranged
  <2>2. \A x \in S : {y \in S : Before(y, x)} = below[x]
    OBVIOUS
  <2> DEFINE A(r) == CHOOSE x \in S : Cardinality({y \in S : Before(y, x)}) = r - 1
             B(r) == CHOOSE x \in S : Cardinality(below[x]) = r - 1
  <2> HIDE DEF S, Before, sorted, below
  <2>3. \A r : A(r) = B(r)
    BY <2>2
  <2>4. sorted = [r \in 1..Cardinality(S) |-> A(r)]
    BY <2>1, Zenon
  <2> HIDE DEF A, B
  <2>5. sorted = [r \in 1..Cardinality(S) |-> B(r)]
    BY <2>3, <2>4
  <2> QED
    BY <2>5 DEF B, Placed
<1> HIDE DEF S, sorted, below
<1>7. /\ sorted \in [1..Cardinality(S) -> S]
      /\ \A r, t \in 1..Cardinality(S) : r < t <=> sorted[r] \in below[sorted[t]]
      /\ \A x \in S : \E r \in 1..Cardinality(S) : sorted[r] = x
  <2>1. IsFiniteSet(S)
    BY <1>4
  <2> QED
    BY <2>1, <1>5, <1>6, ArrangedInOrder
<1>8. \A x, y \in S : x \in below[y] <=> x.id < y.id
  BY DEF below
<1>9. \A r, t \in 1..n : r < t <=> sorted[r].id < sorted[t].id
  BY <1>4, <1>7, <1>8
<1> QED
  BY <1>0, <1>4, <1>7, <1>9 DEF sorted, S

(* Of a split there are the records that belong to it, in their order.     *)
Belongs(records, seed, name) == {i \in DOMAIN records : SplitOf[seed][records[i].id] = name}

Ascending(P) == Arranged(P, LAMBDA i, j : i < j)

(* Positions in ascending order: all of them, each once.                   *)
LEMMA SplitPositions ==
  ASSUME NEW P, IsFiniteSet(P), \A x \in P : x \in Int, NEW at, at = Ascending(P)
  PROVE  /\ Cardinality(P) \in Nat
         /\ at \in [1..Cardinality(P) -> P]
         /\ \A r, t \in 1..Cardinality(P) : r < t <=> at[r] < at[t]
         /\ \A i \in P : \E r \in 1..Cardinality(P) : at[r] = i
<1> DEFINE below == [x \in P |-> {y \in P : y < x}]
<1>2. StrictOrder(below, P)
  <2>1. \A x \in P : below[x] \in SUBSET P /\ x \notin below[x]
    OBVIOUS
  <2>2. \A x, y \in P : x = y \/ x \in below[y] \/ y \in below[x]
    OBVIOUS
  <2>3. \A x, y \in P : x \in below[y] => below[x] \subseteq below[y]
    <3> SUFFICES ASSUME NEW x \in P, NEW y \in P, x < y, NEW z \in P, z < x PROVE z < y
      OBVIOUS
    <3> QED
      OBVIOUS
  <2> QED
    BY <2>1, <2>2, <2>3 DEF StrictOrder
<1>3. at = Placed(below, P)
  <2> DEFINE A(r) == CHOOSE x \in P : Cardinality({y \in P : y < x}) = r - 1
             B(r) == CHOOSE x \in P : Cardinality(below[x]) = r - 1
  <2>1. at = [r \in 1..Cardinality(P) |-> A(r)]
    BY DEF Ascending, Arranged
  <2>2. \A x \in P : {y \in P : y < x} = below[x]
    OBVIOUS
  <2> HIDE DEF below
  <2>3. \A r : A(r) = B(r)
    BY <2>2
  <2> HIDE DEF A, B
  <2>4. at = [r \in 1..Cardinality(P) |-> B(r)]
    BY <2>1, <2>3
  <2> QED
    BY <2>4 DEF B, Placed
<1>4. \A x, y \in P : x \in below[y] <=> x < y
  OBVIOUS
<1> HIDE DEF below
<1>5. /\ Cardinality(P) \in Nat /\ at \in [1..Cardinality(P) -> P]
      /\ \A r, t \in 1..Cardinality(P) : r < t <=> at[r] \in below[at[t]]
      /\ \A x \in P : \E r \in 1..Cardinality(P) : at[r] = x
  BY <1>2, <1>3, ArrangedInOrder
<1> QED
  BY <1>4, <1>5

(* A split is the records assigned to it, in their order, each once.       *)
LEMMA InSplitTyped ==
  ASSUME NEW records \in Seq(Lines), NEW seed, NEW name
  PROVE  /\ InSplit(records, seed, name) \in Seq(Lines)
         /\ \E at : LET P == Belongs(records, seed, name)
                        k == Cardinality(P) IN
                /\ k \in Nat /\ Len(InSplit(records, seed, name)) = k
                /\ at \in [1..k -> P]
                /\ \A r, t \in 1..k : r < t <=> at[r] < at[t]
                /\ \A i \in P : \E r \in 1..k : at[r] = i
                /\ \A r \in 1..k : InSplit(records, seed, name)[r] = records[at[r]]
<1> DEFINE P == Belongs(records, seed, name)
           at == Ascending(P)
           k == Cardinality(P)
           inside == InSplit(records, seed, name)
<1>1. Len(records) \in Nat /\ P \in SUBSET (1..Len(records)) /\ \A i \in P : records[i] \in Lines
  BY DEF Belongs
<1>1a. IsFiniteSet(P)
  <2>1. IsFiniteSet(1..Len(records))
    BY <1>1, FS_Interval
  <2> QED
    BY <1>1, <2>1, FS_Subset
<1>1b. \A i \in P : i \in Int
  BY <1>1
<1>2. inside = [r \in DOMAIN at |-> records[at[r]]]
  BY DEF InSplit, Belongs, Ascending
<1>3. at = Ascending(P)
  OBVIOUS
<1> HIDE DEF P, at, inside
<1>4. /\ k \in Nat /\ at \in [1..k -> P]
      /\ \A r, t \in 1..k : r < t <=> at[r] < at[t]
      /\ \A i \in P : \E r \in 1..k : at[r] = i
  BY <1>1a, <1>1b, <1>3, SplitPositions
<1> HIDE DEF k
<1>5. inside \in [1..k -> Lines] /\ \A r \in 1..k : inside[r] = records[at[r]]
  BY <1>1, <1>2, <1>4
<1>6. inside \in Seq(Lines) /\ Len(inside) = k
  BY <1>4, <1>5
<1> QED
  BY <1>4, <1>5, <1>6 DEF P, k, inside

(* What passes the scan has no broken line and no identity twice, and is   *)
(* within the limit.                                                       *)
LEMMA ScanPassed ==
  ASSUME NEW lines \in Seq(Lines), NEW max \in Int
  PROVE  IsOk(Scan(lines, max)) <=> /\ Len(lines) <= max /\ Distinct(lines)
                                    /\ \A i \in DOMAIN lines : lines[i].form # "broken"
<1> DEFINE bad == {i \in DOMAIN lines : lines[i].form = "broken" \/ Duplicated(lines, i)}
           n == Len(lines)
<1>1. n \in Nat /\ DOMAIN lines = 1..n
  OBVIOUS
<1>2. No("invalid").verdict # "ok" /\ No("limit").verdict # "ok" /\ Ok(lines).verdict = "ok"
  BY DEF No, Ok
<1>3. IsOk(Scan(lines, max)) <=> bad \cap 1..max = {} /\ ~(n > max)
  BY <1>2 DEF Scan, IsOk
<1>4. Distinct(lines) <=> \A i \in 1..n : ~Duplicated(lines, i)
  BY <1>1 DEF Distinct, Duplicated
<1>5. ASSUME n <= max PROVE bad \cap 1..max = {} <=> bad = {}
  BY <1>1, <1>5
<1>6. bad = {} <=> \A i \in 1..n : lines[i].form # "broken" /\ ~Duplicated(lines, i)
  BY <1>1
<1> HIDE DEF bad
<1> QED
  BY <1>1, <1>3, <1>4, <1>5, <1>6

Canonical(records) == [i \in DOMAIN records |-> _record_bytes(records[i])]

(* The rewritten records are the records in canonical form.                *)
LEMMA CanonicalRecords ==
  ASSUME NEW records \in Seq(Lines)
  PROVE  /\ Canonical(records) \in Seq(Lines) /\ Len(Canonical(records)) = Len(records)
         /\ \A i \in DOMAIN records : /\ Canonical(records)[i].form = "canonical"
                                      /\ Canonical(records)[i].id = records[i].id
         /\ Distinct(records) => Distinct(Canonical(records))
<1> DEFINE n == Len(records)
           c == Canonical(records)
<1>1. n \in Nat /\ DOMAIN records = 1..n /\ \A i \in 1..n : records[i] \in Lines
  OBVIOUS
<1>2. \A i \in 1..n : /\ c[i] \in Lines /\ c[i].form = "canonical" /\ c[i].id = records[i].id
  BY <1>1 DEF Canonical, _record_bytes, Lines
<1>3. DOMAIN c = 1..n
  BY <1>1 DEF Canonical
<1>3a. c = [i \in 1..n |-> c[i]]
  BY <1>1 DEF Canonical
<1> HIDE DEF c, n
<1>4. c \in Seq(Lines)
  BY <1>1, <1>2, <1>3, <1>3a
<1>5. Len(c) = n
  BY <1>1, <1>3, <1>4
<1>6. Distinct(records) => Distinct(c)
  BY <1>1, <1>2, <1>3 DEF Distinct
<1> QED
  BY <1>1, <1>2, <1>4, <1>5, <1>6 DEF n, c

(* The records of a dataset, sorted and in their canonical form.           *)
Rows(records) == Sorted(Canonical(records))

(* The rows of the freeze are lines.                                       *)
LEMMA RowsTyped ==
  ASSUME NEW records \in Seq(Lines), Distinct(records)
  PROVE  Rows(records) \in Seq(Lines)
<1> DEFINE c == Canonical(records)
           n == Len(c)
<1>1. c \in Seq(Lines) /\ Distinct(c)
  BY CanonicalRecords
<1> HIDE DEF c
<1>2. n \in Nat /\ Sorted(c) \in [1..n -> Range(c)]
  BY <1>1, SortedRecords
<1>3. Range(c) \subseteq Lines
  BY <1>1 DEF Range
<1>4. Sorted(c) \in [1..n -> Lines]
  BY <1>2, <1>3
<1>5. Sorted(c) \in Seq(Lines)
  BY <1>2, <1>4
<1> QED
  BY <1>5 DEF Rows, c

Published == [Range(SplitNames) -> [data : Seq(Lines), count : Nat, sealed : BOOLEAN]]

(* A freeze publishes three splits with their references.                  *)
LEMMA FrozenTyped ==
  ASSUME NEW rows \in Seq(Lines), NEW seed
  PROVE  Frozen(rows, seed) \in Published
<1> SUFFICES ASSUME NEW name \in Range(SplitNames)
             PROVE  FrozenSplit(rows, seed, name) \in [data : Seq(Lines), count : Nat, sealed : BOOLEAN]
  BY DEF Frozen, Published
<1>1. InSplit(rows, seed, name) \in Seq(Lines)
  BY InSplitTyped
<1>2. Len(InSplit(rows, seed, name)) \in Nat
  BY <1>1
<1>3. (name = "test") \in BOOLEAN
  OBVIOUS
<1> QED
  BY <1>1, <1>2, <1>3 DEF FrozenSplit

(* A freeze that succeeds publishes the sorted records, each in its split, *)
(* and has verified them.                                                  *)
LEMMA FreezeResult ==
  ASSUME NEW records \in Seq(Lines), NEW seed, NEW maxRecords \in Int, NEW maxOutput, NEW frozen,
         frozen = freeze_records(records, seed, maxRecords, maxOutput)
  PROVE  /\ frozen.verdict \in Refusals \cup {"ok"}
         /\ IsOk(frozen) => /\ records # <<>> /\ Distinct(records)
                            /\ frozen.value = Frozen(Rows(records), seed)
                            /\ verify_frozen_dataset(frozen.value, seed)
                            /\ frozen.value \in Published
<1> DEFINE scanned == Scan(records, maxRecords)
           rows == Rows(records)
<1>1. frozen = IF records = <<>> THEN No("invalid")
                ELSE IF ~IsOk(scanned) THEN scanned
                ELSE IF Size(rows) > maxOutput THEN No("limit")
                ELSE IF verify_frozen_dataset(Frozen(rows, seed), seed) THEN Ok(Frozen(rows, seed))
                ELSE No("invalid")
  BY Zenon DEF freeze_records, Rows, Canonical
<1>2. scanned \in {No("invalid"), No("limit"), Ok(records)}
  BY ScanResult
<1>3. IsOk(scanned) => Distinct(records)
  BY ScanPassed
<1> HIDE DEF scanned, rows
<1>4. \A why : No(why).verdict = why
  BY DEF No
<1>5. \A v : Ok(v).verdict = "ok" /\ Ok(v).value = v
  BY DEF Ok
<1>6. \/ frozen = No("invalid") \/ frozen = No("limit")
      \/ /\ records # <<>> /\ IsOk(scanned) /\ frozen = Ok(Frozen(rows, seed))
         /\ verify_frozen_dataset(Frozen(rows, seed), seed)
  BY <1>1, <1>2, <1>5 DEF IsOk
<1>7. frozen.verdict \in Refusals \cup {"ok"}
  BY <1>4, <1>5, <1>6 DEF Refusals
<1>8. IsOk(frozen) => /\ records # <<>> /\ Distinct(records) /\ frozen.value = Frozen(rows, seed)
                      /\ verify_frozen_dataset(Frozen(rows, seed), seed)
  BY <1>3, <1>4, <1>5, <1>6 DEF IsOk
<1>9. Distinct(records) => Frozen(rows, seed) \in Published
  BY RowsTyped, FrozenTyped DEF rows
<1> QED
  BY <1>7, <1>8, <1>9 DEF rows

(* The freeze of several sources, one after the other.                     *)
Start == [verdict |-> "ok", bytes |-> 0, records |-> <<>>]

SourcesEquation(g, sources, maxTotal, maxRecords) ==
    g = [s \in SUBSET DOMAIN sources |->
            IF s = {} THEN Start
            ELSE AddSource(g[s \ {Max(s)}], sources[Max(s)], maxTotal, maxRecords)]

(* The fold over the sources has a solution.                               *)
LEMMA SourcesSolution ==
  ASSUME NEW sources \in Seq(Seq(Lines)), NEW maxTotal, NEW maxRecords
  PROVE  \E g : SourcesEquation(g, sources, maxTotal, maxRecords)
<1> DEFINE S == DOMAIN sources
           Step(i, t) == AddSource(t, sources[i], maxTotal, maxRecords)
           pick == [s \in SUBSET S |-> Max(s)]
           step == [i \in S |-> [t \in Sofars |-> Step(i, t)]]
<1>0. Len(sources) \in Nat /\ S = 1..Len(sources)
  OBVIOUS
<1>1. IsFiniteSet(S)
  BY <1>0, FS_Interval
<1>2. \A s \in SUBSET S : pick[s] = Max(s) /\ (s # {} => Max(s) \in s)
  BY <1>0, MaxChosen
<1>3. Start \in Sofars
  BY DEF Start, Sofars, Refusals
<1>4. \A i \in S, t \in Sofars : step[i][t] = Step(i, t) /\ Step(i, t) \in Sofars
  BY AddSourceTyped
<1> HIDE DEF S, Step, pick, step
<1>5. PICK g : /\ ChainEquation(g, S, pick, Start, step)
               /\ \A s \in SUBSET S : g[s] \in Sofars
  <2>1. \A s \in SUBSET S : s # {} => pick[s] \in s
    BY <1>2
  <2>2. \A i \in S, t \in Sofars : step[i][t] \in Sofars
    BY <1>4
  <2> QED
    BY <1>1, <1>3, <2>1, <2>2, ChainSolution
<1>6. \A s \in SUBSET S : s # {} => step[pick[s]][g[s \ {pick[s]}]] = Step(Max(s), g[s \ {Max(s)}])
  <2> SUFFICES ASSUME NEW s \in SUBSET S, s # {}
               PROVE  step[pick[s]][g[s \ {pick[s]}]] = Step(Max(s), g[s \ {Max(s)}])
    OBVIOUS
  <2>1. pick[s] = Max(s) /\ Max(s) \in S /\ s \ {Max(s)} \in SUBSET S
    BY <1>2
  <2>2. g[s \ {Max(s)}] \in Sofars
    BY <1>5, <2>1
  <2> QED
    BY <1>4, <2>1, <2>2
<1>7. g = [s \in SUBSET S |-> IF s = {} THEN Start ELSE Step(Max(s), g[s \ {Max(s)}])]
  BY <1>5, <1>6 DEF ChainEquation
<1> QED
  BY <1>7 DEF SourcesEquation, S, Step

(* freeze_jsonl_sources as steps: each source is added to what the ones    *)
(* before it came to.                                                      *)
LEMMA SourcesRead ==
  ASSUME NEW sources \in Seq(Seq(Lines)), NEW seed, NEW maxTotal, NEW maxRecords, NEW maxOutput
  PROVE  \E h : /\ h[0] = Start
                /\ \A j \in 1..Len(sources) :
                      h[j] = AddSource(h[j - 1], sources[j], maxTotal, maxRecords)
                /\ \A j \in 0..Len(sources) : h[j] \in Sofars
                /\ freeze_jsonl_sources(sources, seed, maxTotal, maxRecords, maxOutput) =
                      LET all == h[Len(sources)] IN
                      IF all.verdict = "ok"
                      THEN freeze_records(all.records, seed, maxRecords, maxOutput)
                      ELSE No(all.verdict)
<1> DEFINE g == CHOOSE g : SourcesEquation(g, sources, maxTotal, maxRecords)
           n == Len(sources)
           Step(i, t) == AddSource(t, sources[i], maxTotal, maxRecords)
<1>0. n \in Nat /\ DOMAIN sources = 1..n
  OBVIOUS
<1>1. SourcesEquation(g, sources, maxTotal, maxRecords)
  BY SourcesSolution
<1>2. freeze_jsonl_sources(sources, seed, maxTotal, maxRecords, maxOutput) =
         IF g[DOMAIN sources].verdict = "ok"
         THEN freeze_records(g[DOMAIN sources].records, seed, maxRecords, maxOutput)
         ELSE No(g[DOMAIN sources].verdict)
  BY Zenon DEF freeze_jsonl_sources, FoldLeft, MapThenFoldSet, SourcesEquation, Start
<1> HIDE DEF g
<1>3. g[{}] = Start
  BY <1>1 DEF SourcesEquation
<1>3a. Start \in Sofars
  BY DEF Start, Sofars, Refusals
<1>4. ASSUME NEW j \in 1..n
      PROVE  g[1..j] = AddSource(g[1..(j - 1)], sources[j], maxTotal, maxRecords)
  <2>0. j \in 1..j /\ \A i \in 1..j : i \in 1..n
    BY <1>0
  <2>1. 1..j \in SUBSET DOMAIN sources /\ 1..j # {}
    BY <1>0, <2>0
  <2>2. Max(1..j) = j
    BY <1>0, MaxChosen
  <2>3. (1..j) \ {j} = 1..(j - 1)
    BY <1>0
  <2>4. g[1..j] = AddSource(g[(1..j) \ {Max(1..j)}], sources[Max(1..j)], maxTotal, maxRecords)
    BY <1>1, <2>1 DEF SourcesEquation
  <2> QED
    BY <2>2, <2>3, <2>4
<1> DEFINE h == [j \in 0..n |-> g[1..j]]
<1>5. h[0] = Start /\ h[n] = g[DOMAIN sources]
  <2>1. 1..0 = {}
    OBVIOUS
  <2> QED
    BY <1>0, <1>3, <2>1
<1>6. \A j \in 1..n : h[j] = AddSource(h[j - 1], sources[j], maxTotal, maxRecords)
  BY <1>0, <1>4
<1> HIDE DEF h
<1>7. \A j \in 0..n : h[j] \in Sofars
  <2> DEFINE T == {j \in Nat : j <= n => h[j] \in Sofars}
  <2>1. 0 \in T
    BY <1>3a, <1>5
  <2>2. ASSUME NEW j \in Nat, j \in T PROVE j + 1 \in T
    <3> SUFFICES ASSUME j + 1 <= n PROVE h[j + 1] \in Sofars
      OBVIOUS
    <3>1. h[j] \in Sofars /\ j + 1 \in 1..n
      BY <1>0, <2>2
    <3>2. sources[j + 1] \in Seq(Lines)
      BY <1>0, <3>1
    <3>3. h[j + 1] = AddSource(h[j], sources[j + 1], maxTotal, maxRecords)
      BY <1>6, <3>1
    <3> QED
      BY <3>1, <3>2, <3>3, AddSourceTyped
  <2> HIDE DEF T
  <2>3. Nat \subseteq T
    BY <2>1, <2>2, NumberInduction
  <2> QED
    BY <1>0, <2>3 DEF T
<1>8. freeze_jsonl_sources(sources, seed, maxTotal, maxRecords, maxOutput) =
         IF h[n].verdict = "ok" THEN freeze_records(h[n].records, seed, maxRecords, maxOutput)
         ELSE No(h[n].verdict)
  BY <1>2, <1>5
<1> QED
  BY <1>5, <1>6, <1>7, <1>8

(* What a freeze of sources reports and publishes.                         *)
LEMMA FreezeTyped ==
  ASSUME NEW sources \in Seq(Seq(Lines)), NEW seed, NEW maxTotal, NEW maxRecords \in Int,
         NEW maxOutput, NEW frozen,
         frozen = freeze_jsonl_sources(sources, seed, maxTotal, maxRecords, maxOutput)
  PROVE  /\ frozen.verdict \in Refusals \cup {"ok"}
         /\ IsOk(frozen) =>
               /\ verify_frozen_dataset(frozen.value, seed) /\ frozen.value \in Published
               /\ \E records \in Seq(Lines) : /\ records # <<>> /\ Distinct(records)
                                              /\ frozen.value = Frozen(Rows(records), seed)
<1>1. PICK all \in Sofars :
         frozen = IF all.verdict = "ok"
                  THEN freeze_records(all.records, seed, maxRecords, maxOutput)
                  ELSE No(all.verdict)
  BY SourcesRead
<1>2. all.verdict \in Refusals \cup {"ok"} /\ all.records \in Seq(Lines)
  BY DEF Sofars
<1>3. CASE all.verdict = "ok"
  <2>1. frozen = freeze_records(all.records, seed, maxRecords, maxOutput)
    BY <1>1, <1>3
  <2> QED
    BY <1>2, <2>1, FreezeResult
<1>4. CASE all.verdict # "ok"
  <2>1. frozen.verdict = all.verdict
    BY <1>1, <1>4 DEF No
  <2> QED
    BY <1>2, <1>4, <2>1 DEF IsOk
<1> QED
  BY <1>3, <1>4

SplitRecords == [data : Seq(Lines), count : Nat, sealed : BOOLEAN]

(* Sets of splits that no change to one split leaves.                      *)
Closed(Good) ==
    /\ Good \subseteq SplitRecords
    /\ \A s \in Good : /\ [s EXCEPT !.sealed = ~s.sealed] \in Good
                       /\ [s EXCEPT !.count = s.count + 1] \in Good
                       /\ 1 \in DOMAIN s.data => [s EXCEPT !.data[1].form = "loose"] \in Good
                       /\ \A data \in Seq(Lines) : Recounted(s, data) \in Good

(* The manifests whose splits are in such a set.                           *)
Within(Good) == {m \in Manifests : \A name \in Range(SplitNames) : m.splits[name] \in Good}

(* A split that counts at least the records it has.                        *)
CountedRecords == {s \in SplitRecords : s.count >= Len(s.data)}

(* A line may be written differently.                                      *)
LEMMA Loosened ==
  ASSUME NEW split \in SplitRecords, 1 \in DOMAIN split.data,
         NEW loose, loose = [split EXCEPT !.data[1].form = "loose"]
  PROVE  /\ loose \in SplitRecords /\ loose.count = split.count
         /\ Len(loose.data) = Len(split.data)
<1> DEFINE data == split.data
           changed == [data EXCEPT ![1].form = "loose"]
<1>1. data \in Seq(Lines)
  BY DEF SplitRecords
<1>2. changed \in Seq(Lines) /\ Len(changed) = Len(data)
  <2> DEFINE line == data[1]
             other == [line EXCEPT !.form = "loose"]
  <2>1. line \in Lines
    BY <1>1
  <2>2. changed = [data EXCEPT ![1] = other]
    OBVIOUS
  <2> HIDE DEF line
  <2>3. other \in Lines
    BY <2>1 DEF Lines
  <2> HIDE DEF other
  <2> QED
    BY <1>1, <2>2, <2>3
<1>3. loose = [split EXCEPT !.data = changed]
  BY DEF SplitRecords
<1> HIDE DEF changed
<1> QED
  BY <1>2, <1>3 DEF SplitRecords

(* A changed split is a split, and counts its records if it did.           *)
LEMMA BothClosed == Closed(SplitRecords) /\ Closed(CountedRecords)
<1>1. ASSUME NEW s \in SplitRecords
      PROVE  /\ [s EXCEPT !.sealed = ~s.sealed] \in SplitRecords
             /\ [s EXCEPT !.count = s.count + 1] \in SplitRecords
             /\ 1 \in DOMAIN s.data => [s EXCEPT !.data[1].form = "loose"] \in SplitRecords
             /\ \A data \in Seq(Lines) : Recounted(s, data) \in CountedRecords
  <2>1. [s EXCEPT !.sealed = ~s.sealed] \in SplitRecords
    BY DEF SplitRecords
  <2>2. [s EXCEPT !.count = s.count + 1] \in SplitRecords
    BY DEF SplitRecords
  <2>3. ASSUME NEW data \in Seq(Lines) PROVE Recounted(s, data) \in CountedRecords
    <3>1. Len(data) \in Nat
      OBVIOUS
    <3>2. Recounted(s, data) \in SplitRecords
      BY <3>1 DEF Recounted, SplitRecords
    <3>3. Recounted(s, data).count = Len(data) /\ Recounted(s, data).data = data
      BY DEF Recounted, SplitRecords
    <3> QED
      BY <3>1, <3>2, <3>3 DEF CountedRecords
  <2> QED
    BY <2>1, <2>2, <2>3, Loosened
<1>2. ASSUME NEW s \in CountedRecords
      PROVE  /\ [s EXCEPT !.sealed = ~s.sealed] \in CountedRecords
             /\ [s EXCEPT !.count = s.count + 1] \in CountedRecords
             /\ 1 \in DOMAIN s.data => [s EXCEPT !.data[1].form = "loose"] \in CountedRecords
  <2>1. s \in SplitRecords /\ s.count \in Nat /\ Len(s.data) \in Nat /\ s.count >= Len(s.data)
    BY DEF CountedRecords, SplitRecords
  <2> DEFINE a == [s EXCEPT !.sealed = ~s.sealed]
             b == [s EXCEPT !.count = s.count + 1]
             c == [s EXCEPT !.data[1].form = "loose"]
  <2>2. a.count = s.count /\ a.data = s.data /\ b.count = s.count + 1 /\ b.data = s.data
    BY <2>1 DEF SplitRecords
  <2>3. a \in SplitRecords /\ b \in SplitRecords
    BY <1>1, <2>1
  <2>4. 1 \in DOMAIN s.data => c \in SplitRecords /\ c.count = s.count /\ Len(c.data) = Len(s.data)
    BY <2>1, Loosened
  <2> HIDE DEF a, b, c
  <2>5. a \in CountedRecords /\ b \in CountedRecords /\ (1 \in DOMAIN s.data => c \in CountedRecords)
    BY <2>1, <2>2, <2>3, <2>4 DEF CountedRecords
  <2> QED
    BY <2>5 DEF a, b, c
<1>3. CountedRecords \subseteq SplitRecords
  BY DEF CountedRecords
<1> QED
  BY <1>1, <1>2, <1>3 DEF Closed

(* A manifest with another split in one place.                             *)
LEMMA WithSplitTyped ==
  ASSUME NEW Good, Closed(Good), manifest \in Within(Good), NEW name \in Range(SplitNames),
         NEW split \in Good
  PROVE  WithSplit(name, split) \in Within(Good)
<1> DEFINE splits == [manifest.splits EXCEPT ![name] = split]
<1>1. manifest \in Manifests /\ split \in SplitRecords
      /\ \A other \in Range(SplitNames) : manifest.splits[other] \in Good
  BY DEF Closed, Within
<1>2. splits \in [Range(SplitNames) -> SplitRecords]
  BY <1>1 DEF Manifests, SplitRecords
<1>3. \A other \in Range(SplitNames) : splits[other] \in Good
  BY <1>1 DEF Manifests
<1>4. WithSplit(name, split) = [manifest EXCEPT !.splits = splits]
  BY <1>1 DEF WithSplit, Manifests
<1> HIDE DEF splits
<1>5. WithSplit(name, split).splits = splits /\ WithSplit(name, split) \in Manifests
  BY <1>1, <1>2, <1>4 DEF Manifests, SplitRecords
<1> QED
  BY <1>3, <1>5 DEF Within

(* What is done to a published manifest leaves it a manifest, with its     *)
(* splits in the set they were in.                                         *)
LEMMA AlteredTyped ==
  ASSUME NEW Good, Closed(Good), manifest \in Within(Good), NEW name \in Range(SplitNames),
         NEW m \in Altered(name)
  PROVE  m \in Within(Good)
<1> DEFINE split == manifest.splits[name]
           data == split.data
           short == WithSplit(name, Recounted(split, Tail(data)))
           Moved(other, i) == [short EXCEPT !.splits[other] =
                                  Recounted(manifest.splits[other],
                                            Append(manifest.splits[other].data, data[i]))]
<1>1. split \in Good /\ \A other \in Range(SplitNames) : manifest.splits[other] \in Good
  BY DEF Within
<1>2. data \in Seq(Lines) /\ \A other \in Range(SplitNames) : manifest.splits[other].data \in Seq(Lines)
  <2>1. \A s \in Good : s.data \in Seq(Lines)
    BY DEF Closed, SplitRecords
  <2> QED
    BY <1>1, <2>1
<1>2a. \A s \in Good, d \in Seq(Lines) : Recounted(s, d) \in Good
  BY DEF Closed
<1>3. \/ m = WithSplit(name, [split EXCEPT !.sealed = ~split.sealed])
      \/ m = WithSplit(name, [split EXCEPT !.count = split.count + 1])
      \/ m = WithSplit(name, Recounted(split, Reverse(data)))
      \/ m = WithSplit(name, Recounted(split, data \o data))
      \/ 1 \in DOMAIN data /\ m = short
      \/ 1 \in DOMAIN data /\ m = WithSplit(name, [split EXCEPT !.data[1].form = "loose"])
      \/ \E other \in Range(SplitNames) \ {name} : 1 \in DOMAIN data /\ m = Moved(other, 1)
  <2> DEFINE A == {WithSplit(name, [split EXCEPT !.sealed = ~split.sealed]),
                   WithSplit(name, [split EXCEPT !.count = split.count + 1]),
                   WithSplit(name, Recounted(split, Reverse(data))),
                   WithSplit(name, Recounted(split, data \o data))}
             B == {short : i \in DOMAIN data \cap {1}}
             C == {WithSplit(name, [split EXCEPT !.data[1].form = "loose"]) :
                      i \in DOMAIN data \cap {1}}
             D == {Moved(other, i) : i \in DOMAIN data \cap {1}, other \in Range(SplitNames) \ {name}}
  <2>1. Altered(name) = ((A \cup B) \cup C) \cup D
    BY DEF Altered
  <2> HIDE DEF A, B, C, D
  <2>2. m \in A \/ m \in B \/ m \in C \/ m \in D
    BY <2>1
  <2> HIDE DEF short, Moved
  <2>3. ASSUME m \in D PROVE \E other \in Range(SplitNames) \ {name} : 1 \in DOMAIN data /\ m = Moved(other, 1)
    BY <2>3 DEF D
  <2>4. ASSUME m \in B PROVE 1 \in DOMAIN data /\ m = short
    BY <2>4 DEF B
  <2>5. ASSUME m \in C
        PROVE  1 \in DOMAIN data /\ m = WithSplit(name, [split EXCEPT !.data[1].form = "loose"])
    BY <2>5 DEF C
  <2>6. ASSUME m \in A
        PROVE  \/ m = WithSplit(name, [split EXCEPT !.sealed = ~split.sealed])
               \/ m = WithSplit(name, [split EXCEPT !.count = split.count + 1])
               \/ m = WithSplit(name, Recounted(split, Reverse(data)))
               \/ m = WithSplit(name, Recounted(split, data \o data))
    BY <2>6 DEF A
  <2> QED
    BY <2>2, <2>3, <2>4, <2>5, <2>6
<1> HIDE DEF short, Moved
<1>4. CASE m = WithSplit(name, [split EXCEPT !.sealed = ~split.sealed])
  <2>1. [split EXCEPT !.sealed = ~split.sealed] \in Good
    BY <1>1 DEF Closed
  <2> QED
    BY <1>4, <2>1, WithSplitTyped
<1>5. CASE m = WithSplit(name, [split EXCEPT !.count = split.count + 1])
  <2>1. [split EXCEPT !.count = split.count + 1] \in Good
    BY <1>1 DEF Closed
  <2> QED
    BY <1>5, <2>1, WithSplitTyped
<1>6. CASE m = WithSplit(name, Recounted(split, Reverse(data)))
  <2>1. Reverse(data) \in Seq(Lines)
    <3>1. Len(data) \in Nat /\ \A i \in 1..Len(data) : data[(Len(data) - i) + 1] \in Lines
      BY <1>2
    <3> QED
      BY <3>1 DEF Reverse
  <2>2. Recounted(split, Reverse(data)) \in Good
    BY <1>1, <1>2a, <2>1
  <2> QED
    BY <1>6, <2>2, WithSplitTyped
<1>7. CASE m = WithSplit(name, Recounted(split, data \o data))
  <2>1. data \o data \in Seq(Lines)
    BY <1>2
  <2>2. Recounted(split, data \o data) \in Good
    BY <1>1, <1>2a, <2>1
  <2> QED
    BY <1>7, <2>2, WithSplitTyped
<1>8. 1 \in DOMAIN data => short \in Within(Good)
  <2> SUFFICES ASSUME 1 \in DOMAIN data PROVE short \in Within(Good)
    OBVIOUS
  <2>1. Tail(data) \in Seq(Lines)
    BY <1>2
  <2>2. Recounted(split, Tail(data)) \in Good
    BY <1>1, <1>2a, <2>1
  <2> QED
    BY <2>2, WithSplitTyped DEF short
<1>9. CASE 1 \in DOMAIN data /\ m = WithSplit(name, [split EXCEPT !.data[1].form = "loose"])
  <2>1. [split EXCEPT !.data[1].form = "loose"] \in Good
    BY <1>1, <1>9 DEF Closed
  <2> QED
    BY <1>9, <2>1, WithSplitTyped
<1>10. ASSUME NEW other \in Range(SplitNames) \ {name}, 1 \in DOMAIN data, m = Moved(other, 1)
       PROVE  m \in Within(Good)
  <2> DEFINE line == data[1]
             longer == Recounted(manifest.splits[other], Append(manifest.splits[other].data, line))
             splits == [short.splits EXCEPT ![other] = longer]
  <2>1. Append(manifest.splits[other].data, line) \in Seq(Lines)
    <3>1. manifest.splits[other].data \in Seq(Lines) /\ line \in Lines
      BY <1>2, <1>10
    <3> QED
      BY <3>1
  <2>2. longer \in Good
    BY <1>1, <1>2a, <2>1
  <2>3. short \in Manifests /\ \A n \in Range(SplitNames) : short.splits[n] \in Good
    BY <1>8, <1>10 DEF Within
  <2>4. m = [short EXCEPT !.splits[other] = longer]
    BY <1>10 DEF Moved
  <2> HIDE DEF longer
  <2>5. longer \in SplitRecords
    BY <2>2 DEF Closed
  <2>6. splits \in [Range(SplitNames) -> SplitRecords]
    BY <2>3, <2>5 DEF Manifests, SplitRecords
  <2>7. \A n \in Range(SplitNames) : splits[n] \in Good
    BY <2>2, <2>3 DEF Manifests
  <2>8. m = [short EXCEPT !.splits = splits]
    BY <2>3, <2>4 DEF Manifests
  <2> HIDE DEF splits
  <2>9. m \in Manifests /\ m.splits = splits
    BY <2>3, <2>6, <2>8 DEF Manifests, SplitRecords
  <2> QED
    BY <2>7, <2>9 DEF Within
<1> QED
  BY <1>3, <1>4, <1>5, <1>6, <1>7, <1>8, <1>9, <1>10

(* A score is cut to the scale, whatever the weights.                      *)
LEMMA ScoreInRange ==
  ASSUME NEW payload, payload \in [DOMAIN payload -> Numbers], IsFiniteSet(DOMAIN payload),
         "bias" \in DOMAIN payload, NEW features, features \in [DOMAIN features -> Int]
  PROVE  score_linear_evaluator(payload, features) \in 0..TopScore
<1> DEFINE W == DOMAIN payload \ {"bias"}
           f == [w \in W |-> IF w \in DOMAIN features THEN payload[w].value * features[w] ELSE 0]
           sum == Summed(f, W)
<1>1. score_linear_evaluator(payload, features) = Clamped(payload["bias"].value + Total(f))
  BY DEF score_linear_evaluator, Total
<1>2. Total(f) = sum
  BY TotalIsSummed
<1>3. IsFiniteSet(W)
  BY FS_Subset
<1>4. \A w \in W : f[w] \in Int
  <2> SUFFICES ASSUME NEW w \in W PROVE f[w] \in Int
    OBVIOUS
  <2>1. payload[w].value \in Int
    BY DEF Numbers
  <2>2. w \in DOMAIN features => features[w] \in Int
    OBVIOUS
  <2>3. f[w] = IF w \in DOMAIN features THEN payload[w].value * features[w] ELSE 0
    OBVIOUS
  <2> HIDE DEF f
  <2> QED
    BY <2>1, <2>2, <2>3
<1> HIDE DEF f, W
<1>5. sum \in Int
  BY <1>3, <1>4, SumRemove
<1>6. payload["bias"].value \in Int
  BY DEF Numbers
<1> HIDE DEF sum
<1>7. \A score \in Int : Clamped(score) \in 0..TopScore
  BY DEF Clamped, TopScore
<1>8. payload["bias"].value + sum \in Int
  BY <1>5, <1>6
<1> QED
  BY <1>1, <1>2, <1>7, <1>8

(* The value of a metric lies in the range of its gate.                    *)
LEMMA MetricInRange ==
  ASSUME NEW n \in Nat \ {0}, NEW labels \in ScoreSeq(n), NEW scores \in ScoreSeq(n),
         NEW spec, spec.bins \in Nat \ {0}, spec.max_pairs \in Nat \ {0},
         NEW name \in DOMAIN METRIC_DIRECTIONS, NEW value,
         value = _metric_value(name, spec, labels, scores)
  PROVE  value \in Int /\ Between(_gate_ranges(name)[1], value, _gate_ranges(name)[2])
<1>0. Scale \in Nat
  BY MetricsAssumption
<1>1. CASE name = "mae"
  <2>1. value = mae(labels, scores)
    BY <1>1, MetricsAssumption DEF _metric_value
  <2>2. mae(labels, scores) \in 0..(TopScore * Scale)
    BY MaeRange
  <2>3. _gate_ranges(name) = <<0, 100 * Scale, 100 * Scale>>
    BY <1>1 DEF _gate_ranges
  <2> QED
    BY <1>0, <2>1, <2>2, <2>3 DEF Between, TopScore
<1>2. CASE name = "spearman"
  <2>1. value = spearman(labels, scores)
    BY <1>2, MetricsAssumption DEF _metric_value
  <2>2. spearman(labels, scores) \in (-Scale)..Scale
    BY SpearmanRange
  <2>3. _gate_ranges(name) = <<-Scale, Scale, 2 * Scale>>
    BY <1>2 DEF _gate_ranges
  <2> QED
    BY <1>0, <2>1, <2>2, <2>3 DEF Between
<1>3. CASE name \notin {"mae", "spearman"}
  <2>1. _gate_ranges(name) = <<0, Scale, Scale>>
    BY <1>3 DEF _gate_ranges
  <2>2. value \in 0..Scale
    <3>1. CASE name = "pairwise_accuracy"
      <4>1. value = pairwise_accuracy(labels, scores, spec.max_pairs)
        BY <3>1, MetricsAssumption DEF _metric_value
      <4>2. Len(labels) = n
        BY ScoreSeqFacts
      <4>3. IsFiniteSet(DOMAIN _sampled_pair_indices(Len(labels), spec.max_pairs))
        BY <4>2, SampleFinite
      <4> QED
        BY <4>1, <4>3, PairwiseRange
    <3>2. CASE name \in DOMAIN CutOff
      <4>1. name \in {"ndcg_at_10", "ndcg_at_50"} /\ CutOff[name] \in Nat
            /\ 1..CutOff[name] \subseteq DOMAIN Discount
        BY <3>2, MetricsAssumption
      <4>2. value = ndcg(labels, scores, CutOff[name])
        BY <3>2, <4>1 DEF _metric_value
      <4> QED
        BY <4>1, <4>2, NdcgRange
    <3>3. CASE name = "f1"
      <4>1. value = f1(labels, scores, spec.threshold)
        BY <3>3, MetricsAssumption DEF _metric_value
      <4> QED
        BY <4>1, F1Range
    <3>4. CASE name \notin DOMAIN CutOff /\ name \notin {"pairwise_accuracy", "f1"}
      <4>1. value = calibration_error(labels, scores, spec.bins)
        BY <1>3, <3>4 DEF _metric_value
      <4> QED
        BY <4>1, CalibrationRange
    <3> QED
      BY <3>1, <3>2, <3>3, <3>4
  <2> QED
    BY <1>0, <2>1, <2>2 DEF Between
<1> QED
  BY <1>1, <1>2, <1>3

(* The three split names, in the manifest's order.                         *)
LEMMA SplitNamesAre ==
  /\ Range(SplitNames) = {"train", "validation", "test"} /\ DOMAIN SplitNames = 1..3
  /\ SplitNames[1] = "train" /\ SplitNames[2] = "validation" /\ SplitNames[3] = "test"
  /\ \A i \in 1..3 : SplitNames[i] \in Range(SplitNames)
<1>1. DOMAIN SplitNames = 1..3
  BY DEF SplitNames
<1>2. SplitNames[1] = "train" /\ SplitNames[2] = "validation" /\ SplitNames[3] = "test"
  BY DEF SplitNames
<1>3. 1..3 = {1, 2, 3}
  OBVIOUS
<1>4. Range(SplitNames) = {SplitNames[i] : i \in {1, 2, 3}}
  BY <1>1, <1>3 DEF Range
<1> QED
  BY <1>1, <1>2, <1>3, <1>4

(* Sizes add up.                                                           *)
Sizes(datas) == [i \in DOMAIN datas |-> Size(datas[i])]

(* The total size of the splits is a sum of numbers.                       *)
LEMMA TotalSizeIsSum ==
  ASSUME NEW datas \in Seq(Seq(Lines))
  PROVE  /\ IsFiniteSet(DOMAIN datas) /\ \A i \in DOMAIN datas : Sizes(datas)[i] \in Nat
         /\ TotalSize(datas) = Summed(Sizes(datas), DOMAIN datas)
         /\ TotalSize(datas) \in Nat
<1> DEFINE f == Sizes(datas)
           D == DOMAIN datas
<1>1. IsFiniteSet(D)
  BY FS_Interval
<1>2. \A i \in D : f[i] \in Nat
  <2>1. \A i \in D : datas[i] \in Seq(Lines)
    OBVIOUS
  <2>2. \A i \in D : Size(datas[i]) \in Nat
    BY <2>1, SizeIsNumber
  <2> QED
    BY <2>2 DEF Sizes
<1>3. TotalSize(datas) = Total(f)
  BY Zenon DEF TotalSize, Total, Sizes
<1>4. DOMAIN f = D
  BY DEF Sizes
<1>5. TotalSize(datas) = Summed(f, D)
  BY <1>3, <1>4, TotalIsSummed
<1> HIDE DEF f, D
<1>6. Summed(f, D) \in Int /\ Summed(f, D) >= 0
  <2>1. \A i \in D : f[i] \in Int
    BY <1>2
  <2>2. \A i \in D \ {} : f[i] >= 0
    BY <1>2
  <2>3. Summed(f, {}) <= Summed(f, D)
    BY <1>1, <2>1, <2>2, SumPart
  <2>4. Summed(f, D) \in Int
    BY <1>1, <2>1, SumRemove
  <2> QED
    BY <2>3, <2>4, SumEmpty
<1> QED
  BY <1>1, <1>2, <1>5, <1>6 DEF f, D

(* The check of the splits, one after the other.                           *)
Readings == [verdict : Refusals \cup {"ok"}, records : Int, bytes : Int]

(* Reading one split keeps the state of the verification well formed.      *)
LEMMA ReadSplitTyped ==
  ASSUME NEW sofar \in Readings, NEW split \in SplitRecords, NEW maxRecords, NEW maxBytes
  PROVE  ReadSplit(sofar, split, maxRecords, maxBytes) \in Readings
<1> DEFINE records == maxRecords - sofar.records
           bytes == maxBytes - sofar.bytes
           parsed == parse_scoring_jsonl(split.data, bytes, records, TRUE)
           next == [verdict |-> "ok", records |-> sofar.records + split.count,
                    bytes |-> sofar.bytes + Size(split.data)]
<1>1. parsed.verdict \in Refusals \cup {"ok"}
  BY ParserResult
<1>2. next \in Readings
  <2>1. split.count \in Int /\ Size(split.data) \in Int
    BY SizeIsNumber DEF SplitRecords
  <2> QED
    BY <2>1 DEF Readings
<1> HIDE DEF parsed, next
<1>3. ReadSplit(sofar, split, maxRecords, maxBytes) \in
         {sofar, [sofar EXCEPT !.verdict = "limit"], [sofar EXCEPT !.verdict = "invalid"],
          [sofar EXCEPT !.verdict = parsed.verdict], next}
  BY Zenon DEF ReadSplit, parsed, next
<1>4. \A why \in Refusals \cup {"ok"} : [sofar EXCEPT !.verdict = why] \in Readings
  BY DEF Readings
<1>5. {"limit", "invalid"} \subseteq Refusals
  BY DEF Refusals
<1> QED
  BY <1>1, <1>2, <1>3, <1>4, <1>5

ReadStart(m, maxBytes) ==
    [verdict |-> IF TotalSize(m.sources) <= maxBytes THEN "ok" ELSE "limit",
     records |-> 0, bytes |-> TotalSize(m.sources)]

SplitsEquation(g, m, maxRecords, maxBytes) ==
    g = [s \in SUBSET DOMAIN SplitNames |->
            IF s = {} THEN ReadStart(m, maxBytes)
            ELSE ReadSplit(g[s \ {Max(s)}], m.splits[SplitNames[Max(s)]], maxRecords, maxBytes)]

(* The verification starts well formed.                                    *)
LEMMA ReadStartTyped ==
  ASSUME NEW m \in Manifests, NEW maxBytes
  PROVE  ReadStart(m, maxBytes) \in Readings
<1>1. m.sources \in Seq(Seq(Lines))
  BY DEF Manifests
<1>2. TotalSize(m.sources) \in Nat
  BY <1>1, TotalSizeIsSum
<1> QED
  BY <1>2 DEF ReadStart, Readings, Refusals

(* The fold over the splits has a solution.                                *)
LEMMA SplitsSolution ==
  ASSUME NEW m \in Manifests, NEW maxRecords, NEW maxBytes
  PROVE  \E g : SplitsEquation(g, m, maxRecords, maxBytes)
<1> DEFINE S == DOMAIN SplitNames
           base == ReadStart(m, maxBytes)
           Step(i, t) == ReadSplit(t, m.splits[SplitNames[i]], maxRecords, maxBytes)
           pick == [s \in SUBSET S |-> Max(s)]
           step == [i \in S |-> [t \in Readings |-> Step(i, t)]]
<1>0. S = 1..3
  BY SplitNamesAre
<1>1. IsFiniteSet(S)
  <2>1. \A n \in Nat : IsFiniteSet(1..n)
    BY FS_Interval
  <2> QED
    BY <1>0, <2>1
<1>2. \A s \in SUBSET S : pick[s] = Max(s) /\ (s # {} => Max(s) \in s)
  <2>1. \A s \in SUBSET S : s # {} => Max(s) \in s
    BY <1>0, MaxChosen
  <2> QED
    BY <2>1
<1>3. base \in Readings
  BY ReadStartTyped
<1>4. \A i \in S, t \in Readings : step[i][t] = Step(i, t) /\ Step(i, t) \in Readings
  <2>1. \A i \in S : m.splits[SplitNames[i]] \in SplitRecords
    BY SplitNamesAre DEF Manifests, SplitRecords
  <2> QED
    BY <2>1, ReadSplitTyped
<1> HIDE DEF S, Step, pick, step, base
<1>5. PICK g : /\ ChainEquation(g, S, pick, base, step)
               /\ \A s \in SUBSET S : g[s] \in Readings
  <2>1. \A s \in SUBSET S : s # {} => pick[s] \in s
    BY <1>2
  <2>2. \A i \in S, t \in Readings : step[i][t] \in Readings
    BY <1>4
  <2> QED
    BY <1>1, <1>3, <2>1, <2>2, ChainSolution
<1>6. \A s \in SUBSET S : s # {} => step[pick[s]][g[s \ {pick[s]}]] = Step(Max(s), g[s \ {Max(s)}])
  <2> SUFFICES ASSUME NEW s \in SUBSET S, s # {}
               PROVE  step[pick[s]][g[s \ {pick[s]}]] = Step(Max(s), g[s \ {Max(s)}])
    OBVIOUS
  <2>1. pick[s] = Max(s) /\ Max(s) \in S /\ s \ {Max(s)} \in SUBSET S
    BY <1>2
  <2>2. g[s \ {Max(s)}] \in Readings
    BY <1>5, <2>1
  <2> QED
    BY <1>4, <2>1, <2>2
<1>7. g = [s \in SUBSET S |-> IF s = {} THEN base ELSE Step(Max(s), g[s \ {Max(s)}])]
  BY <1>5, <1>6 DEF ChainEquation
<1> QED
  BY <1>7 DEF SplitsEquation, S, Step, base

(* verify_dataset_manifest reads train, then validation, then test.        *)
LEMMA SplitsSteps ==
  ASSUME NEW m \in Manifests, NEW maxRecords, NEW maxBytes
  PROVE  \E h1, h2, h3 \in Readings :
            /\ h1 = ReadSplit(ReadStart(m, maxBytes), m.splits["train"], maxRecords, maxBytes)
            /\ h2 = ReadSplit(h1, m.splits["validation"], maxRecords, maxBytes)
            /\ h3 = ReadSplit(h2, m.splits["test"], maxRecords, maxBytes)
            /\ SplitsRead(m, maxRecords, maxBytes) = h3
<1> DEFINE g == CHOOSE g : SplitsEquation(g, m, maxRecords, maxBytes)
<1>1. SplitsEquation(g, m, maxRecords, maxBytes)
  BY SplitsSolution
<1>2. SplitsRead(m, maxRecords, maxBytes) = g[DOMAIN SplitNames]
  BY Zenon DEF SplitsRead, FoldLeft, MapThenFoldSet, SplitsEquation, ReadStart
<1> HIDE DEF g
<1>3. g[{}] = ReadStart(m, maxBytes)
  BY <1>1 DEF SplitsEquation
<1>4. ASSUME NEW j \in 1..3
      PROVE  g[1..j] = ReadSplit(g[1..(j - 1)], m.splits[SplitNames[j]], maxRecords, maxBytes)
  <2>0. j \in 1..j /\ \A i \in 1..j : i \in 1..3
    OBVIOUS
  <2>1. 1..j \in SUBSET DOMAIN SplitNames /\ 1..j # {}
    BY <2>0, SplitNamesAre
  <2>2. Max(1..j) = j
    BY MaxChosen
  <2>3. (1..j) \ {j} = 1..(j - 1)
    OBVIOUS
  <2>4. g[1..j] = ReadSplit(g[(1..j) \ {Max(1..j)}], m.splits[SplitNames[Max(1..j)]],
                            maxRecords, maxBytes)
    BY <1>1, <2>1 DEF SplitsEquation
  <2> QED
    BY <2>2, <2>3, <2>4
<1>5. \A name \in {"train", "validation", "test"} : m.splits[name] \in SplitRecords
  BY SplitNamesAre DEF Manifests, SplitRecords
<1> DEFINE h1 == g[1..1]
           h2 == g[1..2]
           h3 == g[1..3]
<1>6. /\ h1 = ReadSplit(ReadStart(m, maxBytes), m.splits["train"], maxRecords, maxBytes)
      /\ h2 = ReadSplit(h1, m.splits["validation"], maxRecords, maxBytes)
      /\ h3 = ReadSplit(h2, m.splits["test"], maxRecords, maxBytes)
      /\ SplitsRead(m, maxRecords, maxBytes) = h3
  <2>1. 1..0 = {} /\ 1 - 1 = 0 /\ 2 - 1 = 1 /\ 3 - 1 = 2 /\ 1 \in 1..3 /\ 2 \in 1..3 /\ 3 \in 1..3
    OBVIOUS
  <2>2. g[1..1] = ReadSplit(g[1..0], m.splits["train"], maxRecords, maxBytes)
    BY <1>4, <2>1, SplitNamesAre
  <2>3. g[1..2] = ReadSplit(g[1..1], m.splits["validation"], maxRecords, maxBytes)
    BY <1>4, <2>1, SplitNamesAre
  <2>4. g[1..3] = ReadSplit(g[1..2], m.splits["test"], maxRecords, maxBytes)
    BY <1>4, <2>1, SplitNamesAre
  <2> QED
    BY <1>2, <1>3, <2>1, <2>2, <2>3, <2>4, SplitNamesAre
<1> HIDE DEF h1, h2, h3
<1>7. h1 \in Readings
  BY <1>5, <1>6, ReadStartTyped, ReadSplitTyped
<1>8. h2 \in Readings
  BY <1>5, <1>6, <1>7, ReadSplitTyped
<1>9. h3 \in Readings
  BY <1>5, <1>6, <1>8, ReadSplitTyped
<1> QED
  BY <1>6, <1>7, <1>8, <1>9

(* A change that is verified leaves the two payloads equal but for one     *)
(* leaf.                                                                   *)
LEMMA OneLeaf ==
  ASSUME NEW before, NEW after, NEW d, before \in [DOMAIN before -> Numbers],
         after \in [DOMAIN after -> Numbers], verify_candidate_change(d, before, after)
  PROVE  /\ before # after
         /\ after = [before EXCEPT ![d.path] = d.new]
         /\ before = [after EXCEPT ![d.path] = d.old]
         /\ d.old.type = d.new.type
<1>1. DOMAIN before = DOMAIN after /\ d.old.type = d.new.type
  BY DEF verify_candidate_change, SameStructure
<1>2. \A leaf \in DOMAIN before : before[leaf].type = after[leaf].type
  BY <1>1 DEF verify_candidate_change
<1>3. /\ d.path \in DOMAIN before /\ before[d.path].value # after[d.path].value
      /\ \A leaf \in DOMAIN before : leaf # d.path => before[leaf].value = after[leaf].value
  BY <1>1 DEF verify_candidate_change, Differences
<1>4. \A leaf \in DOMAIN before : leaf # d.path => before[leaf] = after[leaf]
  BY <1>1, <1>2, <1>3 DEF Numbers
<1>5. before[d.path] = d.old /\ after[d.path] = d.new
  BY DEF verify_candidate_change
<1> QED
  BY <1>1, <1>3, <1>4, <1>5

(***************************************************************************)
(* The inductive invariant.  The properties speak of a result or of a      *)
(* candidate; they hold because a document, once chosen, is not replaced,  *)
(* and because what was checked of it holds as long as it is there.        *)
(***************************************************************************)

(* The job past its submission is one of the jobs, and it was permitted.   *)
Submitted == stage \in {"benchmark", "dataset", "candidate", "evaluate", "done"} =>
                 job \in Jobs /\ Permitted(job)

(* The dataset past its check is a frozen one.                             *)
Checked == DatasetRead => verify_frozen_dataset(manifest.splits, manifest.seed)

(* A candidate is there only once its change is verified against the job's *)
(* baseline.                                                               *)
Admitted ==
    candidate # Nothing =>
        /\ stage \in {"evaluate", "done"}
        /\ candidate.payload \in Payloads
        /\ verify_candidate_change(candidate.declared, job.baseline, candidate.payload)

(* A result is the last thing made, and its records are of the job's split *)
Selected ==
    result # Nothing =>
        /\ stage = "done"
        /\ \A i \in result.records : SplitOf[manifest.seed][i] = job.split

IInv == Submitted /\ Checked /\ Admitted /\ Selected

(* What the parser accepts is what it was given.                           *)
LEMMA ParserKeeps ==
  ASSUME NEW data, NEW maxBytes, NEW maxRecords,
         IsOk(parse_scoring_jsonl(data, maxBytes, maxRecords, FALSE))
  PROVE  parse_scoring_jsonl(data, maxBytes, maxRecords, FALSE).value = data
<1> DEFINE parsed == parse_scoring_jsonl(data, maxBytes, maxRecords, FALSE)
<1>1. parsed \in {No("crash"), No("limit"), No("invalid"), Scan(data, maxRecords)}
  BY DEF parse_scoring_jsonl
<1>2. Scan(data, maxRecords) \in {No("invalid"), No("limit"), Ok(data)}
  BY DEF Scan
<1>3. \A why \in {"crash", "limit", "invalid"} : No(why).verdict # "ok"
  BY DEF No
<1>4. parsed = Ok(data)
  BY <1>1, <1>2, <1>3 DEF IsOk
<1>5. Ok(data).value = data
  BY DEF Ok
<1> QED
  BY <1>4, <1>5, Zenon

(* The records a packet names are the records given.                       *)
LEMMA PacketRecords ==
  ASSUME NEW records
  PROVE  Packet(records).records = {r.id : r \in Range(records)}
  BY DEF Packet

(* A manifest that passes describes a frozen dataset.                      *)
LEMMA PassedIsFrozen ==
  ASSUME NEW m, NEW maxRecords, NEW maxBytes,
         verify_dataset_manifest(m, maxRecords, maxBytes) = "ok"
  PROVE  verify_frozen_dataset(m.splits, m.seed)
  BY DEF verify_dataset_manifest

(* What the documents establish holds before any is read.                  *)
LEMMA InvInit == Init => IInv
  BY DEF Init, IInv, Submitted, Checked, Admitted, Selected, DatasetRead

(* A step of one of the two ways an action ends.                           *)
LEMMA Ends ==
  ASSUME NEW next, NEW refusal, Then(next, refusal)
  PROVE  IF refusal = "ok" THEN stage' = next /\ verdict' = "ok"
                           ELSE stage' = stage /\ verdict' = refusal
  BY DEF Then

(* Every step keeps what the checks of the documents established.          *)
LEMMA InvNext == IInv /\ [Next]_vars => IInv'
<1> SUFFICES ASSUME IInv, [Next]_vars PROVE IInv'
  OBVIOUS
<1> USE DEF IInv, Submitted, Checked, Admitted, Selected, DatasetRead
<1>1. ASSUME NEW e \in Exports, Freeze(e.sources, e.seed, e.max_records) PROVE IInv'
  <2>1. stage = "freeze" /\ stage' \in {"freeze", "publish"}
        /\ candidate' = candidate /\ result' = result
    BY <1>1, Ends DEF Freeze, Reads, Then
  <2> QED
    BY <2>1
<1>2. ASSUME NEW name \in Range(SplitNames), Tamper(name) PROVE IInv'
  <2>1. stage = "publish" /\ stage' = stage /\ candidate' = candidate /\ result' = result
    BY <1>2 DEF Tamper, Reads
  <2> QED
    BY <2>1
<1>3. ASSUME NEW j \in Jobs, Submit(j) PROVE IInv'
  <2>1. /\ stage = "publish" /\ job' = j /\ candidate' = candidate /\ result' = result
        /\ stage' = IF Permitted(j) THEN "benchmark" ELSE "publish"
    BY <1>3 DEF Submit, Reads, Then
  <2> QED
    BY <2>1 DEF Permitted
<1>4. ASSUME NEW b \in Benchmarks, ReadBenchmark(b) PROVE IInv'
  <2>1. /\ stage = "benchmark" /\ stage' \in {"benchmark", "dataset"} /\ job' = job
        /\ candidate' = candidate /\ result' = result
    BY <1>4 DEF ReadBenchmark, Reads, Then
  <2> QED
    BY <2>1 DEF Permitted
<1>5. CASE ReadDataset
  <2> DEFINE read == verify_dataset_manifest(manifest, job.max_records, job.max_input_bytes)
  <2>1. /\ stage = "dataset" /\ stage' \in {"dataset", "candidate"} /\ job' = job
        /\ manifest' = manifest /\ candidate' = candidate /\ result' = result
        /\ stage' = "candidate" => read = "ok"
    BY <1>5 DEF ReadDataset, Reads, Then
  <2>2. stage' = "candidate" => verify_frozen_dataset(manifest.splits, manifest.seed)
    BY <2>1, PassedIsFrozen
  <2>3. Checked'
    BY <2>1, <2>2
  <2> QED
    BY <2>1, <2>3 DEF Permitted
<1>6. ASSUME NEW p \in Payloads, NEW d \in Declarations, ReadCandidate(p, d) PROVE IInv'
  <2>1. /\ stage = "candidate" /\ stage' \in {"candidate", "evaluate"}
        /\ job' = job /\ manifest' = manifest /\ result' = result
    BY <1>6 DEF ReadCandidate, Reads, Then
  <2>2. candidate' # Nothing =>
           /\ stage' = "evaluate" /\ candidate' = [payload |-> p, declared |-> d]
           /\ Admits(p, d) = "ok"
    BY <1>6 DEF ReadCandidate, Then
  <2>3. Admits(p, d) = "ok" => verify_candidate_change(d, job.baseline, p)
    BY DEF Admits
  <2>4. Admitted'
    BY <2>1, <2>2, <2>3
  <2> QED
    BY <2>1, <2>4 DEF Permitted
<1>7. CASE Evaluate
  <2> DEFINE data == manifest.splits[job.split].data
             parsed == parse_scoring_jsonl(data, job.max_input_bytes, job.max_records, FALSE)
  <2>1. /\ stage = "evaluate" /\ stage' \in {"evaluate", "done"}
        /\ job' = job /\ manifest' = manifest /\ candidate' = candidate
    BY <1>7 DEF Evaluate, Reads, Then
  <2>2. result' # Nothing => /\ stage' = "done" /\ IsOk(parsed)
                             /\ result' = Packet(parsed.value)
    BY <1>7 DEF Evaluate, Then, IsOk
  <2>3. IsOk(parsed) => parsed.value = data
    BY ParserKeeps
  <2>4. \A i \in DOMAIN data : SplitOf[manifest.seed][data[i].id] = job.split
    <3>1. job.split \in Range(SplitNames)
      <4>1. job.split \in {"validation", "test"}
        BY <2>1, ExperimentAssumption
      <4>2. SplitNames[2] = "validation" /\ SplitNames[3] = "test" /\ {2, 3} \subseteq DOMAIN SplitNames
        BY DEF SplitNames
      <4> QED
        BY <4>1, <4>2 DEF Range
    <3>2. SplitHolds(data, manifest.seed, job.split)
      BY <2>1, <3>1 DEF verify_frozen_dataset
    <3> QED
      BY <3>2 DEF SplitHolds
  <2>5. result' # Nothing => result'.records = {r.id : r \in Range(data)}
    BY <2>2, <2>3, PacketRecords, Zenon
  <2>6. result' # Nothing => \A i \in result'.records : SplitOf[manifest.seed][i] = job.split
    BY <2>4, <2>5 DEF Range
  <2>7. Selected'
    BY <2>1, <2>2, <2>6
  <2> QED
    BY <2>1, <2>7 DEF Permitted
<1>8. CASE UNCHANGED vars
  BY <1>8 DEF vars, Permitted
<1> QED
  BY <1>1, <1>2, <1>3, <1>4, <1>5, <1>6, <1>7, <1>8 DEF Next

(* The invariant of the documents holds of the specification.              *)
LEMMA Inductive == Spec => []IInv
  BY InvInit, InvNext, PTL DEF Spec

(* A decision is taken on records of the job's split alone and never on a  *)
(* sealed one, whatever was done to the published manifest                 *)
(* (_evaluate_loaded_job).                                                 *)
THEOREM TestSplitSealed == Spec => []SealedUnread
<1>1. IInv => SealedUnread
  BY DEF IInv, Submitted, Selected, Permitted, SealedUnread
<1> QED
  BY <1>1, Inductive, PTL

(* The payload that is evaluated differs from the baseline in the declared *)
(* leaf and nowhere else, for payloads of any number of weights            *)
(* (verify_candidate_change).                                              *)
THEOREM OneChange == Spec => []NoHiddenDrift
<1>1. IInv => NoHiddenDrift
  <2> SUFFICES ASSUME IInv, candidate # Nothing PROVE NoHiddenDrift
    BY DEF NoHiddenDrift
  <2> DEFINE before == job.baseline
             after == candidate.payload
  <2>1. /\ job \in Jobs /\ after \in Payloads
        /\ verify_candidate_change(candidate.declared, before, after)
    BY DEF IInv, Submitted, Admitted
  <2>2. before \in [DOMAIN before -> Numbers] /\ after \in [DOMAIN after -> Numbers]
    BY <2>1, ExperimentAssumption
  <2> QED
    BY <2>1, <2>2, OneLeaf DEF NoHiddenDrift
<1> QED
  BY <1>1, Inductive, PTL

(* Whatever two evaluations report, a candidate that is kept is nowhere    *)
(* worse than its baseline, and if some gate asks for an improvement the   *)
(* two evaluations in the other order are discarded                        *)
(* (recompute_canonical_result).                                           *)
THEOREM KeptIsNoWorse ==
  ASSUME NEW specs, parse_metric_specs(specs),
         \A n \in DOMAIN specs : specs[n].minimum_delta \in Int,
         NEW before \in [DOMAIN specs -> Int], NEW after \in [DOMAIN specs -> Int],
         recompute_canonical_result(before, after, specs).decision = "KEEP"
  PROVE  /\ \A n \in DOMAIN specs :
               IF METRIC_DIRECTIONS[n] = "higher" THEN after[n] >= before[n]
                                                  ELSE after[n] <= before[n]
         /\ (\E n \in DOMAIN specs : specs[n].minimum_delta > 0) =>
               recompute_canonical_result(after, before, specs).decision = "DISCARD"
<1> DEFINE Fails(old, new) == {n \in DOMAIN specs : ~Passed(n, specs[n], old[n], new[n])}
<1>1. \A old, new : recompute_canonical_result(old, new, specs).decision
                        = IF Fails(old, new) = {} THEN "KEEP" ELSE "DISCARD"
  BY DEF recompute_canonical_result
<1>2. \A n \in DOMAIN specs : Passed(n, specs[n], before[n], after[n])
  BY <1>1
<1>3. \A n \in DOMAIN specs : 0 <= specs[n].minimum_delta
  BY DEF parse_metric_specs, Between
<1>4. \A n \in DOMAIN specs : Improvement(n, before[n], after[n]) >= specs[n].minimum_delta
  BY <1>2 DEF Passed
<1>5. \A n \in DOMAIN specs :
         /\ before[n] \in Int /\ after[n] \in Int
         /\ METRIC_DIRECTIONS[n] = "higher" => after[n] - before[n] >= specs[n].minimum_delta
         /\ METRIC_DIRECTIONS[n] # "higher" => before[n] - after[n] >= specs[n].minimum_delta
  BY <1>4 DEF Improvement
<1>6. \A n \in DOMAIN specs :
         IF METRIC_DIRECTIONS[n] = "higher" THEN after[n] >= before[n] ELSE after[n] <= before[n]
  BY <1>3, <1>5
<1>7. ASSUME NEW n \in DOMAIN specs, specs[n].minimum_delta > 0
      PROVE  recompute_canonical_result(after, before, specs).decision = "DISCARD"
  <2>1. Improvement(n, after[n], before[n]) < specs[n].minimum_delta
    BY <1>5, <1>7 DEF Improvement
  <2>2. Improvement(n, after[n], before[n]) \in Int
    BY <1>5 DEF Improvement
  <2>3. ~Passed(n, specs[n], after[n], before[n])
    BY <2>1, <2>2 DEF Passed
  <2>4. n \in Fails(after, before)
    BY <2>3
  <2> QED
    BY <1>1, <2>4
<1> QED
  BY <1>6, <1>7

(* The benchmark past its check has gates in their ranges, and a result    *)
(* carries the decision that its own values and those gates give.          *)
Gated ==
    stage \in {"dataset", "candidate", "evaluate", "done"} =>
        benchmark \in Benchmarks /\ parse_metric_specs(benchmark.metrics)

Decided ==
    result # Nothing =>
        /\ stage = "done"
        /\ result.outcome = recompute_canonical_result(result.baseline, result.candidate,
                                                       benchmark.metrics)

(* A packet's outcome is recomputed from the values it reports.            *)
LEMMA PacketDecides ==
  ASSUME NEW records
  PROVE  Packet(records).outcome =
             recompute_canonical_result(Packet(records).baseline, Packet(records).candidate,
                                        benchmark.metrics)
  BY DEF Packet, evaluate_experiment

(* Every step keeps the benchmark parsed and the decision recomputed.      *)
LEMMA DecisionNext == Gated /\ Decided /\ [Next]_vars => Gated' /\ Decided'
<1> SUFFICES ASSUME Gated, Decided, [Next]_vars PROVE Gated' /\ Decided'
  OBVIOUS
<1>1. CASE \/ \E e \in Exports : Freeze(e.sources, e.seed, e.max_records)
           \/ \E name \in Range(SplitNames) : Tamper(name)
           \/ \E j \in Jobs : Submit(j)
  <2>1. stage \in {"freeze", "publish"} /\ stage' \in {"freeze", "publish", "benchmark"}
        /\ result' = result
    BY <1>1 DEF Freeze, Tamper, Submit, Reads, Then
  <2> QED
    BY <2>1 DEF Gated, Decided
<1>2. ASSUME NEW b \in Benchmarks, ReadBenchmark(b) PROVE Gated' /\ Decided'
  <2>1. /\ stage = "benchmark" /\ result' = result /\ benchmark' = b
        /\ stage' = IF Binds(b) THEN "dataset" ELSE "benchmark"
    BY <1>2 DEF ReadBenchmark, Reads, Then
  <2> QED
    BY <2>1 DEF Gated, Decided, Binds
<1>3. CASE ReadDataset \/ \E p \in Payloads, d \in Declarations : ReadCandidate(p, d)
  <2>1. /\ stage \in {"dataset", "candidate"} /\ result' = result /\ benchmark' = benchmark
    BY <1>3 DEF ReadDataset, ReadCandidate, Reads
  <2> QED
    BY <2>1 DEF Gated, Decided
<1>4. CASE Evaluate
  <2>1. stage = "evaluate" /\ benchmark' = benchmark
    BY <1>4 DEF Evaluate, Reads
  <2>2. result' # Nothing => \E records : result' = Packet(records) /\ stage' = "done"
    BY <1>4 DEF Evaluate, Then, IsOk
  <2>3. Decided'
    BY <2>1, <2>2, PacketDecides DEF Decided
  <2>4. Gated'
    BY <2>1 DEF Gated
  <2> QED
    BY <2>3, <2>4
<1>5. CASE UNCHANGED vars
  BY <1>5 DEF vars, Gated, Decided
<1> QED
  BY <1>1, <1>2, <1>3, <1>4, <1>5 DEF Next

(* What the parser accepts where it may not be empty.                      *)
LEMMA ParserStrict ==
  ASSUME NEW data \in Seq(Lines), NEW maxBytes, NEW maxRecords \in Int, NEW parsed,
         parsed = parse_scoring_jsonl(data, maxBytes, maxRecords, FALSE), IsOk(parsed)
  PROVE  parsed.value = data /\ data # <<>> /\ Distinct(data)
<1>1. parsed.value = data
  BY ParserResult
<1>2. \A why \in {"crash", "limit", "invalid"} : No(why).verdict # "ok"
  BY DEF No
<1>3. data # <<>> /\ parsed = Scan(data, maxRecords)
  BY <1>2 DEF parse_scoring_jsonl, IsOk
<1>4. Distinct(data)
  BY <1>3, ScanPassed
<1> QED
  BY <1>1, <1>3, <1>4

(* An evaluation gives every metric a value in the range of its gate.      *)
LEMMA EvaluatedInRange ==
  ASSUME NEW payload, payload \in [DOMAIN payload -> Numbers], IsFiniteSet(DOMAIN payload),
         "bias" \in DOMAIN payload, NEW specs, parse_metric_specs(specs),
         \A n \in DOMAIN specs : specs[n].bins \in Int /\ specs[n].max_pairs \in Int,
         NEW records \in Seq(Lines), records # <<>>, Distinct(records), NEW values,
         values = evaluate_payload(payload, records, specs)
  PROVE  values \in [DOMAIN specs -> Int] /\ InGateRange(values)
<1> DEFINE n == Len(records)
           ordered == Sorted(records)
           labels == [i \in DOMAIN ordered |-> ordered[i].body.label]
           scores == [i \in DOMAIN ordered |-> score_linear_evaluator(payload, ordered[i].body.features)]
<1>1. n \in Nat \ {0}
  OBVIOUS
<1>2. values = [name \in DOMAIN specs |-> _metric_value(name, specs[name], labels, scores)]
  BY Zenon DEF evaluate_payload, Sorted
<1>3. ordered \in [1..n -> Lines]
  <2>1. ordered \in [1..n -> Range(records)]
    BY SortedRecords
  <2>2. Range(records) \subseteq Lines
    BY DEF Range
  <2> QED
    BY <2>1, <2>2
<1>4. \A i \in 1..n : /\ ordered[i].body.label \in 0..TopScore
                      /\ ordered[i].body.features \in [DOMAIN ordered[i].body.features -> Int]
  <2>1. \A i \in 1..n : ordered[i].body \in Bodies
    BY <1>3 DEF Lines
  <2> QED
    BY <2>1, ExperimentAssumption
<1>5. DOMAIN ordered = 1..n
  BY <1>3
<1> HIDE DEF ordered
<1>6. labels \in ScoreSeq(n)
  BY <1>4, <1>5 DEF ScoreSeq
<1>7. \A i \in 1..n : score_linear_evaluator(payload, ordered[i].body.features) \in 0..TopScore
  BY <1>4, ScoreInRange
<1>8. scores \in ScoreSeq(n)
  BY <1>5, <1>7 DEF ScoreSeq
<1>9. ASSUME NEW name \in DOMAIN specs
      PROVE  /\ values[name] \in Int
             /\ Between(_gate_ranges(name)[1], values[name], _gate_ranges(name)[2])
  <2>1. name \in DOMAIN METRIC_DIRECTIONS
    BY DEF parse_metric_specs
  <2>2. specs[name].bins \in Nat \ {0} /\ specs[name].max_pairs \in Nat \ {0}
    BY DEF parse_metric_specs, Between
  <2>3. values[name] = _metric_value(name, specs[name], labels, scores)
    BY <1>2
  <2> HIDE DEF labels, scores
  <2> QED
    BY <1>1, <1>6, <1>8, <2>1, <2>2, <2>3, MetricInRange
<1> QED
  BY <1>2, <1>9 DEF InGateRange

(* The types hold initially.                                               *)
LEMMA TypeInit == Init => ExperimentTypeOK
  BY DEF Init, ExperimentTypeOK, Stages

(* One lemma for each action.                                              *)
LEMMA FreezeKeepsType ==
  ASSUME ExperimentTypeOK, NEW e \in Exports, Freeze(e.sources, e.seed, e.max_records)
  PROVE  ExperimentTypeOK'
<1> DEFINE frozen == freeze_jsonl_sources(e.sources, e.seed, TotalSize(e.sources),
                                          e.max_records, MaxOutput)
<1>1. e.sources \in Seq(Seq(Lines)) /\ e.seed \in Seeds /\ e.max_records \in Int
  BY ExperimentAssumption
<1>2. /\ frozen.verdict \in Refusals \cup {"ok"}
      /\ IsOk(frozen) => frozen.value \in Published
  BY <1>1, FreezeTyped
<1>3. /\ stage = "freeze" /\ verdict = "ok"
      /\ Then("publish", frozen.verdict)
      /\ manifest' = IF IsOk(frozen) THEN build_dataset_manifest(frozen.value, e.seed, e.sources)
                                     ELSE Nothing
      /\ UNCHANGED <<tampered, job, benchmark, candidate, result>>
  BY Zenon DEF Freeze, Reads
<1> HIDE DEF frozen
<1>4. IsOk(frozen) => build_dataset_manifest(frozen.value, e.seed, e.sources) \in Manifests
  BY <1>1, <1>2 DEF build_dataset_manifest, Manifests, Published
<1>5. /\ verdict' = frozen.verdict
      /\ stage' = IF IsOk(frozen) THEN "publish" ELSE "freeze"
  BY <1>3 DEF Then, IsOk
<1>6. manifest' \in IF stage' = "freeze" THEN {Nothing} ELSE Manifests
  BY <1>3, <1>4, <1>5
<1>7. candidate' = Nothing /\ result' = Nothing /\ stage' \in {"freeze", "publish"}
  BY <1>3, <1>5 DEF ExperimentTypeOK
<1> QED
  BY <1>2, <1>3, <1>5, <1>6, <1>7 DEF ExperimentTypeOK, Stages

(* A changed manifest is a manifest.                                       *)
LEMMA TamperKeepsType ==
  ASSUME ExperimentTypeOK, NEW name \in Range(SplitNames), Tamper(name)
  PROVE  ExperimentTypeOK'
<1>1. stage = "publish" /\ manifest \in Manifests
  BY DEF Tamper, Reads, ExperimentTypeOK
<1>2. manifest' \in Manifests
  <2>1. CASE manifest' \in Altered(name)
    <3>1. manifest \in Within(SplitRecords)
      BY <1>1 DEF Within, Manifests, SplitRecords
    <3>2. manifest' \in Within(SplitRecords)
      BY <2>1, <3>1, AlteredTyped, BothClosed
    <3> QED
      BY <3>2 DEF Within
  <2>2. CASE manifest' \in {[manifest EXCEPT !.seed = s] : s \in Seeds}
    BY <1>1, <2>2 DEF Manifests
  <2> QED
    BY <2>1, <2>2 DEF Tamper
<1>3. tampered' \in BOOLEAN
  BY DEF Tamper
<1>4. UNCHANGED <<stage, verdict, job, benchmark, candidate, result>>
  BY DEF Tamper
<1> QED
  BY <1>1, <1>2, <1>3, <1>4 DEF ExperimentTypeOK

(* A submission keeps the types.                                           *)
LEMMA SubmitKeepsType ==
  ASSUME ExperimentTypeOK, NEW j \in Jobs, Submit(j)
  PROVE  ExperimentTypeOK'
<1>1. /\ stage = "publish" /\ stage' \in {"publish", "benchmark"}
      /\ verdict' \in Refusals \cup {"ok"} /\ job' = j
      /\ UNCHANGED <<manifest, tampered, benchmark, candidate, result>>
  BY DEF Submit, Reads, Then, Refusals
<1> QED
  BY <1>1 DEF ExperimentTypeOK, Stages

(* Reading the benchmark keeps the types.                                  *)
LEMMA BenchmarkKeepsType ==
  ASSUME ExperimentTypeOK, NEW b \in Benchmarks, ReadBenchmark(b)
  PROVE  ExperimentTypeOK'
<1>1. /\ stage = "benchmark" /\ stage' \in {"benchmark", "dataset"}
      /\ verdict' \in Refusals \cup {"ok"} /\ benchmark' = b
      /\ UNCHANGED <<manifest, tampered, job, candidate, result>>
  BY DEF ReadBenchmark, Reads, Then, Refusals
<1> QED
  BY <1>1 DEF ExperimentTypeOK, Stages

(* verify_dataset_manifest accepts or refuses with one of its errors.      *)
LEMMA ManifestVerdict ==
  ASSUME NEW m \in Manifests, NEW maxRecords, NEW maxBytes
  PROVE  verify_dataset_manifest(m, maxRecords, maxBytes) \in Refusals \cup {"ok"}
<1>1. SplitsRead(m, maxRecords, maxBytes) \in Readings
  BY SplitsSteps
<1>2. SplitsRead(m, maxRecords, maxBytes).verdict \in Refusals \cup {"ok"}
  BY <1>1 DEF Readings
<1>3. verify_dataset_manifest(m, maxRecords, maxBytes)
         \in {SplitsRead(m, maxRecords, maxBytes).verdict, "ok", "invalid"}
  BY DEF verify_dataset_manifest
<1> QED
  BY <1>2, <1>3 DEF Refusals

(* Reading the manifest keeps the types.                                   *)
LEMMA DatasetKeepsType ==
  ASSUME ExperimentTypeOK, ReadDataset
  PROVE  ExperimentTypeOK'
<1> DEFINE read == verify_dataset_manifest(manifest, job.max_records, job.max_input_bytes)
<1>1. stage = "dataset" /\ manifest \in Manifests
  BY DEF ReadDataset, Reads, ExperimentTypeOK
<1>2. read \in Refusals \cup {"ok"}
  BY <1>1, ManifestVerdict
<1>3. /\ Then("candidate", IF read = "ok" /\ ~MinimumMet THEN "invalid" ELSE read)
      /\ UNCHANGED <<manifest, tampered, job, benchmark, candidate, result>>
  BY DEF ReadDataset
<1> HIDE DEF read
<1>4. verdict' \in Refusals \cup {"ok"} /\ stage' \in {"dataset", "candidate"}
  BY <1>1, <1>2, <1>3 DEF Then, Refusals
<1> QED
  BY <1>1, <1>3, <1>4 DEF ExperimentTypeOK, Stages

(* Reading the candidate keeps the types.                                  *)
LEMMA CandidateKeepsType ==
  ASSUME ExperimentTypeOK, NEW p \in Payloads, NEW d \in Declarations, ReadCandidate(p, d)
  PROVE  ExperimentTypeOK'
<1>1. Admits(p, d) \in Refusals \cup {"ok"}
  BY DEF Admits, Refusals
<1>2. [payload |-> p, declared |-> d] \in Admissions
  BY DEF Admissions
<1>3. /\ stage = "candidate" /\ Then("evaluate", Admits(p, d))
      /\ candidate' = IF Admits(p, d) = "ok" THEN [payload |-> p, declared |-> d] ELSE Nothing
      /\ UNCHANGED <<manifest, tampered, job, benchmark, result>>
  BY DEF ReadCandidate, Reads
<1>4. /\ verdict' = Admits(p, d)
      /\ stage' = IF Admits(p, d) = "ok" THEN "evaluate" ELSE "candidate"
  BY <1>3 DEF Then
<1>5. /\ candidate' \in IF stage' \in {"evaluate", "done"} THEN Admissions ELSE {Nothing}
      /\ stage' \in {"candidate", "evaluate"}
  BY <1>2, <1>3, <1>4
<1> QED
  BY <1>1, <1>3, <1>4, <1>5 DEF ExperimentTypeOK, Stages

(* The records of a packet are the selected ones, its values lie in the    *)
(* ranges of their gates, and its decision is one of two.                  *)
LEMMA PacketTyped ==
  ASSUME ExperimentTypeOK, IInv, Gated, stage = "evaluate",
         NEW records \in Seq(Lines), records # <<>>, Distinct(records)
  PROVE  /\ Packet(records) \in Packets(benchmark.metrics) /\ Packet(records).records # {}
         /\ InGateRange(Packet(records).baseline) /\ InGateRange(Packet(records).candidate)
<1> DEFINE specs == benchmark.metrics
           before == evaluate_payload(job.baseline, records, specs)
           after == evaluate_payload(candidate.payload, records, specs)
           ids == {r.id : r \in Range(records)}
           outcome == evaluate_experiment(job.baseline, candidate.payload, records, specs)
<1>1. job \in Jobs /\ benchmark \in Benchmarks /\ parse_metric_specs(specs)
  BY DEF IInv, Submitted, Gated
<1>2. /\ candidate.payload \in Payloads
      /\ validate_linear_evaluator(job.baseline) /\ validate_linear_evaluator(candidate.payload)
  <2>1. candidate \in Admissions /\ candidate # Nothing
    BY ExperimentAssumption DEF ExperimentTypeOK
  <2> QED
    BY <2>1 DEF IInv, Admitted, verify_candidate_change
<1>3. \A p \in {job.baseline, candidate.payload} :
         p \in [DOMAIN p -> Numbers] /\ IsFiniteSet(DOMAIN p) /\ "bias" \in DOMAIN p
  BY <1>1, <1>2, ExperimentAssumption DEF validate_linear_evaluator
<1>4. \A n \in DOMAIN specs : specs[n].bins \in Int /\ specs[n].max_pairs \in Int
  BY <1>1, ExperimentAssumption
<1>5. Packet(records) = [records |-> ids, baseline |-> before, candidate |-> after, outcome |-> outcome]
  BY DEF Packet
<1>6. ids # {} /\ ids \subseteq Ids
  <2>1. 1 \in DOMAIN records /\ records[1] \in Range(records)
    BY DEF Range
  <2>2. \A r \in Range(records) : r.id \in Ids
    <3>1. \A r \in Range(records) : r \in Lines
      BY DEF Range
    <3> QED
      BY <3>1 DEF Lines
  <2> QED
    BY <2>1, <2>2
<1>7. outcome \in [decision : {"KEEP", "DISCARD"}, failed : SUBSET DOMAIN specs]
  BY DEF evaluate_experiment, recompute_canonical_result
<1> HIDE DEF specs
<1>8. before \in [DOMAIN specs -> Int] /\ InGateRange(before)
  BY <1>1, <1>3, <1>4, EvaluatedInRange
<1>9. after \in [DOMAIN specs -> Int] /\ InGateRange(after)
  BY <1>1, <1>3, <1>4, EvaluatedInRange
<1> HIDE DEF ids, before, after, outcome
<1>10. Packet(records) \in Packets(specs)
  BY <1>5, <1>6, <1>7, <1>8, <1>9 DEF Packets
<1>11. /\ Packet(records).records = ids /\ Packet(records).baseline = before
       /\ Packet(records).candidate = after
  BY <1>5
<1> QED
  BY <1>6, <1>8, <1>9, <1>10, <1>11 DEF specs

(* An evaluation reports values within the ranges of their metrics: every  *)
(* range lemma above is used here.                                         *)
LEMMA EvaluateKeepsType ==
  ASSUME ExperimentTypeOK, IInv, Gated, Evaluate
  PROVE  ExperimentTypeOK'
<1> DEFINE data == manifest.splits[job.split].data
           parsed == parse_scoring_jsonl(data, job.max_input_bytes, job.max_records, FALSE)
<1>1. /\ stage = "evaluate" /\ Then("done", parsed.verdict)
      /\ result' = IF IsOk(parsed) THEN Packet(parsed.value) ELSE Nothing
      /\ UNCHANGED <<manifest, tampered, job, benchmark, candidate>>
  BY Zenon DEF Evaluate, Reads
<1>2. job \in Jobs /\ job.split \in Range(SplitNames) /\ job.max_records \in Int
  BY <1>1, SplitNamesAre, ExperimentAssumption DEF IInv, Submitted
<1>3. data \in Seq(Lines)
  BY <1>1, <1>2 DEF ExperimentTypeOK, Manifests
<1>4. parsed.verdict \in Refusals \cup {"ok"}
  BY ParserResult
<1>5. IsOk(parsed) => parsed.value \in Seq(Lines) /\ parsed.value # <<>> /\ Distinct(parsed.value)
  BY <1>2, <1>3, ParserStrict
<1> HIDE DEF data, parsed
<1>6. IsOk(parsed) =>
         /\ result' \in Packets(benchmark.metrics) /\ result'.records # {}
         /\ InGateRange(result'.baseline) /\ InGateRange(result'.candidate)
  BY <1>1, <1>5, PacketTyped
<1>7. verdict' = parsed.verdict /\ stage' = IF IsOk(parsed) THEN "done" ELSE "evaluate"
  BY <1>1 DEF Then, IsOk
<1>8. CASE IsOk(parsed)
  BY <1>1, <1>4, <1>6, <1>7, <1>8 DEF ExperimentTypeOK, Stages
<1>9. CASE ~IsOk(parsed)
  BY <1>1, <1>4, <1>7, <1>9 DEF ExperimentTypeOK, Stages
<1> QED
  BY <1>8, <1>9

(* Every step keeps the types.                                             *)
LEMMA TypeNext == ExperimentTypeOK /\ IInv /\ Gated /\ [Next]_vars => ExperimentTypeOK'
<1> SUFFICES ASSUME ExperimentTypeOK, IInv, Gated, [Next]_vars PROVE ExperimentTypeOK'
  OBVIOUS
<1>1. CASE UNCHANGED vars
  BY <1>1 DEF vars, ExperimentTypeOK
<1> QED
  BY <1>1, FreezeKeepsType, TamperKeepsType, SubmitKeepsType, BenchmarkKeepsType,
     DatasetKeepsType, CandidateKeepsType, EvaluateKeepsType DEF Next

(* The invariants so far, and what they say of types.                      *)
LEMMA Typed == Spec => [](ExperimentTypeOK /\ IInv /\ Gated /\ Decided)
<1>1. Init => ExperimentTypeOK /\ IInv /\ Gated /\ Decided
  <2>1. Init => Gated /\ Decided
    BY DEF Init, Gated, Decided
  <2> QED
    BY <2>1, TypeInit, InvInit
<1>2. /\ ExperimentTypeOK /\ IInv /\ Gated /\ Decided /\ [Next]_vars
      => (ExperimentTypeOK /\ IInv /\ Gated /\ Decided)'
  BY TypeNext, InvNext, DecisionNext
<1> QED
  BY <1>1, <1>2, PTL DEF Spec

(* Whatever is exported, published, changed, submitted and evaluated, each *)
(* document has its type at every stage, and what a finished evaluation    *)
(* reports is a number for every metric of the benchmark, in the range its *)
(* gate may use (_evaluate_loaded_job, metrics.py, evaluation.py).         *)
THEOREM ReportsInRange == Spec => []ExperimentTypeOK
  BY Typed, PTL

(* A candidate that a job keeps is nowhere worse than the job's baseline,  *)
(* and the two could not change places and be kept as well                 *)
(* (_evaluate_loaded_job).                                                 *)
THEOREM KeepIsEarned == Spec => []KeepEarned
<1>2. ExperimentTypeOK /\ Gated /\ Decided => KeepEarned
  <2> SUFFICES ASSUME Gated, Decided, ExperimentTypeOK,
                      result # Nothing, result.outcome.decision = "KEEP"
               PROVE  KeepEarned
    BY DEF KeepEarned
  <2> DEFINE specs == benchmark.metrics
  <2>1. parse_metric_specs(specs) /\ \A n \in DOMAIN specs : specs[n].minimum_delta \in Int
    BY ExperimentAssumption DEF Gated, Decided
  <2>2. result.baseline \in [DOMAIN specs -> Int] /\ result.candidate \in [DOMAIN specs -> Int]
    BY DEF ExperimentTypeOK, Packets
  <2>3. recompute_canonical_result(result.baseline, result.candidate, specs).decision = "KEEP"
    BY DEF Decided
  <2> HIDE DEF specs
  <2>4. /\ \A n \in DOMAIN specs :
              IF METRIC_DIRECTIONS[n] = "higher" THEN result.candidate[n] >= result.baseline[n]
                                                 ELSE result.candidate[n] <= result.baseline[n]
        /\ (\E n \in DOMAIN specs : specs[n].minimum_delta > 0) =>
              recompute_canonical_result(result.candidate, result.baseline, specs).decision
                  = "DISCARD"
    BY <2>1, <2>2, <2>3, KeptIsNoWorse
  <2> QED
    BY <2>2, <2>4 DEF KeepEarned, specs
<1> QED
  BY <1>2, Typed, PTL

(* There is one way to put the elements of a set in order.                 *)
LEMMA OrderedIsPlaced ==
  ASSUME NEW S, IsFiniteSet(S), NEW below, StrictOrder(below, S),
         NEW n \in Nat, NEW f \in [1..n -> S],
         \A r, t \in 1..n : r < t => f[r] \in below[f[t]],
         \A x \in S : \E r \in 1..n : f[r] = x
  PROVE  f = Placed(below, S)
<1>1. \A r, t \in 1..n : f[r] \in below[f[t]] => r < t
  <2> SUFFICES ASSUME NEW r \in 1..n, NEW t \in 1..n, f[r] \in below[f[t]], t <= r PROVE FALSE
    OBVIOUS
  <2>1. f[t] \in below[f[r]] \/ t = r
    OBVIOUS
  <2>2. f[t] \in S /\ f[r] \in S
    OBVIOUS
  <2>3. f[t] \notin below[f[t]] /\ (f[t] \in below[f[r]] => below[f[t]] \subseteq below[f[r]])
        /\ f[r] \notin below[f[r]]
    BY <2>2 DEF StrictOrder
  <2> QED
    BY <2>1, <2>3
<1>2. \A r, t \in 1..n : f[r] = f[t] => r = t
  <2> SUFFICES ASSUME NEW r \in 1..n, NEW t \in 1..n, f[r] = f[t], r < t PROVE FALSE
    OBVIOUS
  <2>1. f[r] \in below[f[r]] /\ f[r] \in S
    OBVIOUS
  <2> QED
    BY <2>1 DEF StrictOrder
<1>3. ASSUME NEW r \in 1..n PROVE Cardinality(below[f[r]]) = r - 1
  <2> DEFINE D == 1..(r - 1)
             g == [q \in D |-> f[q]]
             B == below[f[r]]
  <2>1. r - 1 \in Nat /\ \A q \in D : q \in 1..n /\ q < r
    OBVIOUS
  <2>2. IsFiniteSet(D) /\ Cardinality(D) = r - 1
    BY <2>1, FS_Interval
  <2>3. g \in [D -> B]
    BY <2>1
  <2>4. \A q, p \in D : g[q] = g[p] => q = p
    BY <1>2, <2>1
  <2>5. \A x \in B : \E q \in D : g[q] = x
    <3> SUFFICES ASSUME NEW x \in B PROVE \E q \in D : g[q] = x
      OBVIOUS
    <3>1. x \in S
      BY DEF StrictOrder
    <3>2. PICK q \in 1..n : f[q] = x
      BY <3>1
    <3>3. q < r
      BY <1>1, <3>2
    <3>4. q \in D
      BY <3>3
    <3> QED
      BY <3>2, <3>4
  <2> HIDE DEF D, g, B
  <2>6. ExistsBijection(D, B)
    BY <2>3, <2>4, <2>5, Fun_IsBij DEF ExistsBijection
  <2> QED
    BY <2>2, <2>6, FS_Bijection DEF B
<1>4. Cardinality(S) = n
  <2>0. IsFiniteSet(1..n) /\ Cardinality(1..n) = n
    BY FS_Interval
  <2>1. ExistsBijection(1..n, S)
    BY <1>2, Fun_IsBij DEF ExistsBijection
  <2> QED
    BY <2>0, <2>1, FS_Bijection
<1>5. ASSUME NEW r \in 1..n PROVE f[r] = CHOOSE x \in S : Cardinality(below[x]) = r - 1
  <2> DEFINE x == CHOOSE x \in S : Cardinality(below[x]) = r - 1
  <2>1. f[r] \in S /\ Cardinality(below[f[r]]) = r - 1
    BY <1>3
  <2>2. x \in S /\ Cardinality(below[x]) = r - 1
    BY <2>1
  <2> HIDE DEF x
  <2>3. PICK t \in 1..n : f[t] = x
    BY <2>2
  <2>4. t - 1 = r - 1
    BY <1>3, <2>2, <2>3
  <2>5. t = r
    BY <2>4
  <2> QED
    BY <2>3, <2>5 DEF x
<1>6. f = [r \in 1..n |-> f[r]]
  OBVIOUS
<1>7. f = [r \in 1..n |-> CHOOSE x \in S : Cardinality(below[x]) = r - 1]
  BY <1>5, <1>6
<1> QED
  BY <1>4, <1>7 DEF Placed

Increasing(lines) == \A r, t \in DOMAIN lines : r < t => lines[r].id < lines[t].id

(* Records in the order of their identities are determined by the set they *)
(* form.                                                                   *)
LEMMA SameRecords ==
  ASSUME NEW f \in Seq(Lines), NEW g \in Seq(Lines), Increasing(f), Increasing(g), Range(f) = Range(g)
  PROVE  f = g
<1> DEFINE S == Range(f)
           below == [x \in S |-> {y \in S : y.id < x.id}]
           n == Len(f)
           m == Len(g)
<1>1. n \in Nat /\ DOMAIN f = 1..n /\ m \in Nat /\ DOMAIN g = 1..m
  OBVIOUS
<1>2. f \in [1..n -> S] /\ \A x \in S : \E r \in 1..n : f[r] = x
  BY <1>1 DEF Range
<1>3. g \in [1..m -> S] /\ \A x \in S : \E r \in 1..m : g[r] = x
  <2>1. S = {g[r] : r \in 1..m}
    BY <1>1 DEF Range
  <2> HIDE DEF S
  <2> QED
    BY <1>1, <2>1
<1>4. \A x \in S : x.id \in Nat
  <2>1. \A x \in S : x \in Lines
    BY DEF Range
  <2> QED
    BY <2>1, DatasetAssumption DEF Lines
<1>5. \A x, y \in S : x.id = y.id => x = y
  <2> SUFFICES ASSUME NEW x \in S, NEW y \in S, x.id = y.id PROVE x = y
    OBVIOUS
  <2>1. PICK r \in 1..n : f[r] = x
    BY <1>2
  <2>2. PICK t \in 1..n : f[t] = y
    BY <1>2
  <2>3. ~(r < t) /\ ~(t < r)
    BY <1>1, <1>4, <2>1, <2>2 DEF Increasing
  <2>4. r = t
    BY <2>3
  <2> QED
    BY <2>1, <2>2, <2>4
<1>6. IsFiniteSet(S)
  <2>1. IsFiniteSet(1..n)
    BY <1>1, FS_Interval
  <2>2. f \in Surjection(1..n, S)
    BY <1>2, Fun_IsSurj
  <2> QED
    BY <2>1, <2>2, FS_Surjection
<1>7. StrictOrder(below, S)
  <2>1. \A x \in S : below[x] \in SUBSET S /\ x \notin below[x]
    BY <1>4
  <2>2. \A x, y \in S : x = y \/ x \in below[y] \/ y \in below[x]
    BY <1>4, <1>5
  <2>3. \A x, y \in S : x \in below[y] => below[x] \subseteq below[y]
    BY <1>4
  <2> QED
    BY <2>1, <2>2, <2>3 DEF StrictOrder
<1>8. \A r, t \in 1..n : r < t => f[r] \in below[f[t]]
  BY <1>1, <1>2 DEF Increasing
<1>9. \A r, t \in 1..m : r < t => g[r] \in below[g[t]]
  BY <1>1, <1>3 DEF Increasing
<1> HIDE DEF S, below
<1>10. f = Placed(below, S)
  BY <1>1, <1>2, <1>6, <1>7, <1>8, OrderedIsPlaced
<1>11. g = Placed(below, S)
  BY <1>1, <1>3, <1>6, <1>7, <1>9, OrderedIsPlaced
<1> QED
  BY <1>10, <1>11

(* The three splits of a manifest, one behind the other.                   *)
LEMMA FlattenThree ==
  ASSUME NEW seqs, Len(seqs) = 3
  PROVE  FlattenSeq(seqs) = (seqs[1] \o seqs[2]) \o seqs[3]
<1> DEFINE Flat(f) == f = [i \in 1..3 |-> IF i = 1 THEN seqs[i] ELSE f[i - 1] \o seqs[i]]
           g == [i \in 1..3 |-> IF i = 1 THEN seqs[1] ELSE IF i = 2 THEN seqs[1] \o seqs[2]
                                ELSE (seqs[1] \o seqs[2]) \o seqs[3]]
           h == CHOOSE f : Flat(f)
<1>1. Flat(g)
  <2> DEFINE Value(i) == IF i = 1 THEN seqs[i] ELSE g[i - 1] \o seqs[i]
  <2>1. 1 \in 1..3 /\ 2 \in 1..3 /\ 3 \in 1..3 /\ 2 - 1 = 1 /\ 3 - 1 = 2 /\ 1..3 = {1, 2, 3}
    OBVIOUS
  <2>2. g[1] = seqs[1] /\ g[2] = seqs[1] \o seqs[2] /\ g[3] = (seqs[1] \o seqs[2]) \o seqs[3]
    BY <2>1
  <2>3. g[1] = Value(1) /\ g[2] = Value(2) /\ g[3] = Value(3)
    BY <2>1, <2>2
  <2>3a. g = [i \in 1..3 |-> g[i]]
    OBVIOUS
  <2> HIDE DEF g, Value
  <2>4. g = [i \in 1..3 |-> Value(i)]
    BY <2>1, <2>3, <2>3a
  <2> QED
    BY <2>4 DEF Value
<1>2. Flat(h)
  BY <1>1
<1>3. FlattenSeq(seqs) = h[3]
  <2>1. ~(Len(seqs) = 0)
    OBVIOUS
  <2>2. FlattenSeq(seqs) = LET f == CHOOSE f : f = [i \in 1..Len(seqs) |->
                               IF i = 1 THEN seqs[i] ELSE f[i - 1] \o seqs[i]]
                           IN  f[Len(seqs)]
    BY <2>1, Zenon DEF FlattenSeq
  <2>3. Len(seqs) = 3
    OBVIOUS
  <2> QED
    BY <2>2, <2>3
<1> HIDE DEF h, g
<1>4. h[1] = seqs[1] /\ h[2] = h[1] \o seqs[2] /\ h[3] = h[2] \o seqs[3]
  <2>1. 1 \in 1..3 /\ 2 \in 1..3 /\ 3 \in 1..3 /\ 2 - 1 = 1 /\ 3 - 1 = 2 /\ 2 # 1 /\ 3 # 1
    OBVIOUS
  <2>2. \A i \in 1..3 : h[i] = IF i = 1 THEN seqs[i] ELSE h[i - 1] \o seqs[i]
    BY <1>2
  <2> QED
    BY <2>1, <2>2
<1> QED
  BY <1>3, <1>4

(* Neighbours in order are all in order.                                   *)
LEMMA NeighboursInOrder ==
  ASSUME NEW lines \in Seq(Lines), \A i \in DOMAIN lines : i > 1 => lines[i - 1].id < lines[i].id
  PROVE  Increasing(lines)
<1> DEFINE n == Len(lines)
           Id(i) == lines[i].id
<1>1. n \in Nat /\ DOMAIN lines = 1..n /\ \A i \in 1..n : Id(i) \in Int
  <2>1. n \in Nat /\ DOMAIN lines = 1..n /\ \A i \in 1..n : lines[i] \in Lines
    OBVIOUS
  <2>1a. \A x \in Lines : x.id \in Ids
    BY DEF Lines
  <2>1b. \A i \in Ids : i \in Int
    BY DatasetAssumption
  <2>2. \A x \in Lines : x.id \in Int
    BY <2>1a, <2>1b
  <2> QED
    BY <2>1, <2>2
<1>2. \A i \in 1..n : i > 1 => Id(i - 1) < Id(i)
  BY <1>1
<1> HIDE DEF Id
<1> DEFINE T == {k \in Nat : \A r \in 1..n : r + 1 + k \in 1..n => Id(r) < Id(r + 1 + k)}
<1>3. 0 \in T
  <2>1. ASSUME NEW r \in 1..n, r + 1 \in 1..n PROVE Id(r) < Id(r + 1)
    <3>1. Id(r + 1 - 1) < Id(r + 1) /\ r + 1 - 1 = r
      BY <1>1, <1>2, <2>1
    <3> QED
      BY <3>1
  <2> QED
    BY <1>1, <2>1
<1>4. ASSUME NEW k \in Nat, k \in T PROVE k + 1 \in T
  <2> SUFFICES ASSUME NEW r \in 1..n, r + 1 + (k + 1) \in 1..n PROVE Id(r) < Id(r + 1 + (k + 1))
    OBVIOUS
  <2> DEFINE q == r + 1 + k
  <2>1. q \in 1..n /\ q + 1 \in 1..n /\ q + 1 > 1 /\ q + 1 - 1 = q /\ r + 1 + (k + 1) = q + 1
    BY <1>1
  <2>2. Id(r) < Id(q)
    BY <1>4, <2>1
  <2> HIDE DEF q
  <2>3. Id(q) < Id(q + 1)
    BY <1>2, <2>1
  <2>4. Id(r) < Id(q + 1)
    BY <1>1, <2>1, <2>2, <2>3
  <2> QED
    BY <2>1, <2>4
<1> HIDE DEF T
<1>5. Nat \subseteq T
  BY <1>3, <1>4, NumberInduction
<1>6. ASSUME NEW r \in 1..n, NEW t \in 1..n, r < t PROVE Id(r) < Id(t)
  <2>1. t - r - 1 \in Nat /\ r + 1 + (t - r - 1) = t
    BY <1>1, <1>6
  <2>2. t - r - 1 \in T
    BY <1>5, <2>1
  <2> QED
    BY <2>1, <2>2 DEF T
<1> QED
  BY <1>1, <1>6 DEF Increasing, Id

(* Two parts that share no identity.                                       *)
LEMMA Joined ==
  ASSUME NEW s \in Seq(Lines), NEW t \in Seq(Lines), Distinct(s), Distinct(t),
         \A x \in Range(s), y \in Range(t) : x.id # y.id
  PROVE  /\ s \o t \in Seq(Lines) /\ Distinct(s \o t)
         /\ Range(s \o t) = Range(s) \cup Range(t)
         /\ Len(s \o t) = Len(s) + Len(t)
<1> DEFINE m == Len(s)
           n == Len(t)
           u == s \o t
<1>1. m \in Nat /\ n \in Nat /\ DOMAIN s = 1..m /\ DOMAIN t = 1..n
  OBVIOUS
<1>2. u \in Seq(Lines) /\ Len(u) = m + n /\ DOMAIN u = 1..(m + n)
  BY <1>1
<1>3. \A i \in 1..m : u[i] = s[i]
  BY <1>1
<1>4. \A i \in 1..n : u[m + i] = t[i]
  BY <1>1
<1>5. \A i \in 1..(m + n) : i \in 1..m \/ (i - m \in 1..n /\ i = m + (i - m))
  BY <1>1
<1>5a. (\A i \in 1..m : i \in 1..(m + n)) /\ (\A i \in 1..n : m + i \in 1..(m + n))
  BY <1>1
<1> HIDE DEF m, n, u
<1>6. Range(u) = Range(s) \cup Range(t)
  <2>1. ASSUME NEW i \in 1..(m + n) PROVE u[i] \in Range(s) \cup Range(t)
    <3>1. CASE i \in 1..m
      BY <1>1, <1>3, <3>1 DEF Range
    <3>2. CASE i - m \in 1..n /\ i = m + (i - m)
      <4>1. u[i] = t[i - m] /\ i - m \in DOMAIN t
        BY <1>1, <1>4, <3>2
      <4> QED
        BY <4>1 DEF Range
    <3> QED
      BY <1>5, <3>1, <3>2
  <2>2. ASSUME NEW i \in 1..m PROVE s[i] \in Range(u)
    <3>1. i \in DOMAIN u /\ u[i] = s[i]
      BY <1>2, <1>3, <1>5a
    <3> QED
      BY <3>1 DEF Range
  <2>3. ASSUME NEW i \in 1..n PROVE t[i] \in Range(u)
    <3>1. m + i \in DOMAIN u /\ u[m + i] = t[i]
      BY <1>2, <1>4, <1>5a
    <3> QED
      BY <3>1 DEF Range
  <2>4. Range(u) = {u[i] : i \in 1..(m + n)} /\ Range(s) = {s[i] : i \in 1..m}
        /\ Range(t) = {t[i] : i \in 1..n}
    BY <1>1, <1>2 DEF Range
  <2> QED
    BY <2>1, <2>2, <2>3, <2>4
<1>7. Distinct(u)
  <2> SUFFICES ASSUME NEW i \in 1..(m + n), NEW j \in 1..(m + n), u[i].id = u[j].id PROVE i = j
    BY <1>2 DEF Distinct
  <2>1. (\A p \in 1..m : s[p] \in Range(s)) /\ (\A p \in 1..n : t[p] \in Range(t))
    BY <1>1 DEF Range
  <2>2. CASE i \in 1..m /\ j \in 1..m
    BY <1>1, <1>3, <2>2 DEF Distinct
  <2>3. CASE i - m \in 1..n /\ j - m \in 1..n
    <3>1. u[i] = t[i - m] /\ u[j] = t[j - m]
      BY <1>1, <1>4, <1>5, <2>3
    <3>2. i - m = j - m
      BY <1>1, <2>3, <3>1 DEF Distinct
    <3> QED
      BY <1>1, <3>2
  <2>4. CASE i \in 1..m /\ j - m \in 1..n
    <3>1. u[i] = s[i] /\ u[j] = t[j - m]
      BY <1>1, <1>3, <1>4, <1>5, <2>4
    <3> QED
      BY <2>1, <2>4, <3>1
  <2>5. CASE j \in 1..m /\ i - m \in 1..n
    <3>1. u[j] = s[j] /\ u[i] = t[i - m]
      BY <1>1, <1>3, <1>4, <1>5, <2>5
    <3> QED
      BY <2>1, <2>5, <3>1
  <2> QED
    BY <1>5, <2>2, <2>3, <2>4, <2>5
<1> QED
  BY <1>2, <1>6, <1>7 DEF u, m, n

(* A split that the check accepts, read on its own.                        *)
Sound(split, seed, name) ==
    /\ split.sealed = (name = "test")
    /\ Len(split.data) = split.count /\ Distinct(split.data) /\ Increasing(split.data)
    /\ \A i \in DOMAIN split.data : /\ split.data[i].form = "canonical"
                                    /\ SplitOf[seed][split.data[i].id] = name

(* verify_frozen_dataset looks at each split, and asks for one record in   *)
(* some split.                                                             *)
LEMMA VerifiedSplits ==
  ASSUME NEW splits \in Published, NEW seed, verify_frozen_dataset(splits, seed)
  PROVE  /\ \A name \in Range(SplitNames) : Sound(splits[name], seed, name)
         /\ \E name \in Range(SplitNames) : splits[name].data # <<>>
<1>1. \A name \in Range(SplitNames) : splits[name].data \in Seq(Lines) /\ splits[name].count \in Nat
  BY DEF Published
<1>2. ASSUME NEW name \in Range(SplitNames) PROVE Sound(splits[name], seed, name)
  <2> DEFINE data == splits[name].data
  <2>1. /\ splits[name].sealed = (name = "test")
        /\ IsOk(Scan(data, Len(data))) /\ Len(data) = splits[name].count
        /\ \A i \in DOMAIN data : data[i].form = "canonical"
        /\ SplitHolds(data, seed, name)
    BY DEF verify_frozen_dataset
  <2>2. data \in Seq(Lines) /\ Len(data) \in Int
    BY <1>1
  <2>3. Distinct(data)
    BY <2>1, <2>2, ScanPassed
  <2>4. Increasing(data)
    BY <2>1, <2>2, NeighboursInOrder DEF SplitHolds
  <2> QED
    BY <2>1, <2>3, <2>4 DEF Sound, SplitHolds
<1>3. PICK name \in Range(SplitNames) : splits[name].count > 0
  BY DEF verify_frozen_dataset
<1>4. splits[name].data # <<>>
  <2>1. Len(splits[name].data) = splits[name].count
    BY <1>2 DEF Sound
  <2> QED
    BY <1>1, <1>3, <2>1
<1> QED
  BY <1>2, <1>4

(* The splits together, for the three names.                               *)
Whole(splits) == (splits["train"].data \o splits["validation"].data) \o splits["test"].data

(* Splits that are each sound under one seed have no record in common:     *)
(* together they are a list of different records.                          *)
LEMMA Together ==
  ASSUME NEW splits \in Published, NEW seed,
         \A name \in Range(SplitNames) : Sound(splits[name], seed, name),
         NEW all, all = Whole(splits)
  PROVE  /\ all \in Seq(Lines) /\ Distinct(all)
         /\ Range(all) = UNION {Range(splits[name].data) : name \in Range(SplitNames)}
         /\ Len(all) = Len(splits["train"].data) + Len(splits["validation"].data)
                       + Len(splits["test"].data)
<1> DEFINE d1 == splits["train"].data
           d2 == splits["validation"].data
           d3 == splits["test"].data
           In(data, name) == \A x \in Range(data) : SplitOf[seed][x.id] = name
<1>1. d1 \in Seq(Lines) /\ d2 \in Seq(Lines) /\ d3 \in Seq(Lines)
  BY SplitNamesAre DEF Published
<1>2. Distinct(d1) /\ Distinct(d2) /\ Distinct(d3)
  BY SplitNamesAre DEF Sound
<1>3. In(d1, "train") /\ In(d2, "validation") /\ In(d3, "test")
  BY SplitNamesAre DEF Sound, Range
<1>4. Range(splits["train"].data) = Range(d1) /\ all = (d1 \o d2) \o d3
  BY DEF Whole
<1>5. UNION {Range(splits[name].data) : name \in Range(SplitNames)} =
         (Range(d1) \cup Range(d2)) \cup Range(d3)
  BY SplitNamesAre
<1> HIDE DEF d1, d2, d3
<1>6. \A x \in Range(d1), y \in Range(d2) : x.id # y.id
  BY <1>3
<1>7. /\ d1 \o d2 \in Seq(Lines) /\ Distinct(d1 \o d2) /\ Len(d1 \o d2) = Len(d1) + Len(d2)
      /\ Range(d1 \o d2) = Range(d1) \cup Range(d2)
  BY <1>1, <1>2, <1>6, Joined
<1> DEFINE d12 == d1 \o d2
<1>8. \A x \in Range(d12), y \in Range(d3) : x.id # y.id
  BY <1>3, <1>7
<1> HIDE DEF d12, In
<1>9. /\ d12 \o d3 \in Seq(Lines) /\ Distinct(d12 \o d3) /\ Len(d12 \o d3) = Len(d12) + Len(d3)
      /\ Range(d12 \o d3) = Range(d12) \cup Range(d3)
  BY <1>1, <1>2, <1>7, <1>8, Joined DEF d12
<1> QED
  BY <1>4, <1>5, <1>7, <1>9 DEF d12, d1, d2, d3

(* Records in their canonical form are their own canonical form.           *)
LEMMA CanonicalAlready ==
  ASSUME NEW records \in Seq(Lines), \A x \in Range(records) : x.form = "canonical"
  PROVE  Canonical(records) = records /\ Size(records) = Len(records)
<1>1. \A i \in DOMAIN records : records[i] \in Lines /\ records[i].form = "canonical"
  BY DEF Range
<1>2. \A x \in Lines : x.form = "canonical" => _record_bytes(x) = x
  BY DEF Lines, _record_bytes
<1>3. \A i \in DOMAIN records : _record_bytes(records[i]) = records[i]
  BY <1>1, <1>2
<1>4. Canonical(records) = [i \in DOMAIN records |-> records[i]]
  BY <1>3 DEF Canonical
<1>5. Canonical(records) = records
  BY <1>4
<1>6. {i \in DOMAIN records : records[i].form = "loose"} = {}
  BY <1>1
<1>7. Size(records) = Len(records) + 0
  BY <1>6, FS_EmptySet DEF Size
<1>8. Len(records) \in Nat
  OBVIOUS
<1> QED
  BY <1>5, <1>7, <1>8

(* The split of sorted records is sorted, and has what belongs to it.      *)
LEMMA SplitOfSorted ==
  ASSUME NEW rows \in Seq(Lines), Increasing(rows), NEW seed, NEW name
  PROVE  /\ Increasing(InSplit(rows, seed, name))
         /\ Range(InSplit(rows, seed, name)) = {x \in Range(rows) : SplitOf[seed][x.id] = name}
<1> DEFINE P == Belongs(rows, seed, name)
           k == Cardinality(P)
           inside == InSplit(rows, seed, name)
<1>1. PICK at : /\ k \in Nat /\ Len(inside) = k
                /\ at \in [1..k -> P]
                /\ \A r, t \in 1..k : r < t <=> at[r] < at[t]
                /\ \A i \in P : \E r \in 1..k : at[r] = i
                /\ \A r \in 1..k : inside[r] = rows[at[r]]
  BY InSplitTyped
<1>2. inside \in Seq(Lines)
  BY InSplitTyped
<1>3. \A i : i \in P <=> i \in DOMAIN rows /\ SplitOf[seed][rows[i].id] = name
  BY DEF Belongs
<1> HIDE DEF P, k, inside
<1>4. DOMAIN inside = 1..k
  BY <1>1, <1>2
<1>5. Increasing(inside)
  <2> SUFFICES ASSUME NEW r \in 1..k, NEW t \in 1..k, r < t PROVE inside[r].id < inside[t].id
    BY <1>4 DEF Increasing
  <2>1. at[r] \in DOMAIN rows /\ at[t] \in DOMAIN rows /\ at[r] < at[t]
    BY <1>1, <1>3
  <2> QED
    BY <1>1, <2>1 DEF Increasing
<1>6. Range(inside) = {inside[r] : r \in 1..k} /\ Range(rows) = {rows[i] : i \in DOMAIN rows}
  BY <1>4 DEF Range
<1>7. ASSUME NEW x \in Range(inside) PROVE x \in Range(rows) /\ SplitOf[seed][x.id] = name
  <2>1. PICK r \in 1..k : inside[r] = x
    BY <1>6
  <2>2. at[r] \in P /\ x = rows[at[r]]
    BY <1>1, <2>1
  <2> QED
    BY <1>3, <1>6, <2>2
<1>8. ASSUME NEW x \in Range(rows), SplitOf[seed][x.id] = name PROVE x \in Range(inside)
  <2>1. PICK i \in DOMAIN rows : rows[i] = x
    BY <1>6
  <2>2. PICK r \in 1..k : at[r] = i
    BY <1>1, <1>3, <1>8, <2>1
  <2> QED
    BY <1>1, <1>6, <2>1, <2>2
<1>9. Range(inside) = {x \in Range(rows) : SplitOf[seed][x.id] = name}
  BY <1>7, <1>8
<1> QED
  BY <1>5, <1>9 DEF inside

(* What the check accepts, the freeze makes of the same records.           *)
LEMMA FrozenAgain ==
  ASSUME NEW splits \in Published, NEW seed, verify_frozen_dataset(splits, seed),
         NEW all, all = Whole(splits),
         NEW again, again = freeze_records(all, seed, Len(all), Size(all))
  PROVE  IsOk(again) /\ again.value = splits
<1> DEFINE rows == Rows(all)
<1>1. /\ \A name \in Range(SplitNames) : Sound(splits[name], seed, name)
      /\ \E name \in Range(SplitNames) : splits[name].data # <<>>
  BY VerifiedSplits
<1>2. /\ all \in Seq(Lines) /\ Distinct(all)
      /\ Range(all) = UNION {Range(splits[name].data) : name \in Range(SplitNames)}
  BY <1>1, Together
<1>3. \A name \in Range(SplitNames) : splits[name].data \in Seq(Lines)
  BY DEF Published
<1>4. \A x \in Range(all) : x.form = "canonical"
  <2> SUFFICES ASSUME NEW name \in Range(SplitNames), NEW x \in Range(splits[name].data)
               PROVE  x.form = "canonical"
    BY <1>2
  <2>1. Sound(splits[name], seed, name)
    BY <1>1
  <2> QED
    BY <2>1 DEF Sound, Range
<1>5. Canonical(all) = all /\ Size(all) = Len(all)
  BY <1>2, <1>4, CanonicalAlready
<1>6. rows = Sorted(all)
  BY <1>5 DEF Rows
<1> DEFINE n == Len(all)
<1>7. /\ n \in Nat /\ rows \in [1..n -> Range(all)]
      /\ \A r, t \in 1..n : r < t <=> rows[r].id < rows[t].id
      /\ \A x \in Range(all) : \E r \in 1..n : rows[r] = x
  <2>1. /\ Len(all) \in Nat /\ Sorted(all) \in [1..Len(all) -> Range(all)]
        /\ \A r, t \in 1..Len(all) : r < t <=> Sorted(all)[r].id < Sorted(all)[t].id
        /\ \A x \in Range(all) : \E r \in 1..Len(all) : Sorted(all)[r] = x
    BY <1>2, SortedRecords, Zenon
  <2> QED
    BY <1>6, <2>1, Zenon
<1>8. rows \in Seq(Lines)
  BY <1>2, RowsTyped, Zenon
<1> HIDE DEF rows, n
<1>9. DOMAIN rows = 1..n /\ Len(rows) = n
  <2>1. DOMAIN rows = 1..n
    BY <1>7
  <2>2. DOMAIN rows = 1..Len(rows) /\ Len(rows) \in Nat
    BY <1>8
  <2> QED
    BY <1>7, <2>1, <2>2
<1>10. Increasing(rows)
  BY <1>7, <1>9 DEF Increasing
<1>11. Range(rows) = Range(all)
  <2>1. Range(rows) = {rows[r] : r \in 1..n}
    BY <1>9 DEF Range
  <2>2. \A r \in 1..n : rows[r] \in Range(all)
    BY <1>7
  <2>3. \A x \in Range(all) : \E r \in 1..n : rows[r] = x
    BY <1>7
  <2> QED
    BY <2>1, <2>2, <2>3
<1>12. Size(rows) = Size(all)
  <2>1. Size(rows) = Len(rows)
    BY <1>4, <1>8, <1>11, CanonicalAlready
  <2> QED
    BY <1>5, <1>9, <2>1 DEF n
<1>13. ASSUME NEW name \in Range(SplitNames) PROVE InSplit(rows, seed, name) = splits[name].data
  <2> DEFINE data == splits[name].data
             inside == InSplit(rows, seed, name)
  <2>1. inside \in Seq(Lines)
    BY <1>8, InSplitTyped
  <2>2. Increasing(inside) /\ Range(inside) = {x \in Range(rows) : SplitOf[seed][x.id] = name}
    BY <1>8, <1>10, SplitOfSorted
  <2>3. data \in Seq(Lines) /\ Increasing(data)
    BY <1>1, <1>3 DEF Sound
  <2>4. \A other \in Range(SplitNames) : \A x \in Range(splits[other].data) : SplitOf[seed][x.id] = other
    BY <1>1 DEF Sound, Range
  <2>5. Range(data) = {x \in Range(all) : SplitOf[seed][x.id] = name}
    BY <1>2, <2>4
  <2> HIDE DEF data, inside
  <2>6. Range(inside) = Range(data)
    BY <1>11, <2>2, <2>5
  <2>7. inside = data
    BY <2>1, <2>2, <2>3, <2>6, SameRecords
  <2> QED
    BY <2>7 DEF data, inside
<1>14. Frozen(rows, seed) = splits
  <2>1. splits \in [Range(SplitNames) -> [data : Seq(Lines), count : Nat, sealed : BOOLEAN]]
    BY DEF Published
  <2>2. ASSUME NEW name \in Range(SplitNames) PROVE FrozenSplit(rows, seed, name) = splits[name]
    <3>1. splits[name] \in [data : Seq(Lines), count : Nat, sealed : BOOLEAN]
      BY <2>1
    <3>2. splits[name].sealed = (name = "test") /\ splits[name].count = Len(splits[name].data)
      BY <1>1 DEF Sound
    <3>3. FrozenSplit(rows, seed, name) = [data |-> splits[name].data, count |-> splits[name].count,
                                           sealed |-> splits[name].sealed]
      BY <1>13, <3>2 DEF FrozenSplit
    <3> QED
      BY <3>1, <3>3
  <2>3. Frozen(rows, seed) = [name \in Range(SplitNames) |-> splits[name]]
    BY <2>2 DEF Frozen
  <2> QED
    BY <2>1, <2>3
<1>15. all # <<>>
  <2>1. PICK name \in Range(SplitNames) : splits[name].data # <<>>
    BY <1>1
  <2> DEFINE data == splits[name].data
  <2>2. data \in Seq(Lines) /\ data # <<>>
    BY <1>3, <2>1
  <2>3. Range(data) \subseteq Range(all)
    BY <1>2
  <2> HIDE DEF data
  <2>4. 1 \in DOMAIN data
    BY <2>2
  <2>5. data[1] \in Range(data)
    BY <2>4 DEF Range
  <2>6. Range(all) # {}
    BY <2>3, <2>5
  <2>7. DOMAIN all # {}
    BY <2>6 DEF Range
  <2>8. DOMAIN <<>> = {}
    OBVIOUS
  <2> QED
    BY <2>7, <2>8, Zenon
<1>16. IsOk(Scan(all, Len(all)))
  <2>1. \A i \in DOMAIN all : all[i].form # "broken"
    BY <1>4 DEF Range
  <2>2. Len(all) \in Int /\ Len(all) <= Len(all)
    BY <1>2
  <2> QED
    BY <1>2, <2>1, <2>2, ScanPassed
<1>17. ~(Size(rows) > Size(all))
  <2>1. Size(rows) = n
    BY <1>5, <1>12 DEF n
  <2>2. Size(all) = n
    BY <1>5 DEF n
  <2> QED
    BY <1>7, <2>1, <2>2
<1>18. again = IF all = <<>> THEN No("invalid")
                ELSE IF ~IsOk(Scan(all, Len(all))) THEN Scan(all, Len(all))
                ELSE IF Size(rows) > Size(all) THEN No("limit")
                ELSE IF verify_frozen_dataset(Frozen(rows, seed), seed) THEN Ok(Frozen(rows, seed))
                ELSE No("invalid")
  BY Zenon DEF freeze_records, Rows, Canonical, rows
<1>19. again = Ok(splits)
  BY <1>14, <1>15, <1>16, <1>17, <1>18
<1> QED
  BY <1>19 DEF Ok, IsOk

(* The flattened splits are the three splits one after another.            *)
LEMMA SplitsFlat ==
  ASSUME NEW m
  PROVE  FlattenSeq(Splits(m)) = Whole(m.splits)
<1> DEFINE s == Splits(m)
<1>1. DOMAIN s = 1..3 /\ s = [i \in 1..3 |-> m.splits[SplitNames[i]].data]
  BY SplitNamesAre DEF Splits
<1>2. Len(s) = 3
  BY <1>1
<1>3. 1 \in 1..3 /\ 2 \in 1..3 /\ 3 \in 1..3
  OBVIOUS
<1>4. /\ s[1] = m.splits["train"].data /\ s[2] = m.splits["validation"].data
      /\ s[3] = m.splits["test"].data
  BY <1>1, <1>3, SplitNamesAre
<1> HIDE DEF s
<1>5. FlattenSeq(s) = (s[1] \o s[2]) \o s[3]
  BY <1>2, FlattenThree
<1> QED
  BY <1>4, <1>5 DEF s, Whole

(* Whatever was done to the manifest, a dataset that is accepted is one    *)
(* the freeze makes of the same records under the same seed, for records   *)
(* and identities in any number (verify_dataset_manifest,                  *)
(* verify_frozen_dataset, freeze_records).                                 *)
THEOREM AcceptedIsFrozen == Spec => []OnlyFrozenAccepted
<1>1. ExperimentTypeOK /\ IInv => OnlyFrozenAccepted
  <2> SUFFICES ASSUME ExperimentTypeOK, IInv, DatasetRead PROVE OnlyFrozenAccepted
    BY DEF OnlyFrozenAccepted
  <2> DEFINE all == FlattenSeq(Splits(manifest))
             again == freeze_records(all, manifest.seed, Len(all), Size(all))
  <2>1. manifest \in Manifests
    BY DEF ExperimentTypeOK, DatasetRead
  <2>2. manifest.splits \in Published
    BY <2>1 DEF Manifests, Published
  <2>3. verify_frozen_dataset(manifest.splits, manifest.seed)
    BY DEF IInv, Checked
  <2>4. all = Whole(manifest.splits)
    BY SplitsFlat
  <2>5. IsOk(again) /\ again.value = manifest.splits
    <3>1. again = freeze_records(all, manifest.seed, Len(all), Size(all))
      OBVIOUS
    <3> HIDE DEF all, again
    <3> QED
      BY <2>2, <2>3, <2>4, <3>1, FrozenAgain
  <2> QED
    BY <2>5 DEF OnlyFrozenAccepted
<1> QED
  BY <1>1, Typed, PTL

(* Sizes of the three splits.                                              *)
LEMMA SplitSizes ==
  ASSUME NEW m \in Manifests
  PROVE  /\ TotalSize(Splits(m)) = Size(m.splits["train"].data) + Size(m.splits["validation"].data)
                                   + Size(m.splits["test"].data)
         /\ TotalSize(m.sources) \in Nat
         /\ \A name \in Range(SplitNames) : Size(m.splits[name].data) \in Nat
<1> DEFINE s == Splits(m)
           f == Sizes(s)
<1>1. DOMAIN s = 1..3 /\ s = [i \in 1..3 |-> m.splits[SplitNames[i]].data]
  BY SplitNamesAre DEF Splits
<1>2. \A name \in Range(SplitNames) : m.splits[name].data \in Seq(Lines)
  BY DEF Manifests
<1>3. s \in Seq(Seq(Lines))
  <2>1. \A i \in 1..3 : s[i] \in Seq(Lines)
    BY <1>1, <1>2, SplitNamesAre
  <2> QED
    BY <1>1, <2>1
<1>4. /\ 1 \in 1..3 /\ 2 \in 1..3 /\ 3 \in 1..3
      /\ (1..3) \ {3} = {1, 2} /\ {1, 2} \ {2} = {1} /\ {1} \ {1} = {}
  OBVIOUS
<1>5. /\ s[1] = m.splits["train"].data /\ s[2] = m.splits["validation"].data
      /\ s[3] = m.splits["test"].data
  BY <1>1, <1>4, SplitNamesAre
<1>6. f[1] = Size(s[1]) /\ f[2] = Size(s[2]) /\ f[3] = Size(s[3])
  BY <1>1, <1>4 DEF Sizes
<1> HIDE DEF s, f
<1>7. IsFiniteSet(1..3) /\ (\A i \in 1..3 : f[i] \in Nat) /\ TotalSize(s) = Summed(f, 1..3)
  BY <1>1, <1>3, TotalSizeIsSum DEF f
<1>8. \A i \in 1..3 : f[i] \in Int
  BY <1>7
<1>9. ASSUME NEW S \in SUBSET (1..3), NEW x \in S PROVE Summed(f, S) = f[x] + Summed(f, S \ {x})
  <2>1. IsFiniteSet(S)
    BY <1>7, FS_Subset
  <2>2. \A i \in S : f[i] \in Int
    BY <1>8
  <2>3. \A y \in S : Summed(f, S) = f[y] + Summed(f, S \ {y})
    BY <2>1, <2>2, SumRemove
  <2> QED
    BY <2>3
<1>10. Summed(f, 1..3) = f[3] + Summed(f, {1, 2})
  BY <1>4, <1>9
<1>11. Summed(f, {1, 2}) = f[2] + Summed(f, {1})
  <2>1. {1, 2} \in SUBSET (1..3) /\ 2 \in {1, 2}
    BY <1>4
  <2> QED
    BY <1>4, <1>9, <2>1
<1>11a. Summed(f, {1}) = f[1] + Summed(f, {})
  <2>1. {1} \in SUBSET (1..3) /\ 1 \in {1}
    BY <1>4
  <2> QED
    BY <1>4, <1>9, <2>1
<1>12. Summed(f, {}) = 0
  BY SumEmpty
<1>13. TotalSize(s) = f[1] + f[2] + f[3]
  BY <1>4, <1>7, <1>10, <1>11, <1>11a, <1>12
<1>14. TotalSize(m.sources) \in Nat
  <2>1. m.sources \in Seq(Seq(Lines))
    BY DEF Manifests
  <2> QED
    BY <2>1, TotalSizeIsSum
<1> QED
  BY <1>2, <1>5, <1>6, <1>13, <1>14, SizeIsNumber DEF s

(* The parser wants a positive number of bytes and of records: it is only  *)
(* on an empty split that it is given none.                                *)
LEMMA CrashOnlyEmpty ==
  ASSUME NEW sofar \in Readings, sofar.verdict # "crash", NEW split \in CountedRecords,
         NEW maxRecords \in Int, NEW maxBytes \in Int,
         ReadSplit(sofar, split, maxRecords, maxBytes).verdict = "crash"
  PROVE  split.data = <<>>
<1> DEFINE records == maxRecords - sofar.records
           bytes == maxBytes - sofar.bytes
           data == split.data
           parsed == parse_scoring_jsonl(data, bytes, records, TRUE)
           next == [verdict |-> "ok", records |-> sofar.records + split.count,
                    bytes |-> sofar.bytes + Size(data)]
           read == ReadSplit(sofar, split, maxRecords, maxBytes)
<1>1. data \in Seq(Lines) /\ split.count \in Nat /\ split.count >= Len(data)
  BY DEF CountedRecords, SplitRecords
<1>2. records \in Int /\ bytes \in Int
  BY DEF Readings
<1>3. read = IF sofar.verdict # "ok" THEN sofar
              ELSE IF ~WithinLimits(split, records, bytes) THEN [sofar EXCEPT !.verdict = "limit"]
              ELSE IF ~IsOk(parsed) THEN [sofar EXCEPT !.verdict = parsed.verdict]
              ELSE IF Len(data) # split.count THEN [sofar EXCEPT !.verdict = "invalid"]
              ELSE next
  BY Zenon DEF ReadSplit
<1>4. \A why : [sofar EXCEPT !.verdict = why].verdict = why
  BY DEF Readings
<1>5. next.verdict = "ok"
  OBVIOUS
<1>6. parsed = IF bytes < 1 \/ records < 1 THEN No("crash")
                ELSE IF Size(data) > bytes THEN No("limit")
                ELSE IF data = <<>> THEN IF TRUE THEN Ok(data) ELSE No("invalid")
                ELSE Scan(data, records)
  BY Zenon DEF parse_scoring_jsonl
<1> HIDE DEF read, next, records, bytes, parsed, data
<1>6a. read.verdict = "crash"
  BY DEF read
<1>7. WithinLimits(split, records, bytes) /\ parsed.verdict = "crash"
  BY <1>3, <1>4, <1>5, <1>6a
<1>8. bytes < 1 \/ records < 1
  <2>1. Scan(data, records) \in {No("invalid"), No("limit"), Ok(data)}
    BY ScanResult
  <2>2. No("invalid").verdict # "crash" /\ No("limit").verdict # "crash" /\ Ok(data).verdict # "crash"
    BY DEF No, Ok
  <2> QED
    BY <1>6, <1>7, <2>1, <2>2
<1>9. split.count <= records /\ Size(data) <= bytes
  BY <1>7 DEF WithinLimits, data
<1>10. Size(data) >= Len(data) /\ Size(data) \in Nat /\ Len(data) \in Nat
  <2>1. IsFiniteSet(DOMAIN data)
    BY <1>1, FS_Interval
  <2>2. Cardinality({i \in DOMAIN data : data[i].form = "loose"}) \in Nat
    BY <2>1, FS_Subset, FS_CardinalityType
  <2>3. Len(data) \in Nat
    BY <1>1
  <2> QED
    BY <2>2, <2>3 DEF Size
<1>11. Len(data) = 0
  BY <1>1, <1>2, <1>8, <1>9, <1>10
<1> QED
  BY <1>1, <1>11 DEF data

(* A split with records that is sound and fits is read.                    *)
LEMMA ReadIfFits ==
  ASSUME NEW sofar \in Readings, sofar.verdict = "ok", NEW split \in SplitRecords, NEW seed, NEW name,
         Sound(split, seed, name), split.data # <<>>,
         NEW maxRecords \in Int, NEW maxBytes \in Int,
         sofar.records + Len(split.data) <= maxRecords, sofar.bytes + Size(split.data) <= maxBytes
  PROVE  ReadSplit(sofar, split, maxRecords, maxBytes) =
            [verdict |-> "ok", records |-> sofar.records + Len(split.data),
             bytes |-> sofar.bytes + Size(split.data)]
<1> DEFINE records == maxRecords - sofar.records
           bytes == maxBytes - sofar.bytes
           data == split.data
           n == Len(data)
           parsed == parse_scoring_jsonl(data, bytes, records, TRUE)
<1>1. data \in Seq(Lines) /\ n = split.count /\ n \in Nat /\ n >= 1
  BY DEF Sound, SplitRecords
<1>2. records \in Int /\ bytes \in Int
  BY DEF Readings
<1>3. Distinct(data) /\ \A i \in DOMAIN data : data[i].form = "canonical"
  BY DEF Sound
<1>4. Size(data) = n
  <2>1. \A x \in Range(data) : x.form = "canonical"
    BY <1>3 DEF Range
  <2> QED
    BY <1>1, <2>1, CanonicalAlready
<1>5. n <= records /\ n <= bytes
  <2>1. sofar.records + n <= maxRecords /\ sofar.bytes + n <= maxBytes
    BY <1>4
  <2>2. sofar.records \in Int /\ sofar.bytes \in Int
    BY DEF Readings
  <2> QED
    BY <1>1, <2>1, <2>2
<1>6. parsed = IF bytes < 1 \/ records < 1 THEN No("crash")
                ELSE IF Size(data) > bytes THEN No("limit")
                ELSE IF data = <<>> THEN IF TRUE THEN Ok(data) ELSE No("invalid")
                ELSE Scan(data, records)
  BY Zenon DEF parse_scoring_jsonl
<1>7. IsOk(Scan(data, records))
  <2>1. \A i \in DOMAIN data : data[i].form # "broken"
    BY <1>3
  <2> QED
    BY <1>1, <1>2, <1>3, <1>5, <2>1, ScanPassed
<1>8. WithinLimits(split, records, bytes)
  BY <1>1, <1>4, <1>5 DEF WithinLimits
<1>9. ReadSplit(sofar, split, maxRecords, maxBytes) =
         IF sofar.verdict # "ok" THEN sofar
         ELSE IF ~WithinLimits(split, records, bytes) THEN [sofar EXCEPT !.verdict = "limit"]
         ELSE IF ~IsOk(parsed) THEN [sofar EXCEPT !.verdict = parsed.verdict]
         ELSE IF Len(data) # split.count THEN [sofar EXCEPT !.verdict = "invalid"]
         ELSE [verdict |-> "ok", records |-> sofar.records + split.count,
               bytes |-> sofar.bytes + Size(data)]
  BY Zenon DEF ReadSplit
<1>9a. data # <<>>
  OBVIOUS
<1> HIDE DEF parsed, records, bytes, data, n
<1>10. parsed = Scan(data, records)
  <2>1. ~(bytes < 1 \/ records < 1) /\ ~(n > bytes)
    BY <1>1, <1>2, <1>5
  <2> QED
    BY <1>4, <1>6, <1>9a, <2>1
<1>11. Len(data) = split.count
  BY <1>1 DEF n
<1>12. ReadSplit(sofar, split, maxRecords, maxBytes) =
          [verdict |-> "ok", records |-> sofar.records + split.count,
           bytes |-> sofar.bytes + Size(data)]
  BY <1>7, <1>8, <1>9, <1>10, <1>11
<1> QED
  BY <1>11, <1>12 DEF data

(* A frozen dataset within the limits, with records in every split, is     *)
(* read.                                                                   *)
LEMMA FitsIsRead ==
  ASSUME NEW m \in Manifests, verify_frozen_dataset(m.splits, m.seed),
         \A name \in Range(SplitNames) : m.splits[name].data # <<>>,
         NEW maxRecords \in Int, NEW maxBytes \in Int, Counts(m) <= maxRecords,
         TotalSize(m.sources) + TotalSize(Splits(m)) <= maxBytes
  PROVE  verify_dataset_manifest(m, maxRecords, maxBytes) = "ok"
<1> DEFINE t == m.splits["train"]
           v == m.splits["validation"]
           e == m.splits["test"]
           base == TotalSize(m.sources)
           start == ReadStart(m, maxBytes)
<1>1. /\ t \in SplitRecords /\ v \in SplitRecords /\ e \in SplitRecords
      /\ t.data # <<>> /\ v.data # <<>> /\ e.data # <<>>
  BY SplitNamesAre DEF Manifests, SplitRecords
<1>1a. m.splits \in Published
  BY DEF Manifests, Published
<1>2. \A name \in Range(SplitNames) : Sound(m.splits[name], m.seed, name)
  BY <1>1a, VerifiedSplits
<1>3. Sound(t, m.seed, "train") /\ Sound(v, m.seed, "validation") /\ Sound(e, m.seed, "test")
  BY <1>2, SplitNamesAre
<1>4. Counts(m) = Len(t.data) + Len(v.data) + Len(e.data)
  <2>1. Counts(m) = Len(Whole(m.splits))
    BY SplitsFlat DEF Counts
  <2>2. Len(Whole(m.splits)) = Len(t.data) + Len(v.data) + Len(e.data)
    BY <1>1a, <1>2, Together
  <2> QED
    BY <2>1, <2>2
<1>5. /\ TotalSize(Splits(m)) = Size(t.data) + Size(v.data) + Size(e.data) /\ base \in Nat
      /\ Size(t.data) \in Nat /\ Size(v.data) \in Nat /\ Size(e.data) \in Nat
  BY SplitSizes, SplitNamesAre
<1>6. Len(t.data) \in Nat /\ Len(v.data) \in Nat /\ Len(e.data) \in Nat
  BY <1>1, SMTT(30) DEF SplitRecords
<1>7. PICK h1 \in Readings, h2 \in Readings, h3 \in Readings :
            /\ h1 = ReadSplit(start, t, maxRecords, maxBytes)
            /\ h2 = ReadSplit(h1, v, maxRecords, maxBytes)
            /\ h3 = ReadSplit(h2, e, maxRecords, maxBytes)
            /\ SplitsRead(m, maxRecords, maxBytes) = h3
  BY SplitsSteps
<1>8. start \in Readings
  BY ReadStartTyped
<1>9. start.verdict = "ok" /\ start.records = 0 /\ start.bytes = base
  BY <1>5 DEF ReadStart
<1> DEFINE total == TotalSize(Splits(m))
           count == Counts(m)
<1>9a. base + total <= maxBytes /\ count <= maxRecords
  OBVIOUS
<1> HIDE DEF t, v, e, base, start, total, count
<1>10. count = Len(t.data) + Len(v.data) + Len(e.data)
       /\ total = Size(t.data) + Size(v.data) + Size(e.data)
  BY <1>4, <1>5 DEF total, count
<1>10a. \A a, b, c, d \in Nat, x \in Int :
           d + (a + b + c) <= x => d + a <= x /\ d + a + b <= x /\ d + a + b + c <= x
  OBVIOUS
<1>10b. /\ base + Size(t.data) <= maxBytes /\ base + Size(t.data) + Size(v.data) <= maxBytes
        /\ base + Size(t.data) + Size(v.data) + Size(e.data) <= maxBytes
  <2>1. base + (Size(t.data) + Size(v.data) + Size(e.data)) <= maxBytes
    BY <1>9a, <1>10
  <2> QED
    BY <1>5, <1>10a, <2>1
<1>10c. /\ 0 + Len(t.data) <= maxRecords /\ Len(t.data) + Len(v.data) <= maxRecords
        /\ Len(t.data) + Len(v.data) + Len(e.data) <= maxRecords
  <2>0. Len(t.data) + Len(v.data) + Len(e.data) <= maxRecords
    BY <1>9a, <1>10
  <2>0a. \A a \in Int : 0 + a = a
    OBVIOUS
  <2>0b. Len(t.data) + Len(v.data) + Len(e.data) \in Int
    BY <1>6
  <2>1. 0 + (Len(t.data) + Len(v.data) + Len(e.data)) <= maxRecords
    BY <2>0, <2>0a, <2>0b
  <2>2. /\ 0 + Len(t.data) <= maxRecords /\ 0 + Len(t.data) + Len(v.data) <= maxRecords
        /\ 0 + Len(t.data) + Len(v.data) + Len(e.data) <= maxRecords
    BY <1>6, <1>10a, <2>1
  <2>3. 0 + Len(t.data) = Len(t.data)
    BY <1>6
  <2> QED
    BY <2>2, <2>3
<1>11. h1 = [verdict |-> "ok", records |-> start.records + Len(t.data),
             bytes |-> start.bytes + Size(t.data)]
  <2>1. start.records + Len(t.data) <= maxRecords /\ start.bytes + Size(t.data) <= maxBytes
    BY <1>10b, <1>10c, <1>9
  <2> QED
    BY <1>1, <1>3, <1>7, <1>8, <1>9, <2>1, ReadIfFits
<1>12. h1.verdict = "ok" /\ h1.records = Len(t.data) /\ h1.bytes = base + Size(t.data)
  BY <1>5, <1>6, <1>9, <1>11
<1>13. h2 = [verdict |-> "ok", records |-> h1.records + Len(v.data),
             bytes |-> h1.bytes + Size(v.data)]
  <2>1. h1.records + Len(v.data) <= maxRecords /\ h1.bytes + Size(v.data) <= maxBytes
    BY <1>10b, <1>10c, <1>12
  <2> QED
    BY <1>1, <1>3, <1>7, <1>12, <2>1, ReadIfFits, ZenonT(60)
<1>14. /\ h2.verdict = "ok" /\ h2.records = Len(t.data) + Len(v.data)
       /\ h2.bytes = base + Size(t.data) + Size(v.data)
  BY <1>5, <1>6, <1>12, <1>13
<1>15. h3 = [verdict |-> "ok", records |-> h2.records + Len(e.data),
             bytes |-> h2.bytes + Size(e.data)]
  <2>1. h2.records + Len(e.data) <= maxRecords /\ h2.bytes + Size(e.data) <= maxBytes
    BY <1>10b, <1>10c, <1>14
  <2> QED
    BY <1>1, <1>3, <1>7, <1>14, <2>1, ReadIfFits, ZenonT(60)
<1>16. SplitsRead(m, maxRecords, maxBytes).verdict = "ok"
  BY <1>7, <1>15
<1> QED
  BY <1>16, Zenon DEF verify_dataset_manifest

(* A split that is read adds what it has, and keeps to what was left.      *)
LEMMA ReadAdds ==
  ASSUME NEW sofar \in Readings, NEW split \in SplitRecords,
         NEW maxRecords \in Int, NEW maxBytes \in Int,
         ReadSplit(sofar, split, maxRecords, maxBytes).verdict = "ok"
  PROVE  LET read == ReadSplit(sofar, split, maxRecords, maxBytes)
         IN  /\ sofar.verdict = "ok"
             /\ read.records = sofar.records + Len(split.data) /\ read.records <= maxRecords
             /\ read.bytes = sofar.bytes + Size(split.data) /\ read.bytes <= maxBytes
<1> DEFINE records == maxRecords - sofar.records
           bytes == maxBytes - sofar.bytes
           data == split.data
           n == Len(data)
           size == Size(data)
           parsed == parse_scoring_jsonl(data, bytes, records, TRUE)
           read == ReadSplit(sofar, split, maxRecords, maxBytes)
<1>1. sofar.records \in Int /\ sofar.bytes \in Int
  BY DEF Readings
<1>2. split.count \in Nat /\ size \in Nat
  BY SizeIsNumber DEF SplitRecords
<1>3. read =
         IF sofar.verdict # "ok" THEN sofar
         ELSE IF ~WithinLimits(split, records, bytes) THEN [sofar EXCEPT !.verdict = "limit"]
         ELSE IF ~IsOk(parsed) THEN [sofar EXCEPT !.verdict = parsed.verdict]
         ELSE IF n # split.count THEN [sofar EXCEPT !.verdict = "invalid"]
         ELSE [verdict |-> "ok", records |-> sofar.records + split.count,
               bytes |-> sofar.bytes + size]
  BY Zenon DEF ReadSplit
<1>4. \A why : [sofar EXCEPT !.verdict = why].verdict = why
  BY DEF Readings
<1>5. IsOk(parsed) <=> parsed.verdict = "ok"
  BY DEF IsOk
<1>6. WithinLimits(split, records, bytes) => split.count <= records /\ size <= bytes
  BY DEF WithinLimits
<1>7. read.verdict = "ok"
  OBVIOUS
<1> HIDE DEF parsed, n, size, read
<1>8. /\ sofar.verdict = "ok" /\ WithinLimits(split, records, bytes) /\ n = split.count
      /\ read = [verdict |-> "ok", records |-> sofar.records + split.count,
                 bytes |-> sofar.bytes + size]
  BY <1>3, <1>4, <1>5, <1>7
<1>9. split.count <= records /\ size <= bytes
  BY <1>6, <1>8
<1>10. sofar.records + split.count <= maxRecords /\ sofar.bytes + size <= maxBytes
  BY <1>1, <1>2, <1>9
<1>11. /\ sofar.verdict = "ok"
       /\ read.records = sofar.records + n /\ read.records <= maxRecords
       /\ read.bytes = sofar.bytes + size /\ read.bytes <= maxBytes
  BY <1>8, <1>10
<1> QED
  BY <1>11 DEF read, n, size

(* A dataset that is verified keeps to both limits.                        *)
LEMMA ReadFits ==
  ASSUME NEW m \in Manifests, NEW maxRecords \in Int, NEW maxBytes \in Int,
         verify_dataset_manifest(m, maxRecords, maxBytes) = "ok"
  PROVE  /\ Counts(m) <= maxRecords
         /\ TotalSize(m.sources) + TotalSize(Splits(m)) <= maxBytes
<1> DEFINE t == m.splits["train"]
           v == m.splits["validation"]
           e == m.splits["test"]
           base == TotalSize(m.sources)
           start == ReadStart(m, maxBytes)
<1>1. /\ SplitsRead(m, maxRecords, maxBytes).verdict = "ok"
      /\ verify_frozen_dataset(m.splits, m.seed)
  BY Zenon DEF verify_dataset_manifest
<1>2. t \in SplitRecords /\ v \in SplitRecords /\ e \in SplitRecords
  BY SplitNamesAre DEF Manifests, SplitRecords
<1>3. Counts(m) = Len(t.data) + Len(v.data) + Len(e.data)
  <2>1. m.splits \in Published
    BY DEF Manifests, Published
  <2>2. \A name \in Range(SplitNames) : Sound(m.splits[name], m.seed, name)
    BY <1>1, <2>1, VerifiedSplits
  <2>3. Counts(m) = Len(Whole(m.splits))
    BY SplitsFlat DEF Counts
  <2>4. Len(Whole(m.splits)) = Len(t.data) + Len(v.data) + Len(e.data)
    BY <2>1, <2>2, Together
  <2> QED
    BY <2>3, <2>4
<1>4. /\ TotalSize(Splits(m)) = Size(t.data) + Size(v.data) + Size(e.data) /\ base \in Nat
      /\ Size(t.data) \in Nat /\ Size(v.data) \in Nat /\ Size(e.data) \in Nat
  BY SplitSizes, SplitNamesAre
<1>5. Len(t.data) \in Nat /\ Len(v.data) \in Nat /\ Len(e.data) \in Nat
  BY <1>2, SMTT(30) DEF SplitRecords
<1>6. PICK h1 \in Readings, h2 \in Readings, h3 \in Readings :
            /\ h1 = ReadSplit(start, t, maxRecords, maxBytes)
            /\ h2 = ReadSplit(h1, v, maxRecords, maxBytes)
            /\ h3 = ReadSplit(h2, e, maxRecords, maxBytes)
            /\ SplitsRead(m, maxRecords, maxBytes) = h3
  BY SplitsSteps
<1>7. start \in Readings /\ start.records = 0 /\ start.bytes = base
  BY ReadStartTyped DEF ReadStart
<1> HIDE DEF t, v, e, base, start
<1>7a. h3 = ReadSplit(h2, e, maxRecords, maxBytes) /\ h3.verdict = "ok"
  BY <1>1, <1>6
<1>8. /\ h2.verdict = "ok"
      /\ h3.records = h2.records + Len(e.data) /\ h3.records <= maxRecords
      /\ h3.bytes = h2.bytes + Size(e.data) /\ h3.bytes <= maxBytes
  BY <1>2, <1>7a, ReadAdds, ZenonT(60)
<1>9. /\ h1.verdict = "ok"
      /\ h2.records = h1.records + Len(v.data) /\ h2.bytes = h1.bytes + Size(v.data)
  BY <1>2, <1>6, <1>8, ReadAdds, ZenonT(60)
<1>10. h1.records = start.records + Len(t.data) /\ h1.bytes = start.bytes + Size(t.data)
  BY <1>2, <1>6, <1>7, <1>9, ReadAdds, ZenonT(60)
<1> DEFINE total == TotalSize(Splits(m))
           count == Counts(m)
<1>11. count = Len(t.data) + Len(v.data) + Len(e.data)
       /\ total = Size(t.data) + Size(v.data) + Size(e.data)
  BY <1>3, <1>4
<1> HIDE DEF total, count
<1>12. count = h3.records /\ base + total = h3.bytes
  BY <1>4, <1>5, <1>7, <1>8, <1>9, <1>10, <1>11
<1> QED
  BY <1>8, <1>12 DEF total, count, base

(* The internal failure of the parser is met on an empty split only.       *)
LEMMA CrashedIsEmpty ==
  ASSUME NEW m \in Within(CountedRecords), NEW maxRecords \in Int, NEW maxBytes \in Int,
         verify_dataset_manifest(m, maxRecords, maxBytes) = "crash"
  PROVE  \E name \in Range(SplitNames) : m.splits[name].data = <<>>
<1> DEFINE start == ReadStart(m, maxBytes)
<1>1. m \in Manifests /\ \A name \in Range(SplitNames) : m.splits[name] \in CountedRecords
  BY DEF Within
<1>2. PICK h1 \in Readings, h2 \in Readings, h3 \in Readings :
            /\ h1 = ReadSplit(start, m.splits["train"], maxRecords, maxBytes)
            /\ h2 = ReadSplit(h1, m.splits["validation"], maxRecords, maxBytes)
            /\ h3 = ReadSplit(h2, m.splits["test"], maxRecords, maxBytes)
            /\ SplitsRead(m, maxRecords, maxBytes) = h3
  BY <1>1, SplitsSteps
<1>3. start \in Readings /\ start.verdict # "crash"
  BY <1>1, ReadStartTyped DEF ReadStart
<1>4. h3.verdict = "crash"
  BY <1>2 DEF verify_dataset_manifest
<1> HIDE DEF start
<1> SUFFICES ASSUME \A name \in Range(SplitNames) : m.splits[name].data # <<>> PROVE FALSE
  OBVIOUS
<1>5. h1.verdict # "crash"
  BY <1>1, <1>2, <1>3, SplitNamesAre, CrashOnlyEmpty
<1>6. h2.verdict # "crash"
  BY <1>1, <1>2, <1>5, SplitNamesAre, CrashOnlyEmpty
<1>7. h3.verdict # "crash"
  BY <1>1, <1>2, <1>6, SplitNamesAre, CrashOnlyEmpty
<1> QED
  BY <1>4, <1>7

(***************************************************************************)
(* What makes a frozen dataset acceptable: a refusal and an acceptance are *)
(* the verdict of the documents as they still are, a split counts at least *)
(* the records it has, a manifest nobody changed is as the freeze verified *)
(* it, and the benchmark asks for a record in every split.                 *)
(***************************************************************************)
ReadVerdict ==
    LET read == verify_dataset_manifest(manifest, job.max_records, job.max_input_bytes)
    IN  IF read = "ok" /\ ~MinimumMet THEN "invalid" ELSE read

Refused == stage = "dataset" /\ verdict # "ok" => verdict = ReadVerdict

Accepted == DatasetRead => ReadVerdict = "ok"

Counted == stage # "freeze" => manifest \in Within(CountedRecords)

Untouched ==
    stage # "freeze" /\ ~tampered => verify_frozen_dataset(manifest.splits, manifest.seed)

Bound ==
    stage \in {"dataset", "candidate", "evaluate", "done"} =>
        \A name \in Range(SplitNames) : benchmark.minimum[name] >= 1

AInv == Refused /\ Accepted /\ Counted /\ Untouched /\ Bound

(* The relation between freeze and verification holds initially.           *)
LEMMA AcceptInit == Init => AInv
  BY DEF Init, AInv, Refused, Accepted, DatasetRead, Counted, Untouched, Bound

(* A freeze publishes what the verification accepts within the limits.     *)
LEMMA FreezeKeepsAcceptable ==
  ASSUME ExperimentTypeOK, NEW e \in Exports, Freeze(e.sources, e.seed, e.max_records)
  PROVE  AInv'
<1> DEFINE frozen == freeze_jsonl_sources(e.sources, e.seed, TotalSize(e.sources),
                                          e.max_records, MaxOutput)
           m == build_dataset_manifest(frozen.value, e.seed, e.sources)
<1>1. e.sources \in Seq(Seq(Lines)) /\ e.seed \in Seeds /\ e.max_records \in Int
  BY ExperimentAssumption
<1>2. IsOk(frozen) => verify_frozen_dataset(frozen.value, e.seed) /\ frozen.value \in Published
  BY <1>1, FreezeTyped
<1>3. /\ stage = "freeze" /\ Then("publish", frozen.verdict)
      /\ manifest' = IF IsOk(frozen) THEN m ELSE Nothing
  BY Zenon DEF Freeze, Reads
<1>4. m.splits = frozen.value /\ m.seed = e.seed
      /\ m = [seed |-> e.seed, sources |-> e.sources, splits |-> frozen.value]
  BY DEF build_dataset_manifest
<1> HIDE DEF frozen, m
<1>5. stage' = IF IsOk(frozen) THEN "publish" ELSE "freeze"
  BY <1>3 DEF Then, IsOk
<1>6. IsOk(frozen) => m \in Within(CountedRecords)
  <2> SUFFICES ASSUME IsOk(frozen) PROVE m \in Within(CountedRecords)
    OBVIOUS
  <2>1. m \in Manifests
    BY <1>1, <1>2, <1>4 DEF Manifests, Published
  <2>2. \A name \in Range(SplitNames) : Sound(m.splits[name], m.seed, name)
    BY <1>2, <1>4, VerifiedSplits
  <2>3. ASSUME NEW name \in Range(SplitNames) PROVE m.splits[name] \in CountedRecords
    <3>1. m.splits[name] \in SplitRecords
      BY <2>1 DEF Manifests, SplitRecords
    <3>2. m.splits[name].count = Len(m.splits[name].data)
      BY <2>2 DEF Sound
    <3>3. m.splits[name].count \in Nat
      BY <3>1 DEF SplitRecords
    <3> QED
      BY <3>1, <3>2, <3>3 DEF CountedRecords
  <2> QED
    BY <2>1, <2>3 DEF Within
<1>7. Counted'
  BY <1>3, <1>5, <1>6 DEF Counted
<1>8. Untouched'
  BY <1>2, <1>3, <1>4, <1>5 DEF Untouched
<1>9. Refused' /\ Accepted' /\ Bound'
  BY <1>5 DEF Refused, Accepted, DatasetRead, Bound
<1> QED
  BY <1>7, <1>8, <1>9 DEF AInv

(* A change leaves every split counting at least the records it has.       *)
LEMMA TamperKeepsAcceptable ==
  ASSUME ExperimentTypeOK, AInv, NEW name \in Range(SplitNames), Tamper(name)
  PROVE  AInv'
<1>1. stage = "publish" /\ stage' = stage /\ tampered' = TRUE
  BY DEF Tamper, Reads
<1>2. manifest \in Within(CountedRecords)
  BY <1>1 DEF AInv, Counted
<1>3. manifest' \in Within(CountedRecords)
  <2>1. CASE manifest' \in Altered(name)
    BY <1>2, <2>1, AlteredTyped, BothClosed
  <2>2. ASSUME NEW s \in Seeds, manifest' = [manifest EXCEPT !.seed = s]
        PROVE  manifest' \in Within(CountedRecords)
    <3>1. manifest \in Manifests /\ \A n \in Range(SplitNames) : manifest.splits[n] \in CountedRecords
      BY <1>2 DEF Within
    <3>2. manifest' \in Manifests /\ manifest'.splits = manifest.splits
      BY <2>2, <3>1 DEF Manifests
    <3> QED
      BY <3>1, <3>2 DEF Within
  <2> QED
    BY <2>1, <2>2 DEF Tamper
<1> QED
  BY <1>1, <1>3 DEF AInv, Refused, Accepted, DatasetRead, Counted, Untouched, Bound

(* Every step keeps the relation between what was frozen and what is       *)
(* accepted.                                                               *)
LEMMA AcceptNext == ExperimentTypeOK /\ AInv /\ [Next]_vars => AInv'
<1> SUFFICES ASSUME ExperimentTypeOK, AInv, [Next]_vars PROVE AInv'
  OBVIOUS
<1>1. ASSUME NEW j \in Jobs, Submit(j) PROVE AInv'
  <2>1. /\ stage = "publish" /\ stage' \in {"publish", "benchmark"}
        /\ UNCHANGED <<manifest, tampered>>
    BY <1>1 DEF Submit, Reads, Then
  <2> QED
    BY <2>1 DEF AInv, Refused, Accepted, DatasetRead, Counted, Untouched, Bound
<1>2. ASSUME NEW b \in Benchmarks, ReadBenchmark(b) PROVE AInv'
  <2>1. /\ stage = "benchmark" /\ benchmark' = b /\ UNCHANGED <<manifest, tampered>>
        /\ stage' = (IF Binds(b) THEN "dataset" ELSE "benchmark")
        /\ verdict' = (IF Binds(b) THEN "ok" ELSE "invalid")
    BY <1>2 DEF ReadBenchmark, Reads, Then
  <2>2. Binds(b) => \A name \in Range(SplitNames) : b.minimum[name] >= 1
    BY ExperimentAssumption DEF Binds
  <2> QED
    BY <2>1, <2>2 DEF AInv, Refused, Accepted, DatasetRead, Counted, Untouched, Bound
<1>3. CASE ReadDataset
  <2>1. /\ stage = "dataset" /\ Then("candidate", ReadVerdict)
        /\ UNCHANGED <<manifest, tampered, job, benchmark>>
    BY <1>3 DEF ReadDataset, Reads, ReadVerdict
  <2>2. ReadVerdict' = ReadVerdict
    BY <2>1 DEF ReadVerdict, MinimumMet
  <2>3. verdict' = ReadVerdict /\ stage' = IF ReadVerdict = "ok" THEN "candidate" ELSE "dataset"
    BY <2>1 DEF Then
  <2> QED
    BY <2>1, <2>2, <2>3 DEF AInv, Refused, Accepted, DatasetRead, Counted, Untouched, Bound
<1>4. ASSUME NEW p \in Payloads, NEW d \in Declarations, ReadCandidate(p, d) PROVE AInv'
  <2>1. /\ stage = "candidate" /\ stage' \in {"candidate", "evaluate"}
        /\ UNCHANGED <<manifest, tampered, job, benchmark>>
    BY <1>4 DEF ReadCandidate, Reads, Then
  <2>2. ReadVerdict' = ReadVerdict
    BY <2>1 DEF ReadVerdict, MinimumMet
  <2> QED
    BY <2>1, <2>2 DEF AInv, Refused, Accepted, DatasetRead, Counted, Untouched, Bound
<1>5. CASE Evaluate
  <2>1. /\ stage = "evaluate" /\ stage' \in {"evaluate", "done"}
        /\ UNCHANGED <<manifest, tampered, job, benchmark>>
    BY <1>5 DEF Evaluate, Reads, Then
  <2>2. ReadVerdict' = ReadVerdict
    BY <2>1 DEF ReadVerdict, MinimumMet
  <2> QED
    BY <2>1, <2>2 DEF AInv, Refused, Accepted, DatasetRead, Counted, Untouched, Bound
<1>6. CASE UNCHANGED vars
  <2>1. ReadVerdict' = ReadVerdict
    BY <1>6 DEF vars, ReadVerdict, MinimumMet
  <2> QED
    BY <1>6, <2>1 DEF vars, AInv, Refused, Accepted, DatasetRead, Counted, Untouched, Bound
<1> QED
  BY <1>1, <1>2, <1>3, <1>4, <1>5, <1>6, FreezeKeepsAcceptable, TamperKeepsAcceptable DEF Next

(* The freeze and the check of a manifest agree, for records, limits and   *)
(* changes of any kind: a dataset as it was frozen is refused only if it   *)
(* exceeds the job's limits or has too few records for the benchmark, an   *)
(* accepted one does neither, and the parser's internal failure is met     *)
(* only when a split is empty                                              *)
(* (freeze_records, verify_dataset_manifest, parse_scoring_jsonl).         *)
THEOREM FrozenIsAccepted == Spec => []FrozenAccepted
<1>1. Spec => []AInv
  <2>1. ExperimentTypeOK /\ AInv /\ [Next]_vars => AInv'
    BY AcceptNext
  <2> QED
    BY AcceptInit, <2>1, Typed, PTL DEF Spec
<1>2. ExperimentTypeOK /\ IInv /\ Gated /\ AInv => FrozenAccepted
  <2>0. ASSUME ExperimentTypeOK, IInv, AInv, DatasetRead PROVE LimitsMet
    <3>1. manifest \in Manifests /\ job \in Jobs
      BY <2>0 DEF AInv, Counted, Within, DatasetRead, IInv, Submitted
    <3>2. job.max_records \in Int /\ job.max_input_bytes \in Int
      BY <3>1, ExperimentAssumption
    <3>3. verify_dataset_manifest(manifest, job.max_records, job.max_input_bytes) = "ok" /\ MinimumMet
      BY <2>0 DEF AInv, Accepted, ReadVerdict
    <3> QED
      BY <3>1, <3>2, <3>3, ReadFits DEF LimitsMet
  <2> SUFFICES ASSUME ExperimentTypeOK, IInv, Gated, AInv, stage = "dataset", verdict # "ok"
               PROVE  /\ verdict = "crash" => \E name \in Range(SplitNames) :
                                                  manifest.splits[name].data = <<>>
                      /\ ~tampered => ~LimitsMet
    BY <2>0 DEF FrozenAccepted
  <2> DEFINE read == verify_dataset_manifest(manifest, job.max_records, job.max_input_bytes)
  <2>1. /\ manifest \in Within(CountedRecords) /\ manifest \in Manifests
        /\ job \in Jobs /\ benchmark \in Benchmarks
    BY DEF AInv, Counted, IInv, Submitted, Gated, Within
  <2>2. job.max_records \in Int /\ job.max_input_bytes \in Int
    BY <2>1, ExperimentAssumption
  <2>3. verdict = IF read = "ok" /\ ~MinimumMet THEN "invalid" ELSE read
    BY DEF AInv, Refused, ReadVerdict
  <2>4. verdict = "crash" => \E name \in Range(SplitNames) : manifest.splits[name].data = <<>>
    <3>1. verdict = "crash" => read = "crash"
      BY <2>3
    <3> QED
      BY <2>1, <2>2, <3>1, CrashedIsEmpty
  <2>5. ASSUME ~tampered, LimitsMet PROVE FALSE
    <3>1. verify_frozen_dataset(manifest.splits, manifest.seed)
      BY <2>5 DEF AInv, Untouched
    <3>2. \A name \in Range(SplitNames) : Sound(manifest.splits[name], manifest.seed, name)
      <4>1. manifest.splits \in Published
        BY <2>1 DEF Manifests, Published
      <4> QED
        BY <3>1, <4>1, VerifiedSplits
    <3>3. \A name \in Range(SplitNames) : manifest.splits[name].data # <<>>
      <4> SUFFICES ASSUME NEW name \in Range(SplitNames) PROVE manifest.splits[name].data # <<>>
        OBVIOUS
      <4>1. benchmark.minimum[name] >= 1 /\ benchmark.minimum[name] \in Int
        BY <2>1, ExperimentAssumption DEF AInv, Bound
      <4>2. manifest.splits[name].count >= benchmark.minimum[name]
        BY <2>5 DEF LimitsMet, MinimumMet
      <4>3. manifest.splits[name].count = Len(manifest.splits[name].data)
            /\ manifest.splits[name].count \in Nat
        BY <2>1, <3>2 DEF Sound, Manifests
      <4>4. Len(<<>>) = 0
        OBVIOUS
      <4> QED
        BY <4>1, <4>2, <4>3, <4>4
    <3>4. read = "ok"
      <4>1. /\ Counts(manifest) <= job.max_records
            /\ TotalSize(manifest.sources) + TotalSize(Splits(manifest)) <= job.max_input_bytes
        BY <2>5 DEF LimitsMet
      <4> QED
        BY <2>1, <2>2, <3>1, <3>3, <4>1, FitsIsRead
    <3> QED
      BY <2>3, <2>5, <3>4 DEF LimitsMet
  <2> QED
    BY <2>4, <2>5
<1> QED
  BY <1>1, <1>2, Typed, PTL

(***************************************************************************)
(* The laws of the metrics, for any number of records: rounding, agreement *)
(* with the labels, the order of records by score, the pairs drawn, the    *)
(* bins of calibration and the correlation of ranks.                       *)
(***************************************************************************)

(* The numbering of the pairs is exact: before the pairs of record i there *)
(* are those of the records before it, and record i begins n - i - 1.      *)
LEMMA Doubled == \A i \in Nat : \E m \in Nat : i * (i + 1) = 2 * m
<1> SUFFICES ASSUME NEW i \in Nat PROVE \E m \in Nat : i * (i + 1) = 2 * m
  OBVIOUS
<1> DEFINE k == i \div 2
<1>1. k \in Nat /\ (i = 2 * k \/ i = 2 * k + 1)
  OBVIOUS
<1> HIDE DEF k
<1>2. CASE i = 2 * k
  <2>1. k * (2 * k + 1) \in Nat /\ i * (i + 1) = 2 * (k * (2 * k + 1))
    BY <1>1, <1>2
  <2> QED
    BY <2>1
<1>3. CASE i = 2 * k + 1
  <2>1. (2 * k + 1) * (k + 1) \in Nat /\ i * (i + 1) = 2 * ((2 * k + 1) * (k + 1))
    BY <1>1, <1>3
  <2> QED
    BY <2>1
<1> QED
  BY <1>1, <1>2, <1>3

(* The number of pairs before record i, without the division of the code.  *)
LEMMA PairsBefore ==
  ASSUME NEW n \in Nat, NEW i \in Nat
  PROVE  /\ _pairs_before(i, n) \in Int
         /\ 2 * _pairs_before(i, n) = i * (2 * n - i - 1)
<1>1. PICK m \in Nat : i * (i + 1) = 2 * m
  BY Doubled
<1>2. i * (2 * n - i - 1) = 2 * (n * i - m)
  <2>1. i * (2 * n - i - 1) = 2 * (n * i) - i * (i + 1)
    OBVIOUS
  <2>2. n * i \in Nat
    OBVIOUS
  <2> QED
    BY <1>1, <2>1, <2>2
<1>3. n * i - m \in Int
  OBVIOUS
<1>4. \A a \in Int : (2 * a) \div 2 = a
  OBVIOUS
<1>5. _pairs_before(i, n) = n * i - m
  BY <1>2, <1>3, <1>4 DEF _pairs_before
<1> QED
  BY <1>2, <1>3, <1>5

(* Record i is the first of n - i - 1 pairs.                               *)
LEMMA PairsAfter ==
  ASSUME NEW n \in Nat, NEW i \in 0..(n - 1)
  PROVE  _pairs_before(i + 1, n) = _pairs_before(i, n) + (n - i - 1)
<1> DEFINE k == i + 1
<1>0. k \in Nat /\ i \in Nat
  OBVIOUS
<1> HIDE DEF k
<1>1. /\ _pairs_before(i, n) \in Int /\ _pairs_before(k, n) \in Int
      /\ 2 * _pairs_before(i, n) = i * (2 * n - i - 1)
      /\ 2 * _pairs_before(k, n) = k * (2 * n - k - 1)
  BY <1>0, PairsBefore
<1>2. k * (2 * n - k - 1) = i * (2 * n - i - 1) + 2 * (n - i - 1)
  BY DEF k
<1>3. i * (2 * n - i - 1) \in Int /\ n - i - 1 \in Int
  OBVIOUS
<1>4. _pairs_before(k, n) = _pairs_before(i, n) + (n - i - 1)
  BY <1>1, <1>2, <1>3
<1> QED
  BY <1>4 DEF k

(* A later record has no fewer pairs before it.                            *)
LEMMA PairsBeforeGrows ==
  ASSUME NEW n \in Nat \ {0}, NEW i \in 0..(n - 1), NEW j \in 0..(n - 1), i <= j
  PROVE  _pairs_before(i, n) <= _pairs_before(j, n)
<1>0. i \in Nat /\ j \in Nat
  OBVIOUS
<1>1. /\ _pairs_before(i, n) \in Int /\ _pairs_before(j, n) \in Int
      /\ 2 * _pairs_before(i, n) = i * (2 * n - i - 1)
      /\ 2 * _pairs_before(j, n) = j * (2 * n - j - 1)
  BY <1>0, PairsBefore
<1>2. j * (2 * n - j - 1) - i * (2 * n - i - 1) = (j - i) * (2 * n - i - j - 1)
  OBVIOUS
<1>3. \A a, b \in Nat : a * b \in Nat
  OBVIOUS
<1>4. (j - i) * (2 * n - i - j - 1) \in Nat
  BY <1>3
<1>5. j * (2 * n - j - 1) \in Int /\ i * (2 * n - i - 1) \in Int
  OBVIOUS
<1> QED
  BY <1>1, <1>2, <1>4, <1>5

(* The number of pairs of n records.                                       *)
PairTotal(n) == (n * (n - 1)) \div 2

(* All pairs come before the last record, and none before the first.       *)
LEMMA PairTotalIs ==
  ASSUME NEW n \in Nat \ {0}
  PROVE  /\ PairTotal(n) \in Nat /\ 2 * PairTotal(n) = n * (n - 1)
         /\ PairTotal(n) = _pairs_before(n - 1, n) /\ _pairs_before(0, n) = 0
<1> DEFINE k == n - 1
           zero == n - n
<1>0. k \in Nat /\ zero \in Nat /\ zero = 0 /\ n = k + 1
  OBVIOUS
<1> HIDE DEF k, zero
<1>1. PICK m \in Nat : k * (k + 1) = 2 * m
  BY <1>0, Doubled
<1>2. n * (n - 1) = 2 * m
  BY <1>0, <1>1 DEF k
<1>3. \A a \in Int : (2 * a) \div 2 = a
  OBVIOUS
<1>4. PairTotal(n) = m
  BY <1>2, <1>3 DEF PairTotal
<1>5. _pairs_before(k, n) \in Int /\ 2 * _pairs_before(k, n) = k * (2 * n - k - 1)
  BY <1>0, PairsBefore
<1>6. k * (2 * n - k - 1) = n * (n - 1)
  BY <1>0
<1>7. _pairs_before(k, n) = m
  BY <1>2, <1>5, <1>6
<1>8. /\ _pairs_before(zero, n) \in Int
      /\ 2 * _pairs_before(zero, n) = zero * (2 * n - zero - 1)
  BY <1>0, PairsBefore
<1>9. _pairs_before(zero, n) = 0
  BY <1>0, <1>8
<1> QED
  BY <1>0, <1>2, <1>4, <1>7, <1>9 DEF k

(* Induction over a measure.                                               *)
LEMMA MeasureInduction ==
  ASSUME NEW D, NEW m, \A x \in D : m[x] \in Nat, NEW T,
         \A x \in D : (\A y \in D : m[y] < m[x] => y \in T) => x \in T
  PROVE  D \subseteq T
<1> DEFINE Bad == {m[x] : x \in D \ T}
<1> SUFFICES ASSUME D \ T # {} PROVE FALSE
  OBVIOUS
<1>1. Bad \in SUBSET Nat /\ Bad # {}
  OBVIOUS
<1>2. PICK least \in Bad : \A k \in Bad : least <= k
  BY <1>1, Least
<1>3. PICK x \in D \ T : least = m[x]
  BY <1>2
<1>4. \A y \in D : m[y] < m[x] => y \in T
  <2> SUFFICES ASSUME NEW y \in D, y \notin T, m[y] < m[x] PROVE FALSE
    OBVIOUS
  <2>1. m[y] \in Bad /\ m[y] \in Nat /\ m[x] \in Nat
    OBVIOUS
  <2>2. m[x] <= m[y]
    BY <1>2, <1>3, <2>1
  <2> QED
    BY <2>1, <2>2
<1> QED
  BY <1>3, <1>4

(* A loop whose measure falls has a solution as a recursive function.      *)
LoopEquation(g, D, done, val, next) ==
    g = [x \in D |-> IF done[x] THEN val[x] ELSE g[next[x]]]

LEMMA LoopSolution ==
  ASSUME NEW D, NEW m, NEW most \in Nat, \A x \in D : m[x] \in Nat /\ m[x] < most, NEW done, NEW val, NEW next,
         \A x \in D : ~done[x] => next[x] \in D /\ m[next[x]] < m[x]
  PROVE  \E g : LoopEquation(g, D, done, val, next)
<1> DEFINE Solves(g, x) == g[x] = IF done[x] THEN val[x] ELSE g[next[x]]
           N == {n \in Nat : \E g : \A x \in D : m[x] < n => Solves(g, x)}
<1>1. 0 \in N
  <2> DEFINE g == [x \in D |-> 0]
  <2>1. \A x \in D : m[x] < 0 => Solves(g, x)
    OBVIOUS
  <2> QED
    BY <2>1
<1>2. ASSUME NEW n \in Nat, n \in N PROVE n + 1 \in N
  <2>1. PICK g : \A x \in D : m[x] < n => Solves(g, x)
    BY <1>2
  <2> DEFINE h == [x \in D |-> IF m[x] < n THEN g[x] ELSE IF done[x] THEN val[x] ELSE g[next[x]]]
  <2>2. ASSUME NEW x \in D, m[x] < n + 1 PROVE Solves(h, x)
    <3>1. CASE done[x]
      BY <2>1, <3>1
    <3>2. CASE ~done[x]
      <4>1. next[x] \in D /\ m[next[x]] < n
        BY <2>2, <3>2
      <4>2. h[next[x]] = g[next[x]]
        BY <4>1
      <4>3. h[x] = g[next[x]]
        BY <2>1, <3>2
      <4> QED
        BY <3>2, <4>2, <4>3
    <3> QED
      BY <3>1, <3>2
  <2> HIDE DEF h
  <2>3. \E f : \A x \in D : m[x] < n + 1 => Solves(f, x)
    BY <2>2
  <2> QED
    BY <2>3
<1> HIDE DEF N
<1>3. most \in N
  BY <1>1, <1>2, NumberInduction
<1>4. PICK g : \A x \in D : m[x] < most => Solves(g, x)
  BY <1>3 DEF N
<1> DEFINE h == [x \in D |-> g[x]]
<1>5. h = [x \in D |-> IF done[x] THEN val[x] ELSE h[next[x]]]
  BY <1>4
<1> QED
  BY <1>5 DEF LoopEquation

(* The loop of _unrank_pair: spans of records that may hold the first of   *)
(* the pair, which get narrower.                                           *)
Spans(n) == (0..(n - 1)) \X (0..(n - 1))
Middle(span) == (span[1] + span[2] + 1) \div 2
Narrowed(n, pair, span) ==
    IF Fits(Middle(span), n, pair) THEN <<Middle(span), span[2]>> ELSE <<span[1], Middle(span) - 1>>
SearchEquation(g, n, pair) ==
    g = [span \in Spans(n) |-> IF span[1] >= span[2] THEN span[1] ELSE g[Narrowed(n, pair, span)]]

(* Each round narrows the span.                                            *)
LEMMA Narrows ==
  ASSUME NEW n \in Nat, NEW pair, NEW span \in Spans(n), ~(span[1] >= span[2])
  PROVE  /\ Narrowed(n, pair, span) \in Spans(n)
         /\ Narrowed(n, pair, span)[1] <= Narrowed(n, pair, span)[2]
         /\ Narrowed(n, pair, span)[2] - Narrowed(n, pair, span)[1] < span[2] - span[1]
         /\ span[1] < Middle(span) /\ Middle(span) <= span[2] /\ Middle(span) \in 0..(n - 1)
         /\ span[1] \in 0..(n - 1) /\ span[2] \in 0..(n - 1)
<1>1. span[1] \in 0..(n - 1) /\ span[2] \in 0..(n - 1) /\ span[1] < span[2]
  BY DEF Spans
<1>2. ASSUME NEW a \in 0..(n - 1), NEW b \in 0..(n - 1), a < b
      PROVE  a < (a + b + 1) \div 2 /\ (a + b + 1) \div 2 <= b /\ (a + b + 1) \div 2 \in Int
  BY <1>2
<1>3. /\ span[1] < Middle(span) /\ Middle(span) <= span[2] /\ Middle(span) \in Int
  BY <1>1, <1>2 DEF Middle
<1>4. Middle(span) \in 0..(n - 1) /\ Middle(span) - 1 \in 0..(n - 1)
  BY <1>1, <1>3
<1>5. CASE Fits(Middle(span), n, pair)
  <2>1. Narrowed(n, pair, span) = <<Middle(span), span[2]>>
    BY <1>5 DEF Narrowed
  <2> QED
    BY <1>1, <1>3, <1>4, <2>1 DEF Spans
<1>6. CASE ~Fits(Middle(span), n, pair)
  <2>1. Narrowed(n, pair, span) = <<span[1], Middle(span) - 1>>
    BY <1>6 DEF Narrowed
  <2> QED
    BY <1>1, <1>3, <1>4, <2>1 DEF Spans
<1> QED
  BY <1>5, <1>6

(* What falls with each round: the records left in the span.               *)
Width(n) == [span \in Spans(n) |-> IF span[1] <= span[2] THEN span[2] - span[1] ELSE 0]

(* The next span is one of records too, and has fewer of them.             *)
LEMMA WidthFalls ==
  ASSUME NEW n \in Nat
  PROVE  /\ \A span \in Spans(n) : Width(n)[span] \in Nat /\ Width(n)[span] < n + 1
         /\ \A span \in Spans(n) : \A pair : ~(span[1] >= span[2]) =>
               /\ Narrowed(n, pair, span) \in Spans(n)
               /\ Width(n)[Narrowed(n, pair, span)] < Width(n)[span]
<1>1. ASSUME NEW span \in Spans(n)
      PROVE  /\ span[1] \in 0..(n - 1) /\ span[2] \in 0..(n - 1)
             /\ Width(n)[span] = IF span[1] <= span[2] THEN span[2] - span[1] ELSE 0
  BY DEF Width, Spans
<1>2. ASSUME NEW span \in Spans(n) PROVE Width(n)[span] \in Nat /\ Width(n)[span] < n + 1
  BY <1>1
<1>3. ASSUME NEW span \in Spans(n), NEW pair, ~(span[1] >= span[2])
      PROVE  /\ Narrowed(n, pair, span) \in Spans(n)
             /\ Width(n)[Narrowed(n, pair, span)] < Width(n)[span]
  <2> DEFINE less == Narrowed(n, pair, span)
  <2>1. less \in Spans(n) /\ less[1] <= less[2] /\ less[2] - less[1] < span[2] - span[1]
    BY <1>3, Narrows
  <2> HIDE DEF less
  <2>2. Width(n)[less] = less[2] - less[1]
    BY <1>1, <2>1
  <2>3. Width(n)[span] = span[2] - span[1]
    BY <1>1, <1>3
  <2> QED
    BY <2>1, <2>2, <2>3 DEF less
<1> QED
  BY <1>2, <1>3

(* The search of _unrank_pair ends: there is a function that does it.      *)
LEMMA SearchExists ==
  ASSUME NEW n \in Nat, NEW pair
  PROVE  \E g : SearchEquation(g, n, pair)
<1> DEFINE D == Spans(n)
           done == [span \in D |-> span[1] >= span[2]]
           val == [span \in D |-> span[1]]
           next == [span \in D |-> Narrowed(n, pair, span)]
           m == Width(n)
           most == n + 1
<1>1. most \in Nat /\ \A x \in D : m[x] \in Nat /\ m[x] < most
  BY WidthFalls
<1>2. \A span \in D : ~(span[1] >= span[2]) =>
         Narrowed(n, pair, span) \in D /\ m[Narrowed(n, pair, span)] < m[span]
  BY WidthFalls
<1>3. \A span \in D : /\ done[span] <=> (span[1] >= span[2])
                      /\ val[span] = span[1] /\ next[span] = Narrowed(n, pair, span)
  OBVIOUS
<1> HIDE DEF D, done, val, next, m, most
<1>4. PICK g : LoopEquation(g, D, done, val, next)
  <2>1. \A x \in D : ~done[x] => next[x] \in D /\ m[next[x]] < m[x]
    BY <1>2, <1>3
  <2> QED
    BY <1>1, <2>1, LoopSolution
<1>5. g = [span \in D |-> IF done[span] THEN val[span] ELSE g[next[span]]]
  BY <1>4 DEF LoopEquation
<1>6. g = [span \in D |-> IF span[1] >= span[2] THEN span[1] ELSE g[Narrowed(n, pair, span)]]
  BY <1>3, <1>5
<1> QED
  BY <1>6 DEF SearchEquation, D

(* _unrank_pair searches with such a function, from the span of all        *)
(* records.                                                                *)
LEMMA SearchChosen ==
  ASSUME NEW n \in Nat, NEW pair
  PROVE  \E g : /\ SearchEquation(g, n, pair)
                /\ _unrank_pair(pair, n) =
                       <<g[<<0, n - 1>>],
                         g[<<0, n - 1>>] + 1 + pair - _pairs_before(g[<<0, n - 1>>], n)>>
<1> DEFINE g == CHOOSE g : SearchEquation(g, n, pair)
<1>1. SearchEquation(g, n, pair)
  BY SearchExists
<1>2. _unrank_pair(pair, n) =
         <<g[<<0, n - 1>>], g[<<0, n - 1>>] + 1 + pair - _pairs_before(g[<<0, n - 1>>], n)>>
  BY Zenon DEF _unrank_pair, SearchEquation, Spans, Narrowed, Middle
<1> QED
  BY <1>1, <1>2

(* The record whose row of pairs holds the number.                         *)
Holds(left, n, pair) == _pairs_before(left, n) <= pair /\ pair < _pairs_before(left + 1, n)

(* The search ends at it if it lies in the span.                           *)
LEMMA SearchFinds ==
  ASSUME NEW n \in Nat \ {0}, NEW pair \in Nat, pair < PairTotal(n), NEW g, SearchEquation(g, n, pair)
  PROVE  g[<<0, n - 1>>] \in 0..(n - 1) /\ Holds(g[<<0, n - 1>>], n, pair)
<1> DEFINE Inside(span) == /\ span[1] <= span[2] /\ _pairs_before(span[1], n) <= pair
                            /\ pair < _pairs_before(span[2] + 1, n)
           Found(l) == l \in 0..(n - 1) /\ Holds(l, n, pair)
           T == {span \in Spans(n) : Inside(span) => Found(g[span])}
           D == Spans(n)
           m == Width(n)
<1>1. ASSUME NEW span \in D PROVE g[span] = IF span[1] >= span[2] THEN span[1]
                                            ELSE g[Narrowed(n, pair, span)]
  BY DEF SearchEquation
<1>2. ASSUME NEW span \in D, \A y \in D : m[y] < m[span] => y \in T
      PROVE  span \in T
  <2> SUFFICES ASSUME Inside(span) PROVE Found(g[span])
    OBVIOUS
  <2>1. span[1] \in 0..(n - 1) /\ span[2] \in 0..(n - 1)
    BY DEF Spans
  <2>2. CASE span[1] >= span[2]
    <3>1. g[span] = span[1] /\ span[1] = span[2]
      BY <1>1, <2>1, <2>2
    <3> QED
      BY <2>1, <3>1 DEF Holds
  <2>3. CASE ~(span[1] >= span[2])
    <3> DEFINE less == Narrowed(n, pair, span)
               mid == Middle(span)
    <3>1. /\ less \in D /\ less[1] <= less[2] /\ m[less] < m[span]
          /\ mid \in 0..(n - 1)
      BY <2>3, Narrows, WidthFalls
    <3>2. less \in T
      BY <1>2, <3>1
    <3>3. g[span] = g[less]
      BY <1>1, <2>3
    <3>4. Inside(less)
      <4>1. CASE Fits(mid, n, pair)
        <5>1. less = <<mid, span[2]>>
          BY <4>1 DEF Narrowed
        <5> HIDE DEF less, mid
        <5>2. less[1] = mid /\ less[2] = span[2]
          BY <5>1
        <5> QED
          BY <3>1, <4>1, <5>2 DEF Fits
      <4>2. CASE ~Fits(mid, n, pair)
        <5>1. less = <<span[1], mid - 1>>
          BY <4>2 DEF Narrowed
        <5> HIDE DEF less, mid
        <5>2. less[1] = span[1] /\ less[2] = mid - 1
          BY <5>1
        <5>3. (mid - 1) + 1 = mid
          BY <3>1
        <5>4. mid \in Nat /\ n \in Nat
          BY <3>1
        <5>5. _pairs_before(mid, n) \in Int
          BY <5>4, PairsBefore
        <5>6. pair < _pairs_before(mid, n)
          BY <4>2, <5>5 DEF Fits
        <5> QED
          BY <3>1, <5>2, <5>3, <5>6
      <4> QED
        BY <4>1, <4>2
    <3> QED
      BY <3>2, <3>3, <3>4
  <2> QED
    BY <2>2, <2>3
<1>3. \A x \in D : m[x] \in Nat
  BY WidthFalls
<1> DEFINE whole == <<0, n - 1>>
<1>4. whole \in D
  BY DEF Spans
<1>5. Inside(whole)
  <2>1. n \in Nat /\ (n - 1) + 1 = n
    OBVIOUS
  <2>2. _pairs_before(n, n) \in Int /\ 2 * _pairs_before(n, n) = n * (2 * n - n - 1)
    BY <2>1, PairsBefore
  <2>3. n * (2 * n - n - 1) = n * (n - 1)
    OBVIOUS
  <2>4. PairTotal(n) \in Nat /\ 2 * PairTotal(n) = n * (n - 1) /\ _pairs_before(0, n) = 0
    BY PairTotalIs
  <2>5. _pairs_before(n, n) = PairTotal(n)
    BY <2>2, <2>3, <2>4
  <2>6. whole[1] = 0 /\ whole[2] = n - 1
    OBVIOUS
  <2> HIDE DEF whole
  <2> QED
    BY <2>1, <2>4, <2>5, <2>6
<1> HIDE DEF T, D, m, Inside, whole
<1>6. D \subseteq T
  BY <1>2, <1>3, MeasureInduction
<1>7. Found(g[whole])
  BY <1>4, <1>5, <1>6 DEF T
<1> QED
  BY <1>7 DEF whole

(* A number of a pair is taken apart into two records in order.            *)
LEMMA Unranked ==
  ASSUME NEW n \in Nat \ {0}, NEW pair \in Nat, pair < PairTotal(n)
  PROVE  \E left \in 0..(n - 2) :
            /\ Holds(left, n, pair) /\ _pairs_before(left, n) \in Int
            /\ _unrank_pair(pair, n) = <<left, left + 1 + pair - _pairs_before(left, n)>>
            /\ left + 1 + pair - _pairs_before(left, n) \in (left + 1)..(n - 1)
<1>1. PICK g : /\ SearchEquation(g, n, pair)
               /\ _unrank_pair(pair, n) =
                       <<g[<<0, n - 1>>],
                         g[<<0, n - 1>>] + 1 + pair - _pairs_before(g[<<0, n - 1>>], n)>>
  BY SearchChosen
<1> DEFINE left == g[<<0, n - 1>>]
<1>2. left \in 0..(n - 1) /\ Holds(left, n, pair)
  BY <1>1, SearchFinds
<1>3. _unrank_pair(pair, n) = <<left, left + 1 + pair - _pairs_before(left, n)>>
  BY <1>1
<1> HIDE DEF left
<1>4. left \in Nat /\ n \in Nat
  BY <1>2
<1>5. _pairs_before(left, n) \in Int
  BY <1>4, PairsBefore
<1>6. _pairs_before(left + 1, n) = _pairs_before(left, n) + (n - left - 1)
  BY <1>2, <1>4, PairsAfter
<1>7. left # n - 1
  BY <1>2, <1>5, PairTotalIs DEF Holds
<1>8. left \in 0..(n - 2)
  BY <1>2, <1>7
<1>9. left + 1 + pair - _pairs_before(left, n) \in (left + 1)..(n - 1)
  BY <1>2, <1>4, <1>5, <1>6 DEF Holds
<1> QED
  BY <1>2, <1>3, <1>5, <1>8, <1>9

(* Pairs come in the order of their numbers.                               *)
LEMMA UnrankedInOrder ==
  ASSUME NEW n \in Nat \ {0}, NEW p \in Nat, NEW q \in Nat, p < q, q < PairTotal(n)
  PROVE  Precedes(_unrank_pair(p, n), _unrank_pair(q, n))
<1>1. PairTotal(n) \in Nat /\ p < PairTotal(n)
  BY PairTotalIs
<1>2. PICK a \in 0..(n - 2) :
         /\ Holds(a, n, p) /\ _pairs_before(a, n) \in Int
         /\ _unrank_pair(p, n) = <<a, a + 1 + p - _pairs_before(a, n)>>
  BY <1>1, Unranked
<1>3. PICK b \in 0..(n - 2) :
         /\ Holds(b, n, q) /\ _pairs_before(b, n) \in Int
         /\ _unrank_pair(q, n) = <<b, b + 1 + q - _pairs_before(b, n)>>
  BY <1>1, Unranked
<1>4. a <= b
  <2> SUFFICES ASSUME b < a PROVE FALSE
    OBVIOUS
  <2> DEFINE next == b + 1
  <2>1. next \in 0..(n - 1) /\ next <= a /\ a \in 0..(n - 1) /\ next \in Nat /\ n \in Nat
    OBVIOUS
  <2>2. _pairs_before(next, n) <= _pairs_before(a, n) /\ _pairs_before(next, n) \in Int
    BY <2>1, PairsBeforeGrows, PairsBefore
  <2> QED
    BY <1>2, <1>3, <2>2 DEF Holds
<1>5. CASE a = b
  BY <1>2, <1>3, <1>5 DEF Precedes
<1>6. CASE a < b
  BY <1>2, <1>3, <1>6 DEF Precedes
<1> QED
  BY <1>4, <1>5, <1>6

(* Every pair has a number.                                                *)
LEMMA EveryPairNumbered ==
  ASSUME NEW n \in Nat \ {0}, NEW x \in PairsOf(n)
  PROVE  \E p \in 0..(PairTotal(n) - 1) : _unrank_pair(p, n) = x
<1> DEFINE a == x[1]
           b == x[2]
           p == _pairs_before(a, n) + (b - a - 1)
<1>1. x = <<a, b>> /\ a \in 0..(n - 1) /\ b \in 0..(n - 1) /\ a < b
  BY DEF PairsOf
<1> HIDE DEF a, b
<1>2. a \in Nat /\ n \in Nat /\ a \in 0..(n - 2)
  BY <1>1
<1>3. _pairs_before(a, n) \in Int
  BY <1>2, PairsBefore
<1>4. _pairs_before(a + 1, n) = _pairs_before(a, n) + (n - a - 1)
  BY <1>1, <1>2, PairsAfter
<1>5. PairTotal(n) \in Nat /\ PairTotal(n) = _pairs_before(n - 1, n) /\ _pairs_before(0, n) = 0
  BY PairTotalIs
<1> DEFINE next == a + 1
           zero == n - n
           last == n - 1
<1>6. next \in 0..(n - 1) /\ zero \in 0..(n - 1) /\ last \in 0..(n - 1) /\ zero <= a /\ next <= last
      /\ zero = 0
  BY <1>1, <1>2
<1>7. _pairs_before(zero, n) <= _pairs_before(a, n) /\ _pairs_before(next, n) <= _pairs_before(last, n)
  BY <1>1, <1>6, PairsBeforeGrows
<1>8. p \in Nat /\ p < PairTotal(n) /\ p < _pairs_before(next, n) /\ _pairs_before(a, n) <= p
  BY <1>1, <1>2, <1>3, <1>4, <1>5, <1>6, <1>7
<1> HIDE DEF p, zero, last
<1>9. PICK left \in 0..(n - 2) :
         /\ Holds(left, n, p) /\ _pairs_before(left, n) \in Int
         /\ _unrank_pair(p, n) = <<left, left + 1 + p - _pairs_before(left, n)>>
  BY <1>8, Unranked
<1> DEFINE after == left + 1
<1>10. after \in 0..(n - 1) /\ left \in 0..(n - 1) /\ after \in Nat /\ next \in Nat /\ left \in Int
  BY <1>6
<1>11. _pairs_before(after, n) \in Int /\ _pairs_before(next, n) \in Int
  BY <1>2, <1>10, PairsBefore
<1>12. ~(after <= a)
  <2> SUFFICES ASSUME after <= a PROVE FALSE
    OBVIOUS
  <2>1. _pairs_before(after, n) <= _pairs_before(a, n)
    BY <1>1, <1>10, PairsBeforeGrows
  <2> QED
    BY <1>3, <1>8, <1>9, <1>11, <2>1 DEF Holds
<1>13. ~(next <= left)
  <2> SUFFICES ASSUME next <= left PROVE FALSE
    OBVIOUS
  <2>1. _pairs_before(next, n) <= _pairs_before(left, n)
    BY <1>6, <1>10, PairsBeforeGrows
  <2> QED
    BY <1>8, <1>9, <1>11, <2>1 DEF Holds
<1>14. left = a
  BY <1>2, <1>12, <1>13
<1>15. left + 1 + p - _pairs_before(left, n) = b
  BY <1>1, <1>2, <1>3, <1>14 DEF p
<1>16. p \in 0..(PairTotal(n) - 1)
  BY <1>5, <1>8
<1> QED
  BY <1>1, <1>9, <1>14, <1>15, <1>16

(* n records have n * (n - 1) / 2 pairs.                                   *)
LEMMA NumberOfPairs ==
  ASSUME NEW n \in Nat \ {0}
  PROVE  Cardinality(PairsOf(n)) = PairTotal(n)
<1> DEFINE I == 0..(PairTotal(n) - 1)
           f == [p \in I |-> _unrank_pair(p, n)]
<1>1. PairTotal(n) \in Nat
  BY PairTotalIs
<1>2. IsFiniteSet(I) /\ Cardinality(I) = PairTotal(n)
  <2>1. PairTotal(n) - 1 \in Int /\ 0 \in Int
    BY <1>1
  <2> QED
    BY <1>1, <2>1, FS_Interval
<1>3. f \in [I -> PairsOf(n)]
  <2> SUFFICES ASSUME NEW p \in I PROVE _unrank_pair(p, n) \in PairsOf(n)
    OBVIOUS
  <2>1. p \in Nat /\ p < PairTotal(n)
    BY <1>1
  <2>2. PICK left \in 0..(n - 2) :
           /\ _unrank_pair(p, n) = <<left, left + 1 + p - _pairs_before(left, n)>>
           /\ left + 1 + p - _pairs_before(left, n) \in (left + 1)..(n - 1)
    BY <2>1, Unranked
  <2> QED
    BY <2>2 DEF PairsOf
<1>4. \A p, q \in I : f[p] = f[q] => p = q
  <2>1. ASSUME NEW p \in I, NEW q \in I, p < q PROVE f[p] # f[q]
    <3>1. p \in Nat /\ q \in Nat /\ q < PairTotal(n)
      BY <1>1
    <3>2. Precedes(f[p], f[q])
      BY <2>1, <3>1, UnrankedInOrder
    <3>3. \A x \in PairsOf(n) : ~Precedes(x, x)
      BY DEF Precedes, PairsOf
    <3> QED
      BY <1>3, <3>2, <3>3
  <2>2. \A p, q \in I : p = q \/ p < q \/ q < p
    BY <1>1
  <2> QED
    BY <2>1, <2>2
<1>5. \A x \in PairsOf(n) : \E p \in I : f[p] = x
  BY EveryPairNumbered
<1> HIDE DEF f, I
<1>6. ExistsBijection(I, PairsOf(n))
  BY <1>3, <1>4, <1>5, Fun_IsBij DEF ExistsBijection
<1> QED
  BY <1>2, <1>6, FS_Bijection

(* The numbers of a sample are numbers of pairs, each greater than the one *)
(* before it, and all of them when they fit.                               *)
LEMMA SampleNumbers ==
  ASSUME NEW n \in Nat \ {0}, NEW most \in Nat \ {0}, NEW sample,
         sample = _sampled_pair_indices(n, most)
  PROVE  /\ MinOf(most, PairTotal(n)) \in Nat
         /\ DOMAIN sample = 1..MinOf(most, PairTotal(n)) /\ Len(sample) = MinOf(most, PairTotal(n))
         /\ \A k \in DOMAIN sample : sample[k] \in 0..(PairTotal(n) - 1)
         /\ \A k \in DOMAIN sample : k > 1 => k - 1 \in DOMAIN sample /\ sample[k - 1] < sample[k]
<1> DEFINE total == PairTotal(n)
<1>1. total \in Nat
  BY PairTotalIs
<1>2. sample = IF total <= most THEN [i \in 1..total |-> i - 1]
               ELSE [slot \in 1..most |-> ((2 * slot - 1) * total) \div (2 * most)]
  BY DEF _sampled_pair_indices, PairTotal
<1> HIDE DEF total
<1>3. CASE total <= most
  <2>1. MinOf(most, total) = total
    BY <1>1, <1>3 DEF MinOf
  <2>2. sample = [i \in 1..total |-> i - 1]
    BY <1>2, <1>3
  <2>3. sample \in Seq(Int) /\ Len(sample) = total
    BY <1>1, <2>2
  <2> QED
    BY <1>1, <2>1, <2>2, <2>3 DEF total
<1>4. CASE ~(total <= most)
  <2>1. MinOf(most, total) = most
    BY <1>1, <1>4 DEF MinOf
  <2>2. sample = [slot \in 1..most |-> ((2 * slot - 1) * total) \div (2 * most)]
    BY <1>2, <1>4
  <2> DEFINE d == 2 * most
  <2>3. ASSUME NEW k \in 1..most
        PROVE  sample[k] \in Int /\ 0 <= sample[k] /\ sample[k] < total
               /\ sample[k] * d <= (2 * k - 1) * total /\ (2 * k - 1) * total < sample[k] * d + d
    <3> DEFINE x == (2 * k - 1) * total
    <3>1. x \in Nat /\ d \in Nat \ {0}
      BY <1>1
    <3>2. x < d * total
      <4>1. (2 * k - 1) * total < d * total
        <5>1. \A a, b \in Nat : a < b => a * total < b * total
          BY <1>1, <1>4
        <5>2. 2 * k - 1 \in Nat /\ d \in Nat /\ 2 * k - 1 < d
          OBVIOUS
        <5> QED
          BY <5>1, <5>2
      <4> QED
        BY <4>1
    <3>3. sample[k] = x \div d
      BY <2>2
    <3> HIDE DEF x, d
    <3>4. x \div d \in Nat /\ (x \div d) * d <= x /\ x < (x \div d) * d + d
      BY <3>1
    <3>5. x \div d < total
      <4> SUFFICES ASSUME total <= x \div d PROVE FALSE
        BY <1>1, <3>4
      <4>1. \A a, b \in Nat : a <= b => d * a <= b * d
        BY <3>1
      <4>2. d * total <= (x \div d) * d
        BY <1>1, <3>4, <4>1
      <4>3. d * total \in Nat /\ (x \div d) * d \in Nat
        BY <1>1, <3>1, <3>4
      <4> QED
        BY <3>1, <3>2, <3>4, <4>2, <4>3
    <3> QED
      BY <3>3, <3>4, <3>5 DEF x
  <2>4. ASSUME NEW k \in 1..most, k > 1 PROVE k - 1 \in 1..most /\ sample[k - 1] < sample[k]
    <3> DEFINE j == k - 1
    <3>1. j \in 1..most /\ k = j + 1
      BY <2>4
    <3> HIDE DEF j, d
    <3>2. /\ sample[j] \in Int /\ sample[k] \in Int
          /\ sample[j] * d <= (2 * j - 1) * total /\ (2 * k - 1) * total < sample[k] * d + d
      BY <2>3, <3>1
    <3>3. (2 * k - 1) * total = (2 * j - 1) * total + 2 * total
      BY <1>1, <3>1
    <3>4. d \in Nat \ {0} /\ 2 * total > d
      BY <1>1, <1>4 DEF d
    <3>5. (2 * j - 1) * total \in Int /\ sample[j] * d \in Int /\ sample[k] * d \in Int
      BY <1>1, <3>1, <3>2, <3>4
    <3>6. sample[j] * d < sample[k] * d
      BY <1>1, <3>2, <3>3, <3>4, <3>5
    <3>7. \A a, b \in Int : b <= a => b * d <= a * d
      BY <3>4
    <3>8. sample[j] < sample[k]
      BY <3>2, <3>5, <3>6, <3>7
    <3> QED
      BY <3>1, <3>8 DEF j
  <2>5. sample \in Seq(Int) /\ Len(sample) = most
    BY <2>2, <2>3
  <2>6. DOMAIN sample = 1..most
    BY <2>2
  <2>7. \A k \in 1..most : sample[k] \in 0..(total - 1)
    BY <1>1, <2>3
  <2> QED
    BY <2>1, <2>4, <2>5, <2>6, <2>7 DEF total
<1> QED
  BY <1>3, <1>4

(* A sample draws different pairs of different records in order, as many   *)
(* as asked for or all there are.                                          *)
THEOREM PairsAreDrawn ==
  ASSUME NEW n \in Nat \ {0}, NEW most \in Nat \ {0}
  PROVE  DrawsPairs(n, most)
<1> DEFINE sample == _sampled_pair_indices(n, most)
           pair == [k \in DOMAIN sample |-> _unrank_pair(sample[k], n)]
<1>1. /\ Len(sample) = MinOf(most, PairTotal(n))
      /\ \A k \in DOMAIN sample : sample[k] \in 0..(PairTotal(n) - 1)
      /\ \A k \in DOMAIN sample : k > 1 => k - 1 \in DOMAIN sample /\ sample[k - 1] < sample[k]
  BY SampleNumbers
<1> HIDE DEF sample
<1>2. PairTotal(n) \in Nat
  BY PairTotalIs
<1>3. ASSUME NEW k \in DOMAIN sample PROVE pair[k] \in PairsOf(n)
  <2>1. sample[k] \in Nat /\ sample[k] < PairTotal(n)
    BY <1>1, <1>2
  <2>2. PICK left \in 0..(n - 2) :
           /\ _unrank_pair(sample[k], n) = <<left, left + 1 + sample[k] - _pairs_before(left, n)>>
           /\ left + 1 + sample[k] - _pairs_before(left, n) \in (left + 1)..(n - 1)
    BY <2>1, Unranked
  <2> QED
    BY <2>2 DEF PairsOf
<1>4. ASSUME NEW k \in DOMAIN sample, k > 1 PROVE Precedes(pair[k - 1], pair[k])
  <2> DEFINE j == k - 1
  <2>1. /\ j \in DOMAIN sample /\ sample[j] \in Nat /\ sample[k] \in Nat
        /\ sample[j] < sample[k] /\ sample[k] < PairTotal(n)
    BY <1>1, <1>2, <1>4
  <2>2. Precedes(_unrank_pair(sample[j], n), _unrank_pair(sample[k], n))
    BY <2>1, UnrankedInOrder
  <2> QED
    BY <2>1, <2>2
<1>5. Range(pair) \subseteq PairsOf(n)
  BY <1>3 DEF Range
<1>6. Cardinality(PairsOf(n)) = PairTotal(n)
  BY NumberOfPairs
<1> QED
  BY <1>1, <1>4, <1>5, <1>6 DEF DrawsPairs, sample

(* The nearest unit is within half a unit.                                 *)
LEMMA NearestClose ==
  ASSUME NEW num \in Nat, NEW den \in Nat, den > 0
  PROVE  /\ Nearest(num, den) \in Nat /\ quantize(num, den) = Nearest(num, den)
         /\ 2 * (den * Nearest(num, den)) <= 2 * (Scale * num) + den
         /\ 2 * (Scale * num) <= 2 * (den * Nearest(num, den)) + den
<1> DEFINE whole == Scale * num
           low == whole \div den
           rest == whole % den
<1>1. whole \in Nat
  BY MetricsAssumption
<1>2. Nearest(num, den) = IF 2 * rest > den \/ (2 * rest = den /\ low % 2 = 1)
                          THEN low + 1 ELSE low
  BY DEF Nearest
<1>3. quantize(num, den) = Nearest(num, den)
  BY DEF quantize
<1> HIDE DEF whole
<1>4. low \in Nat /\ rest \in Nat /\ rest < den /\ whole = den * low + rest
  BY <1>1
<1> HIDE DEF low, rest
<1>5. CASE 2 * rest > den \/ (2 * rest = den /\ low % 2 = 1)
  <2>1. Nearest(num, den) = low + 1 /\ 2 * rest >= den
    BY <1>2, <1>4, <1>5
  <2>2. den * (low + 1) = den * low + den /\ den * low \in Nat
    BY <1>4
  <2> QED
    BY <1>3, <1>4, <2>1, <2>2 DEF whole
<1>6. CASE ~(2 * rest > den \/ (2 * rest = den /\ low % 2 = 1))
  <2>1. Nearest(num, den) = low /\ 2 * rest <= den
    BY <1>2, <1>4, <1>6
  <2>2. den * low \in Nat
    BY <1>4
  <2> QED
    BY <1>3, <1>4, <2>1, <2>2 DEF whole
<1> QED
  BY <1>5, <1>6

(* Nothing rounds to nothing, the whole to Scale.                          *)
LEMMA QuantizeWhole ==
  ASSUME NEW den \in Nat, den > 0
  PROVE  quantize(0, den) = 0 /\ quantize(den, den) = Scale
<1>1. Scale \in Nat /\ Scale * 0 = 0 /\ Scale * den \in Nat
  BY MetricsAssumption
<1>2. 0 \div den = 0 /\ 0 % den = 0
  OBVIOUS
<1>3. (Scale * den) \div den = Scale /\ (Scale * den) % den = 0
  <2>1. \A a \in Nat : (a * den) \div den = a /\ (a * den) % den = 0
    <3> SUFFICES ASSUME NEW a \in Nat PROVE (a * den) \div den = a /\ (a * den) % den = 0
      OBVIOUS
    <3> DEFINE x == a * den
               q == x \div den
               r == x % den
    <3>1. x \in Nat
      OBVIOUS
    <3>2. q \in Nat /\ r \in Nat /\ r < den /\ x = den * q + r
      <4> HIDE DEF x
      <4> QED
        BY <3>1
    <3> HIDE DEF q, r
    <3>3. \A c, d \in Nat : c >= d + 1 => den * c >= den * d + den
      OBVIOUS
    <3>4. den * q \in Nat /\ den * a \in Nat /\ x = den * a
      BY <3>2
    <3>5. ~(q >= a + 1) /\ ~(a >= q + 1)
      BY <3>2, <3>3, <3>4
    <3>6. q = a
      BY <3>2, <3>5
    <3> QED
      BY <3>2, <3>4, <3>6 DEF q, r
  <2> QED
    BY <1>1, <2>1
<1>4. Nearest(0, den) = 0
  BY <1>1, <1>2 DEF Nearest
<1>5. Nearest(den, den) = Scale
  BY <1>1, <1>3 DEF Nearest
<1> QED
  BY <1>4, <1>5 DEF quantize

(* Rounding keeps the order of quotients of one whole.                     *)
LEMMA QuantizeGrows ==
  ASSUME NEW a \in Nat, NEW b \in Nat, a <= b, NEW den \in Nat, den > 0
  PROVE  quantize(a, den) <= quantize(b, den)
<1> DEFINE x == Scale * a
           y == Scale * b
           Rounded(z) == IF 2 * (z % den) > den \/ (2 * (z % den) = den /\ (z \div den) % 2 = 1)
                         THEN (z \div den) + 1 ELSE z \div den
<1>1. x \in Nat /\ y \in Nat /\ x <= y
  <2>1. \A c \in Nat : c * a \in Nat /\ c * b \in Nat /\ c * a <= c * b
    OBVIOUS
  <2> QED
    BY <2>1, MetricsAssumption
<1>2. quantize(a, den) = Rounded(x) /\ quantize(b, den) = Rounded(y)
  BY DEF quantize, Nearest
<1> HIDE DEF x, y
<1> DEFINE p == x \div den
           q == y \div den
           r == x % den
           s == y % den
<1>3. p \in Nat /\ r \in Nat /\ r < den /\ x = den * p + r
  BY <1>1
<1>4. q \in Nat /\ s \in Nat /\ s < den /\ y = den * q + s
  BY <1>1
<1>5. /\ Rounded(x) = IF 2 * r > den \/ (2 * r = den /\ p % 2 = 1) THEN p + 1 ELSE p
      /\ Rounded(y) = IF 2 * s > den \/ (2 * s = den /\ q % 2 = 1) THEN q + 1 ELSE q
  OBVIOUS
<1> HIDE DEF p, q, r, s, Rounded
<1>6. p <= q
  <2>1. \A c, d \in Nat : c >= d + 1 => den * c >= den * d + den
    OBVIOUS
  <2>2. den * p \in Nat /\ den * q \in Nat
    BY <1>3, <1>4
  <2> QED
    BY <1>1, <1>3, <1>4, <2>1, <2>2
<1>7. CASE p = q
  <2>1. r <= s
    <3>1. den * p \in Nat
      BY <1>3, <1>4
    <3> QED
      BY <1>1, <1>3, <1>4, <1>7, <3>1
  <2> QED
    BY <1>2, <1>3, <1>4, <1>5, <1>7, <2>1
<1>8. CASE p < q
  BY <1>2, <1>3, <1>4, <1>5, <1>8
<1> QED
  BY <1>3, <1>4, <1>6, <1>7, <1>8

(* A quotient by a hundred times the whole.                                *)
LEMMA QuantizeHundredth ==
  ASSUME NEW a \in Nat, NEW b \in Nat, a <= b, NEW n \in Nat \ {0}
  PROVE  TopScore * quantize(a, TopScore * n) <= quantize(b, n) + TopScore
<1> DEFINE d == 100 * n
           p == Nearest(a, d)
           q == Nearest(b, n)
           x == Scale * a
           y == Scale * b
<1>1. d \in Nat /\ d > 0 /\ n \in Nat /\ n > 0
  OBVIOUS
<1> HIDE DEF d
<1>2. p \in Nat /\ quantize(a, d) = p /\ 2 * (d * p) <= 2 * x + d
  BY <1>1, NearestClose
<1>3. q \in Nat /\ quantize(b, n) = q /\ 2 * y <= 2 * (n * q) + n
  BY <1>1, NearestClose
<1>4. x \in Nat /\ y \in Nat /\ x <= y
  <2>1. \A c \in Nat : c * a \in Nat /\ c * b \in Nat /\ c * a <= c * b
    OBVIOUS
  <2> QED
    BY <2>1, MetricsAssumption
<1> HIDE DEF p, q, x, y
<1>5. d * p = 100 * (n * p) /\ n * p \in Nat /\ n * q \in Nat
  BY <1>1, <1>2, <1>3 DEF d
<1>6. 200 * (n * p) <= 2 * (n * q) + 101 * n
  BY <1>1, <1>2, <1>3, <1>4, <1>5 DEF d
<1>7. 200 * (n * p) = n * (200 * p) /\ 2 * (n * q) + 101 * n = n * (2 * q + 101)
  BY <1>1, <1>2, <1>3
<1>8. \A c, e \in Nat : c > e => n * c > n * e
  BY <1>1
<1>9. 200 * p <= 2 * q + 101
  <2>1. 200 * p \in Nat /\ 2 * q + 101 \in Nat
    BY <1>2, <1>3
  <2> DEFINE c == 200 * p
             e == 2 * q + 101
  <2>2. n * c <= n * e /\ c \in Nat /\ e \in Nat /\ n * c \in Nat /\ n * e \in Nat
    BY <1>1, <1>6, <1>7, <2>1
  <2> HIDE DEF c, e
  <2>3. c <= e
    BY <1>8, <2>2
  <2> QED
    BY <2>3 DEF c, e
<1>10. 100 * p <= q + 100
  BY <1>2, <1>3, <1>9
<1> QED
  BY <1>2, <1>3, <1>10 DEF d, TopScore

(* A sum of zeros.                                                         *)
LEMMA SumZero ==
  ASSUME NEW S, IsFiniteSet(S), NEW f, \A i \in S : f[i] = 0
  PROVE  Summed(f, S) = 0
<1>1. PICK zero \in Int : zero = 0
  OBVIOUS
<1>2. Summed(f, S) = zero * Cardinality(S)
  BY <1>1, SumConstant
<1>3. Cardinality(S) \in Nat
  BY FS_CardinalityType
<1> QED
  BY <1>1, <1>2, <1>3

(* Errors of scores that are the labels.                                   *)
LEMMA NoErrors ==
  ASSUME NEW n \in Nat \ {0}, NEW labels \in ScoreSeq(n), NEW bins \in Nat \ {0}
  PROVE  mae(labels, labels) = 0 /\ calibration_error(labels, labels, bins) = 0
<1> DEFINE f == Distances(labels, labels)
<1>1. DOMAIN f = 1..n /\ Len(labels) = n /\ IsFiniteSet(1..n) /\ \A i \in 1..n : f[i] = 0
  BY ScoreSeqFacts DEF Distances, Magnitude
<1>2. Total(f) = 0
  <2> HIDE DEF f
  <2>1. Total(f) = Summed(f, 1..n)
    BY <1>1, TotalIsSummed
  <2> QED
    BY <1>1, <2>1, SumZero
<1>3. mae(labels, labels) = quantize(0, n)
  BY <1>1, <1>2 DEF mae, Distances
<1>4. calibration_error(labels, labels, bins) = quantize(Binned(labels, labels, bins), TopScore * n)
  BY <1>1 DEF calibration_error, Binned
<1> HIDE DEF f
<1>5. Binned(labels, labels, bins) \in Nat /\ Binned(labels, labels, bins) <= Total(f)
  BY BinnedBetween DEF f
<1>6. Binned(labels, labels, bins) = 0
  BY <1>2, <1>5
<1> DEFINE d == TopScore * n
<1>7. n \in Nat /\ n > 0 /\ d \in Nat /\ d > 0
  BY DEF TopScore
<1> HIDE DEF d
<1>8. quantize(0, n) = 0 /\ quantize(0, d) = 0
  BY <1>7, QuantizeWhole
<1> QED
  BY <1>3, <1>4, <1>6, <1>8 DEF d

(* Labels found by themselves.                                             *)
LEMMA AllFound ==
  ASSUME NEW n \in Nat \ {0}, NEW labels \in ScoreSeq(n), NEW threshold
  PROVE  f1(labels, labels, threshold) =
             IF \E i \in DOMAIN labels : labels[i] >= threshold THEN Scale ELSE 0
<1> DEFINE actual == {i \in DOMAIN labels : labels[i] >= threshold}
           hits == Cardinality(actual)
<1>1. IsFiniteSet(actual)
  BY ScoreSeqFacts, FS_Subset
<1>2. (\E i \in DOMAIN labels : labels[i] >= threshold) <=> actual # {}
  OBVIOUS
<1>3. f1(labels, labels, threshold) =
         IF Cardinality(actual \cap actual) + (Cardinality(actual \cup actual) - Cardinality(actual \cap actual)) = 0
         THEN 0 ELSE quantize(2 * Cardinality(actual \cap actual),
                              2 * Cardinality(actual \cap actual)
                              + (Cardinality(actual \cup actual) - Cardinality(actual \cap actual)))
  BY DEF f1
<1>4. actual \cap actual = actual /\ actual \cup actual = actual
  OBVIOUS
<1>5. hits \in Nat /\ (hits = 0 <=> actual = {})
  BY <1>1, FS_CardinalityType, FS_EmptySet
<1>6. f1(labels, labels, threshold) =
         IF hits + (hits - hits) = 0 THEN 0 ELSE quantize(2 * hits, 2 * hits + (hits - hits))
  BY <1>3, <1>4
<1> HIDE DEF actual, hits
<1>7. f1(labels, labels, threshold) = IF hits = 0 THEN 0 ELSE quantize(2 * hits, 2 * hits)
  BY <1>5, <1>6
<1> DEFINE twice == 2 * hits
<1>8. hits # 0 => twice \in Nat /\ twice > 0
  BY <1>5
<1> HIDE DEF twice
<1>9. hits # 0 => quantize(twice, twice) = Scale
  BY <1>8, QuantizeWhole
<1> QED
  BY <1>2, <1>5, <1>7, <1>9 DEF twice, actual

(* The discounted gain is a natural number.                                *)
LEMMA GainIsNumber ==
  ASSUME NEW n \in Nat \ {0}, NEW labels \in ScoreSeq(n), NEW order \in [1..n -> 1..n],
         NEW k \in Nat, 1..k \subseteq DOMAIN Discount
  PROVE  _dcg(labels, order, k) \in Nat
<1> DEFINE kk == MinOf(k, n)
           f == [r \in 1..kk |-> labels[order[r]] * Discount[r]]
           none == [r \in 1..kk |-> 0]
<1>1. kk \in Nat /\ kk <= n /\ kk <= k /\ Len(labels) = n
  BY ScoreSeqFacts DEF MinOf
<1>2. _dcg(labels, order, k) = Total(f)
  BY <1>1 DEF _dcg
<1>3. \A r \in 1..kk : f[r] \in Nat
  <2>1. \A r \in 1..kk : order[r] \in 1..n
    BY <1>1
  <2>2. \A x \in 1..n : labels[x] \in Nat
    BY ScoreSeqFacts
  <2>3. \A r \in 1..kk : Discount[r] \in Nat
    BY <1>1, MetricsAssumption
  <2>4. \A a, b \in Nat : a * b \in Nat
    OBVIOUS
  <2> QED
    BY <2>1, <2>2, <2>3, <2>4
<1>4. DOMAIN f = 1..kk /\ \A r \in 1..kk : none[r] \in Int /\ none[r] = 0
  OBVIOUS
<1> HIDE DEF kk, f, none
<1>5. IsFiniteSet(1..kk)
  <2>1. \A j \in Nat : IsFiniteSet(1..j)
    BY FS_Interval
  <2> QED
    BY <1>1, <2>1
<1>6. Total(f) = Summed(f, 1..kk) /\ Summed(f, 1..kk) \in Int
  <2>1. Total(f) = Summed(f, 1..kk)
    BY <1>4, TotalIsSummed
  <2>2. \A r \in 1..kk : f[r] \in Int
    BY <1>3
  <2> QED
    BY <1>5, <2>1, <2>2, SumRemove
<1>7. Summed(none, 1..kk) = 0
  BY <1>4, <1>5, SumZero
<1>8. Summed(none, 1..kk) <= Summed(f, 1..kk)
  <2>1. \A r \in 1..kk : none[r] \in Int /\ f[r] \in Int /\ none[r] <= f[r]
    BY <1>3, <1>4
  <2> QED
    BY <1>5, <2>1, SumAtMost
<1> QED
  BY <1>2, <1>6, <1>7, <1>8

(* The labels rank best.                                                   *)
LEMMA LabelsRankFirst ==
  ASSUME NEW n \in Nat \ {0}, NEW labels \in ScoreSeq(n), NEW scores \in ScoreSeq(n),
         NEW k \in Nat, 1..k \subseteq DOMAIN Discount
  PROVE  LabelsRankBest(labels, scores, k)
<1> DEFINE ideal == _dcg(labels, Ranked(labels), k)
<1>1. ideal \in Nat
  BY RankedInOrder, GainIsNumber
<1>2. /\ ndcg(labels, labels, k) = IF ideal = 0 THEN 0 ELSE quantize(ideal, ideal)
      /\ ndcg(labels, scores, k) = IF ideal = 0 THEN 0
                                   ELSE quantize(_dcg(labels, Ranked(scores), k), ideal)
  BY DEF ndcg
<1> HIDE DEF ideal
<1>3. ideal # 0 => quantize(ideal, ideal) = Scale
  BY <1>1, QuantizeWhole
<1>4. ndcg(labels, scores, k) \in 0..Scale
  BY NdcgRange
<1>5. Scale \in Nat
  BY MetricsAssumption
<1> QED
  BY <1>2, <1>3, <1>4, <1>5 DEF LabelsRankBest

(* The binned error lies between the error of the means and the mean error *)
LEMMA BinsAreFair ==
  ASSUME NEW n \in Nat \ {0}, NEW labels \in ScoreSeq(n), NEW scores \in ScoreSeq(n),
         NEW bins \in Nat \ {0}
  PROVE  BinnedFairly(labels, scores, bins)
<1> DEFINE gap == Magnitude(Total(scores) - Total(labels))
           binned == Binned(labels, scores, bins)
           sum == Total(Distances(labels, scores))
           d == TopScore * n
<1>1. /\ binned \in Nat /\ sum \in Nat /\ Total(scores) \in Int /\ Total(labels) \in Int
      /\ gap <= binned /\ binned <= sum
  BY BinnedBetween
<1>2. gap \in Nat
  BY <1>1 DEF Magnitude
<1>3. Len(labels) = n
  BY ScoreSeqFacts
<1>4. mae(labels, scores) = quantize(sum, n)
  BY <1>3 DEF mae, Distances
<1>5. calibration_error(labels, scores, bins) = quantize(binned, d)
  BY <1>3 DEF calibration_error, Binned
<1> HIDE DEF gap, binned, sum
<1>6. TopScore * quantize(binned, d) <= quantize(sum, n) + TopScore
  BY <1>1, QuantizeHundredth
<1>7. d \in Nat /\ d > 0
  BY DEF TopScore
<1> HIDE DEF d
<1>8. quantize(gap, d) <= quantize(binned, d)
  BY <1>1, <1>2, <1>7, QuantizeGrows
<1>9. quantize(gap, d) \in Int /\ quantize(binned, d) \in Int
  BY <1>1, <1>2, <1>7, NearestClose
<1>10. calibration_error(labels, scores, bins) >= quantize(gap, d)
  BY <1>5, <1>8, <1>9
<1>11. TopScore * calibration_error(labels, scores, bins) <= mae(labels, scores) + TopScore
  BY <1>4, <1>5, <1>6
<1>12. calibration_error(labels, scores, bins) >=
           quantize(Magnitude(Total(scores) - Total(labels)), TopScore * Len(labels))
  BY <1>3, <1>10 DEF gap, d
<1> QED
  BY <1>11, <1>12 DEF BinnedFairly

(* Numbers of records below a value and with it, in one rank.              *)
Less(values, i) == {j \in DOMAIN values : values[j] < values[i]}
Same(values, i) == {j \in DOMAIN values : values[j] = values[i]}

(* A greater value has a greater rank, equal values have equal ranks.      *)
LEMMA RanksFollow ==
  ASSUME NEW n \in Nat \ {0}, NEW values \in ScoreSeq(n)
  PROVE  /\ DOMAIN _average_ranks(values) = 1..n
         /\ \A i \in 1..n : _average_ranks(values)[i] \in Nat
         /\ \A i, j \in 1..n : values[i] < values[j] =>
               _average_ranks(values)[i] < _average_ranks(values)[j]
         /\ \A i, j \in 1..n : values[i] = values[j] =>
               _average_ranks(values)[i] = _average_ranks(values)[j]
<1> DEFINE rank == _average_ranks(values)
<1>1. DOMAIN values = 1..n /\ IsFiniteSet(1..n) /\ \A i \in 1..n : values[i] \in Nat
  BY ScoreSeqFacts
<1>2. /\ DOMAIN rank = 1..n
      /\ \A i \in 1..n : rank[i] = 2 * Cardinality(Less(values, i)) + Cardinality(Same(values, i)) + 1
  BY <1>1 DEF _average_ranks, Less, Same
<1> HIDE DEF rank
<1>3. \A s \in SUBSET (1..n) : IsFiniteSet(s) /\ Cardinality(s) \in Nat
  BY <1>1, FS_Subset, FS_CardinalityType
<1>4. \A i \in 1..n : /\ Less(values, i) \in SUBSET (1..n) /\ Same(values, i) \in SUBSET (1..n)
                      /\ Less(values, i) \cap Same(values, i) = {} /\ i \in Same(values, i)
  BY <1>1 DEF Less, Same
<1>5. \A i \in 1..n : /\ Cardinality(Less(values, i)) \in Nat
                      /\ Cardinality(Same(values, i)) \in Nat \ {0}
  <2> SUFFICES ASSUME NEW i \in 1..n
               PROVE  /\ Cardinality(Less(values, i)) \in Nat
                      /\ Cardinality(Same(values, i)) \in Nat \ {0}
    OBVIOUS
  <2>1. Cardinality(Same(values, i)) # 0
    BY <1>3, <1>4, FS_EmptySet
  <2> QED
    BY <1>3, <1>4, <2>1
<1>6. \A i \in 1..n : rank[i] \in Nat
  BY <1>2, <1>5, SMTT(30)
<1>7. ASSUME NEW i \in 1..n, NEW j \in 1..n, values[i] < values[j] PROVE rank[i] < rank[j]
  <2> DEFINE a == Less(values, i)
             b == Same(values, i)
             c == Less(values, j)
  <2>1. a \cup b \in SUBSET c
    BY <1>1, <1>7 DEF Less, Same
  <2>2. IsFiniteSet(a) /\ IsFiniteSet(b) /\ IsFiniteSet(c) /\ a \cap b = {}
    BY <1>3, <1>4
  <2>3. /\ Cardinality(a) \in Nat /\ Cardinality(b) \in Nat \ {0} /\ Cardinality(c) \in Nat
        /\ Cardinality(Same(values, j)) \in Nat \ {0}
    BY <1>5
  <2> HIDE DEF a, b, c
  <2>4. Cardinality(a \cup b) = Cardinality(a) + Cardinality(b)
    <3>1. Cardinality(a \cap b) = 0
      BY <2>2, FS_EmptySet
    <3>2. Cardinality(a \cup b) = Cardinality(a) + Cardinality(b) - Cardinality(a \cap b)
      BY <2>2, FS_Union
    <3> QED
      BY <2>3, <3>1, <3>2
  <2>5. Cardinality(a \cup b) <= Cardinality(c)
    BY <2>1, <2>2, FS_Subset
  <2>6. rank[i] = 2 * Cardinality(a) + Cardinality(b) + 1
        /\ rank[j] = 2 * Cardinality(c) + Cardinality(Same(values, j)) + 1
    BY <1>2 DEF a, b, c
  <2> QED
    BY <2>3, <2>4, <2>5, <2>6
<1>8. ASSUME NEW i \in 1..n, NEW j \in 1..n, values[i] = values[j] PROVE rank[i] = rank[j]
  <2>1. Less(values, i) = Less(values, j) /\ Same(values, i) = Same(values, j)
    BY <1>8 DEF Less, Same
  <2> QED
    BY <1>2, <2>1
<1> QED
  BY <1>2, <1>6, <1>7, <1>8 DEF rank

(* The deviations of the ranks are all 0 only if the values are all equal. *)
LEMMA DeviationsVanish ==
  ASSUME NEW n \in Nat \ {0}, NEW values \in ScoreSeq(n)
  PROVE  /\ \A i \in 1..n : Deviations(values)[i] \in Int
         /\ (\A i \in 1..n : Deviations(values)[i] = 0) <=>
            (\A i, j \in 1..n : values[i] = values[j])
<1> DEFINE rank == _average_ranks(values)
           total == Total(rank)
<1>1. /\ DOMAIN values = 1..n /\ Len(values) = n /\ IsFiniteSet(1..n) /\ Cardinality(1..n) = n
      /\ \A i \in 1..n : values[i] \in Nat
  BY ScoreSeqFacts
<1>2. \A i \in 1..n : Deviations(values)[i] = n * rank[i] - total
  BY <1>1 DEF Deviations
<1>3. /\ DOMAIN rank = 1..n /\ \A i \in 1..n : rank[i] \in Nat
      /\ \A i, j \in 1..n : values[i] < values[j] => rank[i] < rank[j]
      /\ \A i, j \in 1..n : values[i] = values[j] => rank[i] = rank[j]
  BY RanksFollow
<1> HIDE DEF rank
<1>4. total = Summed(rank, 1..n) /\ total \in Int
  BY <1>1, <1>3, TotalIsSummed, SumRemove
<1> HIDE DEF total
<1>5. \A i \in 1..n : n * rank[i] \in Int
  BY <1>3
<1>6. ASSUME \A i, j \in 1..n : values[i] = values[j], NEW i \in 1..n
      PROVE  Deviations(values)[i] = 0
  <2> DEFINE r == rank[i]
  <2>1. r \in Int /\ \A j \in 1..n : rank[j] = r
    BY <1>3, <1>6
  <2> HIDE DEF r
  <2>2. total = r * n
    BY <1>1, <1>4, <2>1, SumConstant
  <2>3. rank[i] = r /\ n * r = r * n /\ r * n \in Int
    BY <2>1
  <2> QED
    BY <1>2, <2>2, <2>3
<1>7. ASSUME \A i \in 1..n : Deviations(values)[i] = 0, NEW i \in 1..n, NEW j \in 1..n,
             values[i] < values[j]
      PROVE  FALSE
  <2> DEFINE a == rank[i]
             b == rank[j]
  <2>1. a \in Nat /\ b \in Nat /\ b >= a + 1
    BY <1>3, <1>7
  <2>2. n * a - total = 0 /\ n * b - total = 0
    BY <1>2, <1>7
  <2> HIDE DEF a, b
  <2>3. n * a \in Int /\ n * b \in Int /\ n * b >= n * a + n
    BY <2>1
  <2> QED
    BY <1>4, <2>2, <2>3
<1>8. \A i, j \in 1..n : values[i] = values[j] \/ values[i] < values[j] \/ values[j] < values[i]
  BY <1>1
<1> QED
  BY <1>2, <1>4, <1>5, <1>6, <1>7, <1>8

(* A sum of squares is 0 only if everything is 0.                          *)
LEMMA SquaresVanish ==
  ASSUME NEW S, IsFiniteSet(S), NEW f, NEW ff,
         \A i \in S : f[i] \in Int /\ ff[i] = f[i] * f[i]
  PROVE  Summed(ff, S) \in Nat /\ (Summed(ff, S) = 0 <=> \A i \in S : f[i] = 0)
<1>1. \A i \in S : ff[i] \in Nat /\ (ff[i] = 0 <=> f[i] = 0)
  <2>1. \A a \in Int : a * a \in Nat /\ (a * a = 0 <=> a = 0)
    OBVIOUS
  <2> QED
    BY <2>1
<1>2. ASSUME NEW s \in SUBSET S PROVE Summed(ff, s) \in Nat
  <2> DEFINE none == [i \in s |-> 0]
  <2>1. IsFiniteSet(s) /\ \A i \in s : none[i] \in Int /\ none[i] = 0 /\ ff[i] \in Int /\ none[i] <= ff[i]
    BY <1>1, FS_Subset
  <2> HIDE DEF none
  <2>2. Summed(none, s) = 0 /\ Summed(none, s) <= Summed(ff, s)
    BY <2>1, SumZero, SumAtMost
  <2>3. Summed(ff, s) \in Int
    BY <2>1, SumRemove
  <2> QED
    BY <2>2, <2>3
<1>3. ASSUME \A i \in S : f[i] = 0 PROVE Summed(ff, S) = 0
  <2>1. \A i \in S : ff[i] = 0
    BY <1>1, <1>3
  <2> QED
    BY <2>1, SumZero
<1>4. ASSUME NEW i \in S, f[i] # 0 PROVE Summed(ff, S) # 0
  <2>1. Summed(ff, S) = ff[i] + Summed(ff, S \ {i})
    <3>1. \A j \in S : ff[j] \in Int
      BY <1>1
    <3> QED
      BY <3>1, SumRemove, ZenonT(60)
  <2>2. Summed(ff, S \ {i}) \in Nat /\ ff[i] \in Nat \ {0}
    BY <1>1, <1>2, <1>4
  <2> QED
    BY <2>1, <2>2
<1> QED
  BY <1>2, <1>3, <1>4

(* The whole is Scale roots of its square.                                 *)
LEMMA RootOfSquare ==
  ASSUME NEW v \in Nat, v > 0
  PROVE  NearestToRoot(v, v * v) = Scale
<1> DEFINE w == v * v
           Near(r) == /\ (2 * r - 1) * (2 * r - 1) * w <= 4 * Scale * Scale * v * v \/ r = 0
                      /\ 4 * Scale * Scale * v * v < (2 * r + 1) * (2 * r + 1) * w
<1>1. NearestToRoot(v, w) = CHOOSE r \in 0..Scale : Near(r)
  BY Zenon DEF NearestToRoot
<1>2. Scale \in Nat \ {0} /\ w \in Nat
  BY MetricsAssumption
<1>3. w > 0
  <2>1. \A a, b \in Nat : a > 0 /\ b > 0 => a * b > 0
    OBVIOUS
  <2> QED
    BY <2>1
<1>4. 4 * Scale * Scale * v * v = (4 * Scale * Scale) * w
  BY <1>2
<1> HIDE DEF w
<1>5. \A a, b \in Int : a < b => a * w < b * w
  BY <1>2, <1>3
<1>6. \A a, b \in Int : a <= b => a * w <= b * w
  BY <1>2, <1>3
<1>7. Near(Scale)
  <2> DEFINE a == (2 * Scale - 1) * (2 * Scale - 1)
             b == 4 * Scale * Scale
             c == (2 * Scale + 1) * (2 * Scale + 1)
  <2>1. a = b - 4 * Scale + 1 /\ c = b + 4 * Scale + 1 /\ b \in Int
    BY <1>2
  <2> HIDE DEF a, b, c
  <2>2. a \in Int /\ b \in Int /\ c \in Int /\ a <= b /\ b < c
    BY <1>2, <2>1
  <2>3. a * w <= b * w /\ b * w < c * w
    BY <1>5, <1>6, <2>2
  <2> QED
    BY <1>4, <2>3 DEF a, b, c
<1>8. ASSUME NEW r \in 0..Scale, Near(r) PROVE r = Scale
  <2> SUFFICES ASSUME r < Scale PROVE FALSE
    BY <1>2
  <2> DEFINE c == (2 * r + 1) * (2 * r + 1)
             b == 4 * Scale * Scale
  <2>1. c <= b
    <3> DEFINE x == 2 * r + 1
               y == 2 * Scale
    <3>1. x \in Nat /\ y \in Nat /\ x <= y /\ b = y * y
      BY <1>2
    <3> HIDE DEF x, y
    <3>2. \A d, e \in Nat : d <= e => d * d <= e * e
      OBVIOUS
    <3>3. x * x <= y * y
      BY <3>1, <3>2
    <3> QED
      BY <3>1, <3>3 DEF x
  <2>2. c \in Int /\ b \in Int
    BY <1>2
  <2>3. b * w < c * w
    BY <1>4, <1>8
  <2> HIDE DEF b, c
  <2>4. c * w <= b * w /\ c * w \in Int /\ b * w \in Int
    BY <1>2, <1>6, <2>1, <2>2
  <2> QED
    BY <2>3, <2>4
<1>9. Scale \in 0..Scale
  BY <1>2
<1> HIDE DEF Near
<1> QED
  BY <1>1, <1>7, <1>8, <1>9 DEF w

(* Labels correlate with themselves, unless they are all equal.            *)
LEMMA CorrelateWithThemselves ==
  ASSUME NEW n \in Nat \ {0}, NEW labels \in ScoreSeq(n)
  PROVE  spearman(labels, labels) = IF Cardinality(Range(labels)) > 1 THEN Scale ELSE 0
<1> DEFINE dev == Deviations(labels)
           squares == [i \in DOMAIN labels |-> dev[i] * dev[i]]
           v == Summed(squares, 1..n)
<1>1. DOMAIN labels = 1..n /\ IsFiniteSet(1..n)
  BY ScoreSeqFacts
<1>2. /\ \A i \in 1..n : dev[i] \in Int
      /\ (\A i \in 1..n : dev[i] = 0) <=> (\A i, j \in 1..n : labels[i] = labels[j])
  BY DeviationsVanish
<1>3. Total(squares) = v /\ \A i \in 1..n : squares[i] = dev[i] * dev[i]
  BY <1>1, TotalIsSummed
<1>4. spearman(labels, labels) =
         IF Total(squares) * Total(squares) = 0 THEN 0
         ELSE IF Total(squares) < 0 THEN -NearestToRoot(-Total(squares), Total(squares) * Total(squares))
         ELSE NearestToRoot(Total(squares), Total(squares) * Total(squares))
  BY Zenon DEF spearman
<1> HIDE DEF dev, squares
<1>5. v \in Nat /\ (v = 0 <=> \A i \in 1..n : dev[i] = 0)
  <2> DEFINE S == 1..n
  <2>1. IsFiniteSet(S) /\ \A i \in S : dev[i] \in Int /\ squares[i] = dev[i] * dev[i]
    BY <1>1, <1>2, <1>3
  <2> HIDE DEF S
  <2>2. Summed(squares, S) \in Nat /\ (Summed(squares, S) = 0 <=> \A i \in S : dev[i] = 0)
    BY <2>1, SquaresVanish
  <2> QED
    BY <2>2 DEF S
<1> HIDE DEF v
<1>6. spearman(labels, labels) = IF v = 0 THEN 0 ELSE Scale
  <2>1. v * v = 0 <=> v = 0
    BY <1>5
  <2>2. v # 0 => NearestToRoot(v, v * v) = Scale
    BY <1>5, RootOfSquare
  <2> QED
    BY <1>3, <1>4, <1>5, <2>1, <2>2
<1>7. Range(labels) = {labels[i] : i \in 1..n} /\ IsFiniteSet(Range(labels))
  <2>1. Range(labels) = {labels[i] : i \in 1..n}
    BY <1>1 DEF Range
  <2> DEFINE every == 0..TopScore
  <2>2. IsFiniteSet(every)
    <3>1. TopScore \in Int /\ 0 \in Int
      BY DEF TopScore
    <3> QED
      BY <3>1, FS_Interval
  <2>3. Range(labels) \in SUBSET every
    BY <2>1 DEF ScoreSeq
  <2> HIDE DEF every
  <2> QED
    BY <2>1, <2>2, <2>3, FS_Subset
<1>8. ASSUME \A i, j \in 1..n : labels[i] = labels[j] PROVE ~(Cardinality(Range(labels)) > 1)
  <2>1. Range(labels) = {labels[1]}
    BY <1>7, <1>8
  <2>2. Cardinality(Range(labels)) = 1
    BY <2>1, FS_Singleton
  <2> QED
    BY <2>2
<1>9. ASSUME NEW i \in 1..n, NEW j \in 1..n, labels[i] # labels[j]
      PROVE  Cardinality(Range(labels)) > 1
  <2> DEFINE a == labels[i]
             b == labels[j]
             two == {a} \cup {b}
  <2>1. two \in SUBSET Range(labels)
    BY <1>7
  <2>2. Cardinality(two) = 2
    <3>1. IsFiniteSet({a}) /\ Cardinality({a}) = 1
      BY FS_Singleton
    <3>2. b \notin {a}
      BY <1>9
    <3> HIDE DEF a, b
    <3>3. Cardinality({a} \cup {b}) = Cardinality({a}) + 1
      BY <3>1, <3>2, FS_AddElement
    <3> QED
      BY <3>1, <3>3
  <2>3. Cardinality(two) <= Cardinality(Range(labels)) /\ Cardinality(Range(labels)) \in Nat
    BY <1>7, <2>1, FS_Subset, FS_CardinalityType
  <2> QED
    BY <2>2, <2>3
<1> QED
  BY <1>2, <1>5, <1>6, <1>8, <1>9

(* Scores that are the labels get the best value of every metric.          *)
LEMMA AgreementBest ==
  ASSUME NEW n \in Nat \ {0}, NEW labels \in ScoreSeq(n), NEW bins \in Nat \ {0}, NEW threshold
  PROVE  AgreementIsBest(labels, bins, threshold)
  BY NoErrors, AllFound, CorrelateWithThemselves DEF AgreementIsBest

(* An evaluation is made of records.                                       *)
Evaluated == result # Nothing => manifest.splits[job.split].data # <<>>

(* An evaluation needs a split that parses, and an empty one does not.     *)
LEMMA EvaluatedNext == IInv /\ Evaluated /\ [Next]_vars => Evaluated'
<1> SUFFICES ASSUME IInv, Evaluated, [Next]_vars PROVE Evaluated'
  OBVIOUS
<1>1. ASSUME result' = result, UNCHANGED <<manifest, job>> PROVE Evaluated'
  BY <1>1 DEF Evaluated
<1>2. stage # "done" => result = Nothing
  BY DEF IInv, Selected
<1>3. ASSUME NEW e \in Exports, Freeze(e.sources, e.seed, e.max_records) PROVE Evaluated'
  <2>1. stage = "freeze" /\ result' = result
    BY <1>3 DEF Freeze, Reads
  <2> QED
    BY <1>2, <2>1 DEF Evaluated
<1>4. ASSUME NEW name \in Range(SplitNames), Tamper(name) PROVE Evaluated'
  <2>1. stage = "publish" /\ result' = result
    BY <1>4 DEF Tamper, Reads
  <2> QED
    BY <1>2, <2>1 DEF Evaluated
<1>5. ASSUME NEW j \in Jobs, Submit(j) PROVE Evaluated'
  <2>1. stage = "publish" /\ result' = result
    BY <1>5 DEF Submit, Reads
  <2> QED
    BY <1>2, <2>1 DEF Evaluated
<1>6. ASSUME NEW b \in Benchmarks, ReadBenchmark(b) PROVE Evaluated'
  BY <1>1, <1>6 DEF ReadBenchmark
<1>7. ASSUME ReadDataset PROVE Evaluated'
  BY <1>1, <1>7 DEF ReadDataset
<1>8. ASSUME NEW p \in Payloads, NEW d \in Declarations, ReadCandidate(p, d) PROVE Evaluated'
  BY <1>1, <1>8 DEF ReadCandidate
<1>9. ASSUME Evaluate PROVE Evaluated'
  <2> DEFINE data == manifest.splits[job.split].data
             parsed == parse_scoring_jsonl(data, job.max_input_bytes, job.max_records, FALSE)
  <2>1. /\ result' = IF IsOk(parsed) THEN Packet(parsed.value) ELSE Nothing
        /\ UNCHANGED <<manifest, job>>
    BY <1>9, Zenon DEF Evaluate
  <2>2. IsOk(parsed) => data # <<>>
    <3>1. \A why \in {"crash", "limit", "invalid"} : No(why).verdict # "ok"
      BY DEF No
    <3> QED
      BY <3>1 DEF parse_scoring_jsonl, IsOk
  <2> HIDE DEF parsed
  <2> QED
    BY <2>1, <2>2 DEF Evaluated
<1>10. CASE UNCHANGED vars
  BY <1>1, <1>10 DEF vars
<1> QED
  BY <1>3, <1>4, <1>5, <1>6, <1>7, <1>8, <1>9, <1>10 DEF Next

(* The laws of values hold of any records a job evaluates, the others of   *)
(* any number of records.                                                  *)
LEMMA LawsHold == ExperimentTypeOK /\ IInv /\ Evaluated => MetricLaws
<1> SUFFICES ASSUME ExperimentTypeOK, IInv, Evaluated PROVE MetricLaws
  OBVIOUS
<1>1. ASSUME result # Nothing
      PROVE  /\ AgreementIsBest(Labels, 10, 50)
             /\ \A m \in DOMAIN CutOff : LabelsRankBest(Labels, Scores, CutOff[m])
             /\ \A bins \in 2..4 : BinnedFairly(Labels, Scores, bins)
  <2> DEFINE data == manifest.splits[job.split].data
             n == Len(data)
  <2>1. stage = "done" /\ data # <<>>
    BY <1>1 DEF IInv, Selected, Evaluated
  <2>2. job \in Jobs /\ job.split \in Range(SplitNames)
    BY <2>1, SplitNamesAre, ExperimentAssumption DEF IInv, Submitted
  <2>3. data \in Seq(Lines)
    BY <2>1, <2>2 DEF ExperimentTypeOK, Manifests
  <2>4. candidate.payload \in Payloads /\ validate_linear_evaluator(candidate.payload)
    <3>1. candidate \in Admissions /\ candidate # Nothing
      BY <2>1, ExperimentAssumption DEF ExperimentTypeOK
    <3> QED
      BY <3>1 DEF IInv, Admitted, verify_candidate_change
  <2> DEFINE payload == candidate.payload
  <2>5. payload \in [DOMAIN payload -> Numbers] /\ IsFiniteSet(DOMAIN payload) /\ "bias" \in DOMAIN payload
    BY <2>4, ExperimentAssumption DEF validate_linear_evaluator
  <2>6. Labels = [i \in DOMAIN data |-> data[i].body.label]
        /\ Scores = [i \in DOMAIN data |-> score_linear_evaluator(payload, data[i].body.features)]
    BY DEF Labels, Scores
  <2> HIDE DEF data, payload
  <2>7. n \in Nat \ {0} /\ DOMAIN data = 1..n
    BY <2>1, <2>3
  <2>8. \A i \in 1..n : /\ data[i].body.label \in 0..TopScore
                        /\ data[i].body.features \in [DOMAIN data[i].body.features -> Int]
    <3>1. \A i \in 1..n : data[i] \in Lines
      BY <2>3, <2>7
    <3>2. \A i \in 1..n : data[i].body \in Bodies
      BY <3>1 DEF Lines
    <3> QED
      BY <3>2, ExperimentAssumption
  <2>9. Labels \in ScoreSeq(n)
    BY <2>6, <2>7, <2>8 DEF ScoreSeq
  <2>10. \A i \in 1..n : score_linear_evaluator(payload, data[i].body.features) \in 0..TopScore
    BY <2>5, <2>8, ScoreInRange
  <2>11. Scores \in ScoreSeq(n)
    BY <2>6, <2>7, <2>10 DEF ScoreSeq
  <2> HIDE DEF n
  <2>12. \A bins \in Nat \ {0}, t \in Nat : AgreementIsBest(Labels, bins, t)
    BY <2>7, <2>9, AgreementBest
  <2>13. \A bins \in Nat \ {0} : BinnedFairly(Labels, Scores, bins)
    BY <2>7, <2>9, <2>11, BinsAreFair
  <2>14. \A m \in DOMAIN CutOff : LabelsRankBest(Labels, Scores, CutOff[m])
    BY <2>7, <2>9, <2>11, LabelsRankFirst, MetricsAssumption
  <2> QED
    BY <2>12, <2>13, <2>14
<1>2. \A n \in 2..6, most \in 1..16 : DrawsPairs(n, most)
  <2>1. \A n \in Nat \ {0}, most \in Nat \ {0} : DrawsPairs(n, most)
    BY PairsAreDrawn
  <2> QED
    BY <2>1
<1> QED
  BY <1>1, <1>2 DEF MetricLaws, ValueLaws, PairsCovered

(* Every evaluation obeys the laws of the metrics: agreement with the      *)
(* labels is best, bins are fair, and sampled pairs are distinct.          *)
THEOREM MetricsAreLawful == Spec => []MetricLaws
<1>1. Init => Evaluated
  BY DEF Init, Evaluated
<1>2. Evaluated /\ IInv /\ [Next]_vars => Evaluated'
  BY EvaluatedNext
<1>3. ExperimentTypeOK /\ IInv /\ Evaluated => MetricLaws
  BY LawsHold
<1>4. Spec => []ExperimentTypeOK
  BY ReportsInRange
<1>5. Spec => []IInv
  BY Inductive
<1> QED
  BY <1>1, <1>2, <1>3, <1>4, <1>5, PTL DEF Spec
=============================================================================

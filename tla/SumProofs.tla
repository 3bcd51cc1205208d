------------------------------ MODULE SumProofs ------------------------------
(***************************************************************************)
(* What the proofs about sums and recursive definitions rest on: induction *)
(* on the natural numbers and on the subsets of a finite set, each stated  *)
(* for a set of them and not for a predicate, and the laws of Total.       *)
(***************************************************************************)
EXTENDS Sums, FiniteSetTheorems, WellFoundedInduction, TLAPS

----------------------------------------------------------------------------
(* Induction.                                                              *)

LEMMA LeastNatural ==
  ASSUME NEW T, T \subseteq Nat, T # {}
  PROVE  \E n \in T : \A m \in T : n <= m
<1>1. PICK n \in T : \A m \in T : ~(<<m, n>> \in OpToRel(<, Nat))
  <2>1. IsWellFoundedOn(OpToRel(<, Nat), Nat)
    BY NatLessThanWellFounded
  <2>2. QED BY <2>1, WFMin
<1>2. \A m \in T : ~(m < n)
  BY <1>1 DEF OpToRel
<1>3. QED BY <1>2

(* A set that has zero, and with each number below m the next, has all the *)
(* numbers up to m.                                                        *)
LEMMA UpTo ==
  ASSUME NEW m \in Nat, NEW T, 0 \in T, \A n \in 0 .. m - 1 : n \in T => n + 1 \in T
  PROVE  \A n \in 0 .. m : n \in T
<1>1. SUFFICES ASSUME (0 .. m) \ T # {} PROVE FALSE
  OBVIOUS
<1>2. PICK n \in (0 .. m) \ T : \A k \in (0 .. m) \ T : n <= k
  <2>1. (0 .. m) \ T \subseteq Nat
    OBVIOUS
  <2>2. QED BY <1>1, <2>1, LeastNatural
<1>3. n # 0 /\ n - 1 \in 0 .. m - 1
  BY <1>2
<1>4. n - 1 \in T
  BY <1>2, <1>3
<1>5. QED BY <1>2, <1>3, <1>4

LEMMA MinIsLeast ==
  ASSUME NEW S, S \subseteq Nat, S # {}
  PROVE  Min(S) \in S /\ \A x \in S : Min(S) <= x
<1>1. \E x \in S : \A y \in S : x <= y
  BY LeastNatural
<1>2. QED BY <1>1 DEF Min

LEMMA ImageIsFinite ==
  ASSUME NEW S, NEW f, IsFiniteSet(S)
  PROVE  IsFiniteSet({f[x] : x \in S})
<1> DEFINE T == {f[x] : x \in S}
           g == [x \in S |-> f[x]]
<1>1. g \in Surjection(S, T)
  BY DEF Surjection
<1>2. QED BY <1>1, FS_Surjection

----------------------------------------------------------------------------
(* Sums.  Total is a fold: a recursive function on the subsets of a set,   *)
(* which takes away a chosen element.                                      *)

Pick(s)         == CHOOSE x \in s : TRUE
Solves(g, f, D) == \A s \in D : g[s] = IF s = {} THEN 0 ELSE f[Pick(s)] + g[s \ {Pick(s)}]

(* A set of subsets of S that has the empty one, and each one that it has  *)
(* without one of its elements, has them all.                              *)
LEMMA SubsetInduction ==
  ASSUME NEW S, IsFiniteSet(S), NEW D, {} \in D,
         \A s \in SUBSET S : s # {} /\ (\A x \in s : s \ {x} \in D) => s \in D
  PROVE  \A s \in SUBSET S : s \in D
<1> DEFINE m == Cardinality(S)
           T == {n \in 0 .. m : \A s \in SUBSET S : Cardinality(s) = n => s \in D}
<1>1. m \in Nat
  BY FS_CardinalityType
<1>2. \A s \in SUBSET S : IsFiniteSet(s) /\ Cardinality(s) \in 0 .. m
  BY <1>1, FS_Subset, FS_CardinalityType
<1>3. 0 \in T
  <2>1. \A s \in SUBSET S : Cardinality(s) = 0 => s = {}
    BY <1>2, FS_EmptySet
  <2>2. \A s \in SUBSET S : Cardinality(s) = 0 => s \in D
    BY <2>1
  <2>3. 0 \in 0 .. m
    BY <1>1
  <2>4. QED BY <2>2, <2>3
<1>4. ASSUME NEW n \in 0 .. m - 1, n \in T PROVE n + 1 \in T
  <2>1. SUFFICES ASSUME NEW s \in SUBSET S, Cardinality(s) = n + 1 PROVE s \in D
    BY <1>1
  <2>2. s # {}
    <3>1. Cardinality({}) = 0 /\ n + 1 # 0
      BY <1>1, FS_EmptySet
    <3>2. QED BY <2>1, <3>1
  <2>3. ASSUME NEW x \in s PROVE s \ {x} \in D
    <3>1. Cardinality(s \ {x}) = Cardinality(s) - 1
      BY <1>2, FS_RemoveElement
    <3>2. Cardinality(s \ {x}) = n /\ s \ {x} \in SUBSET S
      BY <1>1, <2>1, <3>1
    <3>3. QED BY <1>4, <3>2
  <2>4. QED BY <2>2, <2>3
<1> HIDE DEF m, T
<1>5. \A n \in 0 .. m : n \in T
  BY <1>1, <1>3, <1>4, UpTo
<1>6. QED BY <1>2, <1>5 DEF T

LEMMA MaxIsGreatest ==
  ASSUME NEW S, IsFiniteSet(S), S \subseteq Nat, S # {}
  PROVE  Max(S) \in S /\ \A x \in S : x <= Max(S)
<1>. DEFINE D == {s \in SUBSET S : s # {} => \E x \in s : \A y \in s : x >= y}
<1>1. {} \in D
  OBVIOUS
<1>2. ASSUME NEW s \in SUBSET S, s # {}, \A x \in s : s \ {x} \in D PROVE s \in D
  <2>1. PICK x \in s : TRUE
    BY <1>2
  <2>2. CASE s \ {x} = {}
    BY <2>1, <2>2
  <2>3. CASE s \ {x} # {}
    <3>1. PICK z \in s \ {x} : \A y \in s \ {x} : z >= y
      BY <1>2, <2>1, <2>3
    <3>2. CASE z >= x
      BY <3>1, <3>2
    <3>3. CASE ~(z >= x)
      BY <3>1, <3>3
    <3>. QED BY <3>2, <3>3
  <2>. QED BY <2>2, <2>3
<1>. HIDE DEF D
<1>3. \A s \in SUBSET S : s \in D
  BY <1>1, <1>2, SubsetInduction
<1>4. \E x \in S : \A y \in S : x >= y
  BY <1>3 DEF D
<1>. QED BY <1>4 DEF Max

(* Two solutions agree where both are.                                     *)
LEMMA SolutionsAgree ==
  ASSUME NEW S, IsFiniteSet(S), NEW f, NEW g, NEW h,
         Solves(g, f, SUBSET S), Solves(h, f, SUBSET S)
  PROVE  \A s \in SUBSET S : g[s] = h[s]
<1> DEFINE D == {s \in SUBSET S : g[s] = h[s]}
<1>1. {} \in D
  BY DEF Solves
<1>2. ASSUME NEW s \in SUBSET S, s # {}, \A x \in s : s \ {x} \in D PROVE s \in D
  <2>1. Pick(s) \in s
    BY <1>2 DEF Pick
  <2>2. g[s \ {Pick(s)}] = h[s \ {Pick(s)}]
    BY <1>2, <2>1
  <2>3. QED BY <1>2, <2>2 DEF Solves
<1> HIDE DEF D
<1>3. \A s \in SUBSET S : s \in D
  BY <1>1, <1>2, SubsetInduction
<1>4. QED BY <1>3 DEF D

LEMMA SolutionExists ==
  ASSUME NEW S, IsFiniteSet(S), NEW f, \A x \in S : f[x] \in Int
  PROVE  \E g \in [SUBSET S -> Int] : Solves(g, f, SUBSET S)
<1> DEFINE m == Cardinality(S)
           D(n) == {s \in SUBSET S : Cardinality(s) <= n}
           T == {n \in 0 .. m : \E g \in [D(n) -> Int] : Solves(g, f, D(n))}
<1>1. m \in Nat
  BY FS_CardinalityType
<1>2. \A s \in SUBSET S : IsFiniteSet(s) /\ Cardinality(s) \in 0 .. m
  BY <1>1, FS_Subset, FS_CardinalityType
<1>3. 0 \in T
  <2> DEFINE g == [s \in D(0) |-> 0]
  <2>1. \A s \in D(0) : s = {}
    BY <1>2, FS_EmptySet
  <2>2. g \in [D(0) -> Int]
    OBVIOUS
  <2>3. Solves(g, f, D(0))
    <3> HIDE DEF D
    <3>1. QED BY <2>1 DEF Solves
  <2> HIDE DEF g, D
  <2>4. \E h \in [D(0) -> Int] : Solves(h, f, D(0))
    BY <2>2, <2>3
  <2>5. QED BY <1>1, <2>4
<1>4. ASSUME NEW n \in 0 .. m - 1, n \in T PROVE n + 1 \in T
  <2>1. PICK g \in [D(n) -> Int] : Solves(g, f, D(n))
    BY <1>4
  <2> DEFINE k == [s \in D(n + 1) |-> IF s = {} THEN 0 ELSE f[Pick(s)] + g[s \ {Pick(s)}]]
  <2>2. ASSUME NEW s \in D(n + 1), s # {}
        PROVE  Pick(s) \in s /\ Pick(s) \in S /\ s \ {Pick(s)} \in D(n)
    <3>1. Pick(s) \in s /\ IsFiniteSet(s) /\ Cardinality(s) \in Nat
      BY <1>2, <2>2 DEF Pick
    <3>2. Cardinality(s \ {Pick(s)}) = Cardinality(s) - 1
      BY <3>1, FS_RemoveElement
    <3>3. QED BY <1>1, <2>2, <3>1, <3>2
  <2>3. k \in [D(n + 1) -> Int]
    <3>1. ASSUME NEW s \in D(n + 1), s # {} PROVE f[Pick(s)] + g[s \ {Pick(s)}] \in Int
      BY <2>1, <2>2, <3>1
    <3>2. QED BY <3>1
  <2>4. ASSUME NEW s \in D(n) PROVE s \in D(n + 1) /\ k[s] = g[s]
    <3>1. s \in D(n + 1)
      BY <1>1, <1>2
    <3>2. QED BY <2>1, <3>1 DEF Solves
  <2>5. Solves(k, f, D(n + 1))
    <3>1. ASSUME NEW s \in D(n + 1)
          PROVE  k[s] = IF s = {} THEN 0 ELSE f[Pick(s)] + k[s \ {Pick(s)}]
      <4>1. CASE s = {}
        BY <4>1
      <4>2. CASE s # {}
        <5>1. k[s] = f[Pick(s)] + g[s \ {Pick(s)}]
          BY <4>2
        <5>2. k[s \ {Pick(s)}] = g[s \ {Pick(s)}]
          BY <2>2, <2>4, <4>2
        <5> HIDE DEF k
        <5>3. QED BY <4>2, <5>1, <5>2
      <4>3. QED BY <4>1, <4>2
    <3> HIDE DEF k, D
    <3>2. QED BY <3>1 DEF Solves
  <2> HIDE DEF k, D
  <2>6. \E q \in [D(n + 1) -> Int] : Solves(q, f, D(n + 1))
    BY <2>3, <2>5
  <2>7. n + 1 \in 0 .. m
    BY <1>1
  <2>8. QED BY <2>6, <2>7
<1>5. D(m) = SUBSET S
  BY <1>1, <1>2
<1> HIDE DEF m, D
<1>6. m \in T
  <2>1. m \in 0 .. m
    BY <1>1
  <2> HIDE DEF T
  <2>2. \A n \in 0 .. m : n \in T
    BY <1>1, <1>3, <1>4, UpTo
  <2>3. QED BY <2>1, <2>2
<1>7. QED BY <1>5, <1>6

(* Total is a solution.                                                    *)
IsTotal(g, f, S) ==
  /\ g \in [SUBSET S -> Int] /\ Solves(g, f, SUBSET S)
  /\ \A s \in SUBSET S : Total(f, s) = g[s]

LEMMA TotalIsSolution ==
  ASSUME NEW S, IsFiniteSet(S), NEW f, \A x \in S : f[x] \in Int
  PROVE  \E g : IsTotal(g, f, S)
<1> DEFINE Equation(q, s) == q = [t \in SUBSET s |-> IF t = {} THEN 0
                                    ELSE f[CHOOSE x \in t : TRUE] + q[t \ {CHOOSE x \in t : TRUE}]]
<1>1. PICK g \in [SUBSET S -> Int] : Solves(g, f, SUBSET S)
  BY SolutionExists
<1>2. ASSUME NEW s \in SUBSET S PROVE Total(f, s) = g[s]
  <2>1. IsFiniteSet(s)
    BY FS_Subset
  <2>2. PICK h \in [SUBSET s -> Int] : Solves(h, f, SUBSET s)
    BY <2>1, SolutionExists
  <2>3. Equation(h, s)
    BY <2>2 DEF Solves, Pick
  <2> DEFINE q == CHOOSE q : Equation(q, s)
  <2>4. Total(f, s) = q[s]
    BY DEF Total, MapThenSumSet, MapThenFoldSet
  <2>5. Equation(q, s)
    <3> HIDE DEF Equation
    <3>1. QED BY <2>3
  <2> HIDE DEF q
  <2>6. Solves(q, f, SUBSET s)
    BY <2>5 DEF Solves, Pick
  <2>7. Solves(g, f, SUBSET s)
    BY <1>1 DEF Solves
  <2>8. \A t \in SUBSET s : q[t] = g[t]
    BY <2>1, <2>6, <2>7, SolutionsAgree
  <2>9. QED BY <2>4, <2>8
<1>3. QED BY <1>1, <1>2 DEF IsTotal

(* Any element may be taken out first.                                     *)
LEMMA TotalTypes ==
  ASSUME NEW S, IsFiniteSet(S), NEW f, \A x \in S : f[x] \in Int
  PROVE  /\ Total(f, {}) = 0
         /\ \A s \in SUBSET S : Total(f, s) \in Int
         /\ \A s \in SUBSET S : s # {} =>
              Pick(s) \in s /\ Total(f, s) = f[Pick(s)] + Total(f, s \ {Pick(s)})
<1>1. PICK g : /\ g \in [SUBSET S -> Int] /\ Solves(g, f, SUBSET S)
               /\ \A s \in SUBSET S : Total(f, s) = g[s]
  <2>1. \E g : IsTotal(g, f, S)
    BY TotalIsSolution
  <2>2. QED BY <2>1 DEF IsTotal
<1>2. Total(f, {}) = 0
  BY <1>1 DEF Solves
<1>3. ASSUME NEW s \in SUBSET S, s # {}
      PROVE  Pick(s) \in s /\ Total(f, s) = f[Pick(s)] + Total(f, s \ {Pick(s)})
  <2>1. Pick(s) \in s
    BY <1>3 DEF Pick
  <2>2. Total(f, s) = g[s] /\ Total(f, s \ {Pick(s)}) = g[s \ {Pick(s)}]
    BY <1>1
  <2>3. QED BY <1>1, <1>3, <2>1, <2>2 DEF Solves
<1>4. ASSUME NEW s \in SUBSET S PROVE Total(f, s) \in Int
  BY <1>1
<1>5. QED BY <1>2, <1>3, <1>4, Zenon

LEMMA TotalRemoves ==
  ASSUME NEW S, IsFiniteSet(S), NEW f, \A x \in S : f[x] \in Int
  PROVE  \A s \in SUBSET S : \A x \in s : Total(f, s) = f[x] + Total(f, s \ {x})
<1> DEFINE D == {s \in SUBSET S : \A x \in s : Total(f, s) = f[x] + Total(f, s \ {x})}
<1>1. {} \in D
  OBVIOUS
<1>2. ASSUME NEW s \in SUBSET S, s # {}, \A x \in s : s \ {x} \in D PROVE s \in D
  <2>1. SUFFICES ASSUME NEW x \in s PROVE Total(f, s) = f[x] + Total(f, s \ {x})
    OBVIOUS
  <2> DEFINE c == Pick(s)
  <2>2. c \in s /\ Total(f, s) = f[c] + Total(f, s \ {c})
    <3>1. \A t \in SUBSET S : t # {} =>
             Pick(t) \in t /\ Total(f, t) = f[Pick(t)] + Total(f, t \ {Pick(t)})
      BY TotalTypes, Zenon
    <3>2. QED BY <1>2, <3>1, Zenon
  <2>3. CASE x = c
    BY <2>2, <2>3
  <2>4. CASE x # c
    <3>1. Total(f, s \ {c}) = f[x] + Total(f, (s \ {c}) \ {x})
      BY <1>2, <2>2, <2>4
    <3>2. Total(f, s \ {x}) = f[c] + Total(f, (s \ {x}) \ {c})
      BY <1>2, <2>2, <2>4
    <3>3. (s \ {c}) \ {x} = (s \ {x}) \ {c} /\ (s \ {c}) \ {x} \in SUBSET S
      OBVIOUS
    <3>4. Total(f, (s \ {c}) \ {x}) \in Int /\ f[x] \in Int /\ f[c] \in Int
      BY <2>2, <3>3, TotalTypes
    <3> DEFINE u == f[x]
               v == f[c]
               w == Total(f, (s \ {c}) \ {x})
    <3>5. Total(f, s) = v + (u + w) /\ Total(f, s \ {x}) = v + w
      BY <2>2, <3>1, <3>2, <3>3, Zenon
    <3>6. u \in Int /\ v \in Int /\ w \in Int
      BY <3>4
    <3> HIDE DEF u, v, w
    <3>7. v + (u + w) = u + (v + w)
      BY <3>6
    <3>8. QED BY <3>5, <3>7, Zenon DEF u
  <2>5. QED BY <2>3, <2>4
<1> HIDE DEF D
<1>3. \A s \in SUBSET S : s \in D
  BY <1>1, <1>2, SubsetInduction
<1>4. QED BY <1>3 DEF D

(* A sum over a set is the sum over an image of it that keeps its elements *)
(* apart.                                                                  *)
LEMMA TotalOfImage ==
  ASSUME NEW S, IsFiniteSet(S), NEW f, \A x \in S : f[x] \in Int, NEW b, NEW g,
         \A x, y \in S : b[x] = b[y] => x = y,
         \A x \in S : g[b[x]] = f[x]
  PROVE  Total(f, S) = Total(g, {b[x] : x \in S})
<1> DEFINE image(s) == {b[x] : x \in s}
           T == image(S)
           D == {s \in SUBSET S : Total(f, s) = Total(g, image(s))}
<1>1. IsFiniteSet(T) /\ \A y \in T : g[y] \in Int
  BY ImageIsFinite
<1>2. {} \in D
  <2>1. image({}) = {}
    OBVIOUS
  <2>2. Total(f, {}) = 0 /\ Total(g, {}) = 0
    <3> HIDE DEF T
    <3>1. QED BY <1>1, TotalTypes
  <2>3. QED BY <2>1, <2>2
<1>3. ASSUME NEW s \in SUBSET S, s # {}, \A x \in s : s \ {x} \in D PROVE s \in D
  <2>1. PICK x \in s : TRUE
    BY <1>3
  <2>2. Total(f, s) = f[x] + Total(f, s \ {x})
    BY TotalRemoves
  <2>3. image(s) \in SUBSET T /\ b[x] \in image(s)
    OBVIOUS
  <2>4. Total(g, image(s)) = g[b[x]] + Total(g, image(s) \ {b[x]})
    <3> HIDE DEF T, image
    <3>1. QED BY <1>1, <2>3, TotalRemoves
  <2>5. image(s) \ {b[x]} = image(s \ {x})
    OBVIOUS
  <2>6. Total(f, s \ {x}) = Total(g, image(s \ {x})) /\ g[b[x]] = f[x]
    BY <1>3
  <2>7. Total(f, s) = Total(g, image(s))
    <3> HIDE DEF image, T, D
    <3>1. QED BY <2>2, <2>4, <2>5, <2>6
  <2>8. QED BY <2>7
<1> HIDE DEF D
<1>4. \A s \in SUBSET S : s \in D
  BY <1>2, <1>3, SubsetInduction
<1>5. QED BY <1>4 DEF D

LEMMA CardinalityOfImage ==
  ASSUME NEW S, IsFiniteSet(S), NEW b, \A x, y \in S : b[x] = b[y] => x = y
  PROVE  IsFiniteSet({b[x] : x \in S}) /\ Cardinality({b[x] : x \in S}) = Cardinality(S)
<1> DEFINE T == {b[x] : x \in S}
           h == [x \in S |-> b[x]]
<1>1. h \in Surjection(S, T) /\ h \in Injection(S, T)
  BY DEF Surjection, Injection, IsInjective
<1>2. QED BY <1>1, FS_Surjection

(* The sum over one element.                                               *)
LEMMA TotalOfOne ==
  ASSUME NEW a, NEW f, f[a] \in Int
  PROVE  Total(f, {a}) = f[a]
<1> DEFINE S == {a}
<1>1. IsFiniteSet(S) /\ S \in SUBSET S /\ a \in S /\ \A x \in S : f[x] \in Int
  BY FS_Singleton
<1>2. Total(f, {}) = 0 /\ S \ {a} = {}
  BY <1>1, TotalTypes
<1> HIDE DEF S
<1>3. Total(f, S) = f[a] + Total(f, S \ {a})
  BY <1>1, TotalRemoves
<1>4. Total(f, S) = f[a]
  BY <1>2, <1>3
<1>5. QED BY <1>4 DEF S

(* Two disjoint sets.                                                      *)
LEMMA TotalOfUnion ==
  ASSUME NEW S, IsFiniteSet(S), NEW f, \A x \in S : f[x] \in Int,
         NEW A \in SUBSET S, NEW B \in SUBSET S, A \cap B = {}
  PROVE  Total(f, A \cup B) = Total(f, A) + Total(f, B)
<1> DEFINE D == {s \in SUBSET B : Total(f, A \cup s) = Total(f, A) + Total(f, s)}
<1>1. \A s \in SUBSET S : Total(f, s) \in Int
  BY TotalTypes
<1>2. {} \in D
  <2>1. Total(f, {}) = 0 /\ A \cup {} = A
    BY TotalTypes
  <2>2. QED BY <1>1, <2>1
<1>3. ASSUME NEW s \in SUBSET B, s # {}, \A x \in s : s \ {x} \in D PROVE s \in D
  <2>1. PICK x \in s : TRUE
    BY <1>3
  <2>2. Total(f, A \cup s) = f[x] + Total(f, (A \cup s) \ {x})
    <3>1. A \cup s \in SUBSET S /\ x \in A \cup s
      OBVIOUS
    <3>2. QED BY <3>1, TotalRemoves
  <2>3. Total(f, s) = f[x] + Total(f, s \ {x})
    BY TotalRemoves
  <2>4. (A \cup s) \ {x} = A \cup (s \ {x})
    OBVIOUS
  <2>5. Total(f, A \cup (s \ {x})) = Total(f, A) + Total(f, s \ {x})
    BY <1>3
  <2>6. /\ f[x] \in Int /\ Total(f, A) \in Int /\ Total(f, s \ {x}) \in Int
        /\ Total(f, A \cup s) \in Int /\ Total(f, s) \in Int
    <3>1. s \ {x} \in SUBSET S /\ s \in SUBSET S /\ A \cup s \in SUBSET S /\ x \in S
      OBVIOUS
    <3>2. QED BY <1>1, <3>1
  <2>7. Total(f, A \cup s) = Total(f, A) + Total(f, s)
    <3> DEFINE u == f[x]
               v == Total(f, A)
               w == Total(f, s \ {x})
    <3>1. Total(f, A \cup s) = u + (v + w) /\ Total(f, s) = u + w
      BY <2>2, <2>3, <2>4, <2>5, Zenon
    <3>2. u \in Int /\ v \in Int /\ w \in Int
      BY <2>6
    <3> HIDE DEF u, v, w
    <3>3. u + (v + w) = v + (u + w)
      BY <3>2
    <3>4. QED BY <3>1, <3>3, Zenon DEF v
  <2>8. QED BY <2>7
<1>4. IsFiniteSet(B)
  BY FS_Subset
<1> HIDE DEF D
<1>5. \A s \in SUBSET B : s \in D
  BY <1>2, <1>3, <1>4, SubsetInduction
<1>6. QED BY <1>5 DEF D

(* A part of the set; and all that is not zero.                            *)
LEMMA TotalOfPart ==
  ASSUME NEW S, IsFiniteSet(S), NEW f, \A x \in S : f[x] \in Nat, NEW A \in SUBSET S
  PROVE  /\ Total(f, A) \in Nat /\ Total(f, S) \in Nat /\ Total(f, A) <= Total(f, S)
         /\ (\A x \in S \ A : f[x] = 0) => Total(f, A) = Total(f, S)
<1>1. \A s \in SUBSET S : Total(f, s) \in Nat
  <2> DEFINE D == {s \in SUBSET S : Total(f, s) \in Nat}
  <2>1. {} \in D
    BY TotalTypes
  <2>2. ASSUME NEW s \in SUBSET S, s # {}, \A x \in s : s \ {x} \in D PROVE s \in D
    <3>1. PICK x \in s : TRUE
      BY <2>2
    <3>2. Total(f, s) = f[x] + Total(f, s \ {x})
      BY TotalRemoves
    <3>3. Total(f, s \ {x}) \in Nat /\ f[x] \in Nat
      BY <2>2
    <3>4. QED BY <3>2, <3>3
  <2> HIDE DEF D
  <2>3. \A s \in SUBSET S : s \in D
    BY <2>1, <2>2, SubsetInduction
  <2>4. QED BY <2>3 DEF D
<1> DEFINE B == S \ A
<1>2. Total(f, S) = Total(f, A) + Total(f, B)
  <2>1. B \in SUBSET S /\ A \cap B = {} /\ A \cup B = S
    OBVIOUS
  <2> HIDE DEF B
  <2>2. Total(f, A \cup B) = Total(f, A) + Total(f, B)
    BY <2>1, TotalOfUnion
  <2>3. QED BY <2>1, <2>2
<1>3. ASSUME \A x \in B : f[x] = 0 PROVE Total(f, B) = 0
  <2> DEFINE D == {s \in SUBSET B : Total(f, s) = 0}
  <2>1. {} \in D
    BY TotalTypes
  <2>2. ASSUME NEW s \in SUBSET B, s # {}, \A x \in s : s \ {x} \in D PROVE s \in D
    <3>1. PICK x \in s : TRUE
      BY <2>2
    <3>2. Total(f, s) = f[x] + Total(f, s \ {x})
      BY TotalRemoves
    <3>3. Total(f, s \ {x}) = 0 /\ f[x] = 0
      BY <1>3, <2>2
    <3>4. QED BY <3>2, <3>3
  <2>3. IsFiniteSet(B)
    BY FS_Subset
  <2> HIDE DEF D, B
  <2>4. \A s \in SUBSET B : s \in D
    BY <2>1, <2>2, <2>3, SubsetInduction
  <2>5. QED BY <2>4 DEF D
<1>4. Total(f, A) \in Nat /\ Total(f, B) \in Nat /\ Total(f, S) \in Nat
  BY <1>1
<1>5. QED BY <1>2, <1>3, <1>4

(* Sums of what is no more, and of what is the same, point by point.       *)
LEMMA TotalOfSmaller ==
  ASSUME NEW S, IsFiniteSet(S), NEW f, NEW g,
         \A x \in S : f[x] \in Int /\ g[x] \in Int /\ f[x] <= g[x]
  PROVE  Total(f, S) \in Int /\ Total(g, S) \in Int /\ Total(f, S) <= Total(g, S)
<1> DEFINE D == {s \in SUBSET S : Total(f, s) <= Total(g, s)}
<1>0. (\A x \in S : f[x] \in Int) /\ (\A x \in S : g[x] \in Int)
  OBVIOUS
<1>1. \A s \in SUBSET S : Total(f, s) \in Int /\ Total(g, s) \in Int
  BY <1>0, TotalTypes
<1>2. {} \in D
  <2>1. Total(f, {}) = 0 /\ Total(g, {}) = 0
    BY <1>0, TotalTypes
  <2>2. QED BY <2>1
<1>3. ASSUME NEW s \in SUBSET S, s # {}, \A x \in s : s \ {x} \in D PROVE s \in D
  <2>1. PICK x \in s : TRUE
    BY <1>3
  <2>2. Total(f, s) = f[x] + Total(f, s \ {x}) /\ Total(g, s) = g[x] + Total(g, s \ {x})
    BY <1>0, TotalRemoves
  <2>3. Total(f, s \ {x}) <= Total(g, s \ {x}) /\ s \ {x} \in SUBSET S
    BY <1>3
  <2>4. QED BY <1>1, <2>2, <2>3
<1> HIDE DEF D
<1>4. \A s \in SUBSET S : s \in D
  BY <1>2, <1>3, SubsetInduction
<1>5. QED BY <1>1, <1>4 DEF D

LEMMA TotalOfSame ==
  ASSUME NEW S, IsFiniteSet(S), NEW f, NEW g,
         \A x \in S : f[x] \in Int /\ g[x] = f[x]
  PROVE  Total(f, S) = Total(g, S)
<1>1. /\ \A x \in S : f[x] \in Int /\ g[x] \in Int /\ f[x] <= g[x]
      /\ \A x \in S : g[x] \in Int /\ f[x] \in Int /\ g[x] <= f[x]
  OBVIOUS
<1>2. Total(f, S) \in Int /\ Total(g, S) \in Int /\ Total(f, S) <= Total(g, S)
  BY <1>1, TotalOfSmaller
<1>3. Total(g, S) <= Total(f, S)
  BY <1>1, TotalOfSmaller
<1>4. QED BY <1>2, <1>3

AddUp(f, g, h, S) == \A x \in S : g[x] \in Int /\ h[x] \in Int /\ f[x] = g[x] + h[x]

LEMMA TotalOfSum ==
  ASSUME NEW S, IsFiniteSet(S), NEW f, NEW g, NEW h, AddUp(f, g, h, S)
  PROVE  /\ Total(f, S) \in Int /\ Total(g, S) \in Int /\ Total(h, S) \in Int
         /\ Total(f, S) = Total(g, S) + Total(h, S)
<1> USE DEF AddUp
<1> DEFINE D == {s \in SUBSET S : Total(f, s) = Total(g, s) + Total(h, s)}
<1>0. /\ \A x \in S : f[x] \in Int
      /\ \A x \in S : g[x] \in Int
      /\ \A x \in S : h[x] \in Int
  OBVIOUS
<1>1. \A s \in SUBSET S : Total(f, s) \in Int /\ Total(g, s) \in Int /\ Total(h, s) \in Int
  BY <1>0, TotalTypes
<1>2. {} \in D
  <2>1. Total(f, {}) = 0 /\ Total(g, {}) = 0 /\ Total(h, {}) = 0
    BY <1>0, TotalTypes
  <2>2. QED BY <2>1
<1>3. ASSUME NEW s \in SUBSET S, s # {}, \A x \in s : s \ {x} \in D PROVE s \in D
  <2>1. PICK x \in s : TRUE
    BY <1>3
  <2>2. /\ Total(f, s) = f[x] + Total(f, s \ {x})
        /\ Total(g, s) = g[x] + Total(g, s \ {x})
        /\ Total(h, s) = h[x] + Total(h, s \ {x})
    BY <1>0, TotalRemoves
  <2>3. Total(f, s \ {x}) = Total(g, s \ {x}) + Total(h, s \ {x}) /\ s \ {x} \in SUBSET S
    BY <1>3
  <2>4. Total(f, s) = Total(g, s) + Total(h, s)
    BY <1>1, <2>2, <2>3
  <2>5. QED BY <2>4
<1> HIDE DEF D
<1>4. \A s \in SUBSET S : s \in D
  BY <1>2, <1>3, SubsetInduction
<1>5. QED BY <1>1, <1>4 DEF D

(* Disjoint sets are counted together by counting each.                    *)
LEMMA DisjointCardinality ==
  ASSUME NEW A, NEW B, IsFiniteSet(A), IsFiniteSet(B), A \cap B = {}
  PROVE  /\ IsFiniteSet(A \cup B) /\ Cardinality(A \cup B) \in Nat
         /\ Cardinality(A) \in Nat /\ Cardinality(B) \in Nat
         /\ Cardinality(A \cup B) = Cardinality(A) + Cardinality(B)
<1>1. IsFiniteSet(A \cup B) /\ Cardinality(A) \in Nat /\ Cardinality(B) \in Nat
  BY FS_Union, FS_CardinalityType
<1>2. Cardinality(A \cup B) = Cardinality(A) + Cardinality(B) - Cardinality(A \cap B)
  BY FS_Union
<1>3. Cardinality(A \cap B) = 0
  BY FS_EmptySet
<1>4. QED BY <1>1, <1>2, <1>3, FS_CardinalityType

LEMMA TotalOfCardinalities ==
  ASSUME NEW S, IsFiniteSet(S), NEW U, \A x \in S : IsFiniteSet(U[x]),
         \A x, y \in S : x # y => U[x] \cap U[y] = {},
         NEW c, \A x \in S : c[x] = Cardinality(U[x])
  PROVE  Total(c, S) = Cardinality(UNION {U[x] : x \in S})
<1> DEFINE all(s) == UNION {U[x] : x \in s}
           D == {s \in SUBSET S : IsFiniteSet(all(s)) /\ Total(c, s) = Cardinality(all(s))}
<1>1. \A x \in S : c[x] \in Nat
  BY FS_CardinalityType
<1>2. {} \in D
  <2>1. Total(c, {}) = 0
    BY <1>1, TotalTypes
  <2>2. all({}) = {}
    OBVIOUS
  <2> HIDE DEF all
  <2>3. QED BY <2>1, <2>2, FS_EmptySet
<1>3. ASSUME NEW s \in SUBSET S, s # {}, \A x \in s : s \ {x} \in D PROVE s \in D
  <2>1. PICK x \in s : TRUE
    BY <1>3
  <2>2. Total(c, s) = c[x] + Total(c, s \ {x})
    BY <1>1, TotalRemoves
  <2>3. IsFiniteSet(all(s \ {x})) /\ Total(c, s \ {x}) = Cardinality(all(s \ {x}))
    BY <1>3
  <2>4. all(s) = U[x] \cup all(s \ {x}) /\ U[x] \cap all(s \ {x}) = {}
    OBVIOUS
  <2>5. IsFiniteSet(U[x]) /\ c[x] = Cardinality(U[x])
    OBVIOUS
  <2>6. IsFiniteSet(all(s)) /\ Total(c, s) = Cardinality(all(s))
    <3> DEFINE V == U[x]
               W == all(s \ {x})
    <3>1. /\ IsFiniteSet(V) /\ IsFiniteSet(W) /\ V \cap W = {} /\ all(s) = V \cup W
          /\ Total(c, s) = Cardinality(V) + Cardinality(W)
      BY <2>2, <2>3, <2>4, <2>5, Zenon
    <3> HIDE DEF V, W, all
    <3>2. QED BY <3>1, DisjointCardinality
  <2>7. QED BY <2>6
<1> HIDE DEF D
<1>4. \A s \in SUBSET S : s \in D
  BY <1>2, <1>3, SubsetInduction
<1>5. QED BY <1>4 DEF D
=============================================================================

------------------------------ MODULE SumTheory ------------------------------
(***************************************************************************)
(* Sums over finite sets: what SumFunctionOnSet returns.  The fold is a    *)
(* function that is defined by recursion over the subsets of a set; that   *)
(* it exists, and that the order of its choices does not matter, is proved *)
(* by induction over the size of the set, each time by looking at the      *)
(* least size for which it would fail.                                     *)
(***************************************************************************)
EXTENDS Functions, FiniteSets, Integers, FiniteSetTheorems, TLAPS

(* Every set of natural numbers that is not empty has a least element. *)
LEMMA Least ==
    ASSUME NEW T, T \subseteq Nat, T # {}
    PROVE  \E x \in T : \A y \in T : x <= y
<1> DEFINE R == OpToRel(<, Nat)
<1>1. IsWellFoundedOn(R, Nat)
  BY NatLessThanWellFounded
<1>2. ASSUME NEW x \in Nat, NEW y \in Nat, y < x
      PROVE  <<y, x>> \in R
  BY <1>2 DEF OpToRel
<1> HIDE DEF R
<1>3. PICK x \in T : \A y \in T : ~(<<y, x>> \in R)
  BY <1>1, WFMin
<1>4. ASSUME NEW y \in T
      PROVE  x <= y
  <2>1. x \in Nat /\ y \in Nat
    OBVIOUS
  <2>2. ~(y < x)
    BY <1>2, <1>3, <2>1
  <2> QED
    BY <2>1, <2>2
<1> QED
  BY <1>4

-----------------------------------------------------------------------------
Pick(s) == CHOOSE y \in s : TRUE

(* g is the sum of f for each of the sets it is defined on. *)
Sums(g, f) ==
    \A s \in DOMAIN g :
        g[s] = IF s = {} THEN 0 ELSE f[Pick(s)] + g[s \ {Pick(s)}]

SumRec(f, S) ==
    CHOOSE g : g = [s \in SUBSET S |->
        IF s = {} THEN 0 ELSE LET x == CHOOSE y \in s : TRUE IN f[x] + g[s \ {x}]]

LEMMA SumByRec ==
    ASSUME NEW f, NEW S
    PROVE  SumFunctionOnSet(f, S) = SumRec(f, S)[S]
  BY DEF SumFunctionOnSet, FoldFunctionOnSet, MapThenFoldSet, SumRec

LEMMA PickSmaller ==
    ASSUME NEW s, IsFiniteSet(s), s # {}
    PROVE  /\ Pick(s) \in s
           /\ IsFiniteSet(s \ {Pick(s)})
           /\ Cardinality(s) \in Nat /\ Cardinality(s \ {Pick(s)}) \in Nat
           /\ Cardinality(s) = Cardinality(s \ {Pick(s)}) + 1
<1>1. Pick(s) \in s
  BY DEF Pick
<1> DEFINE r == s \ {Pick(s)}
<1>2. IsFiniteSet(r) /\ Cardinality(r) = Cardinality(s) - 1
  BY <1>1, FS_RemoveElement
<1>3. Cardinality(s) \in Nat /\ Cardinality(r) \in Nat
  BY <1>2, FS_CardinalityType
<1> QED
  BY <1>1, <1>2, <1>3

(* The recursion has a solution, first for the small subsets of S.         *)
LEMMA SumsExist ==
    ASSUME NEW S, IsFiniteSet(S), NEW f, \A x \in S : f[x] \in Int
    PROVE  \E g \in [SUBSET S -> Int] : Sums(g, f)
<1> DEFINE Small(n) == {s \in SUBSET S : Cardinality(s) <= n}
           Good(n)  == \E g \in [Small(n) -> Int] : Sums(g, f)
<1>0. \A s \in SUBSET S : IsFiniteSet(s) /\ Cardinality(s) \in Nat
  BY FS_Subset, FS_CardinalityType
<1>1. Good(0)
  <2> DEFINE g == [s \in Small(0) |-> 0]
  <2>1. \A s \in Small(0) : s = {}
    BY <1>0, FS_EmptySet
  <2>2. g \in [Small(0) -> Int] /\ Sums(g, f)
    BY <2>1 DEF Sums
  <2> QED
    BY <2>2
<1>2. ASSUME NEW n \in Nat, Good(n)
      PROVE  Good(n + 1)
  <2>1. PICK g \in [Small(n) -> Int] : Sums(g, f)
    BY <1>2
  <2> DEFINE h == [s \in Small(n + 1) |->
                     IF s = {} THEN 0 ELSE f[Pick(s)] + g[s \ {Pick(s)}]]
  <2>2. ASSUME NEW s \in Small(n + 1), s # {}
        PROVE  /\ s \ {Pick(s)} \in Small(n)
               /\ f[Pick(s)] + g[s \ {Pick(s)}] \in Int
    <3>1. /\ Pick(s) \in s
          /\ Cardinality(s) = Cardinality(s \ {Pick(s)}) + 1
          /\ Cardinality(s \ {Pick(s)}) \in Nat
      BY <1>0, <2>2, PickSmaller
    <3>2. s \ {Pick(s)} \in Small(n)
      BY <3>1
    <3>3. g[s \ {Pick(s)}] \in Int /\ f[Pick(s)] \in Int
      BY <3>1, <3>2
    <3> QED
      BY <3>2, <3>3
  <2>3. h \in [Small(n + 1) -> Int]
    BY <2>2
  <2>4. ASSUME NEW s \in Small(n)
        PROVE  s \in Small(n + 1) /\ h[s] = g[s]
    <3>1. s \in SUBSET S /\ Cardinality(s) <= n + 1
      BY <1>0
    <3>2. g[s] = IF s = {} THEN 0 ELSE f[Pick(s)] + g[s \ {Pick(s)}]
      BY <2>1 DEF Sums
    <3> QED
      BY <3>1, <3>2
  <2>5. Sums(h, f)
    BY <2>2, <2>4 DEF Sums
  <2> QED
    BY <2>3, <2>5
<1>3. \A n \in Nat : Good(n)
  <2> DEFINE T == {n \in Nat : ~Good(n)}
  <2> HIDE DEF Good
  <2>1. SUFFICES ASSUME T # {} PROVE FALSE
    OBVIOUS
  <2>2. PICK x \in T : \A y \in T : x <= y
    BY <2>1, Least
  <2>3. x # 0 /\ x \in Nat /\ ~Good(x)
    BY <1>1
  <2>4. x - 1 \in Nat /\ x - 1 \notin T /\ (x - 1) + 1 = x
    BY <2>2, <2>3
  <2>5. Good(x - 1)
    BY <2>4
  <2> QED
    BY <1>2, <2>3, <2>4, <2>5
<1>4. Cardinality(S) \in Nat /\ Small(Cardinality(S)) = SUBSET S
  BY <1>0, FS_CardinalityType, FS_Subset
<1> QED
  BY <1>3, <1>4

LEMMA SumRecSums ==
    ASSUME NEW S, IsFiniteSet(S), NEW f, \A x \in S : f[x] \in Int
    PROVE  /\ DOMAIN SumRec(f, S) = SUBSET S
           /\ Sums(SumRec(f, S), f)
<1> DEFINE Step(g) == [s \in SUBSET S |->
        IF s = {} THEN 0 ELSE LET x == CHOOSE y \in s : TRUE IN f[x] + g[s \ {x}]]
<1>1. PICK g \in [SUBSET S -> Int] : Sums(g, f)
  BY SumsExist
<1>2. g = Step(g)
  BY <1>1 DEF Sums, Pick
<1>3. SumRec(f, S) = Step(SumRec(f, S))
  BY <1>2 DEF SumRec
<1> QED
  BY <1>3 DEF Sums, Pick

(* Two solutions agree where both are defined and f is the same. *)
LEMMA SumsAgree ==
    ASSUME NEW S, IsFiniteSet(S), NEW f, NEW g, NEW h, NEW k,
           SUBSET S \subseteq DOMAIN g, SUBSET S \subseteq DOMAIN k,
           Sums(g, f), Sums(k, h),
           \A x \in S : f[x] = h[x]
    PROVE  g[S] = k[S]
<1> DEFINE T == {n \in Nat : \E s \in SUBSET S : Cardinality(s) = n /\ g[s] # k[s]}
<1>1. \A s \in SUBSET S : IsFiniteSet(s) /\ Cardinality(s) \in Nat
  BY FS_Subset, FS_CardinalityType
<1>2. SUFFICES ASSUME T # {} PROVE FALSE
  BY <1>1
<1>3. PICK n \in T : \A m \in T : n <= m
  BY <1>2, Least
<1>4. PICK s \in SUBSET S : Cardinality(s) = n /\ g[s] # k[s]
  BY <1>3
<1>5. /\ g[s] = IF s = {} THEN 0 ELSE f[Pick(s)] + g[s \ {Pick(s)}]
      /\ k[s] = IF s = {} THEN 0 ELSE h[Pick(s)] + k[s \ {Pick(s)}]
  BY DEF Sums
<1>6. s # {}
  BY <1>4, <1>5
<1> DEFINE r == s \ {Pick(s)}
<1>7. /\ Pick(s) \in S /\ r \in SUBSET S
      /\ Cardinality(s) = Cardinality(r) + 1
      /\ Cardinality(r) \in Nat
  BY <1>1, <1>6, PickSmaller
<1>8. g[r] = k[r]
  <2>1. n \in Nat /\ Cardinality(r) < n
    BY <1>4, <1>7
  <2>2. Cardinality(r) \notin T
    <3> HIDE DEF T, r
    <3> QED
      BY <1>3, <1>7, <2>1
  <2> QED
    BY <1>7, <2>2
<1> QED
  BY <1>4, <1>5, <1>6, <1>7, <1>8

-----------------------------------------------------------------------------
LEMMA SumEmpty ==
    ASSUME NEW f
    PROVE  SumFunctionOnSet(f, {}) = 0
<1>1. {} \in DOMAIN SumRec(f, {}) /\ Sums(SumRec(f, {}), f)
  BY SumRecSums, FS_EmptySet
<1> QED
  BY <1>1, SumByRec DEF Sums

LEMMA SumPick ==
    ASSUME NEW S, IsFiniteSet(S), S # {}, NEW f, \A x \in S : f[x] \in Int
    PROVE  SumFunctionOnSet(f, S)
             = f[Pick(S)] + SumFunctionOnSet(f, S \ {Pick(S)})
<1> DEFINE r == S \ {Pick(S)}
<1>1. r \subseteq S /\ IsFiniteSet(r)
  BY PickSmaller
<1>2. DOMAIN SumRec(f, S) = SUBSET S /\ Sums(SumRec(f, S), f)
  BY SumRecSums
<1>3. DOMAIN SumRec(f, r) = SUBSET r /\ Sums(SumRec(f, r), f)
  BY <1>1, SumRecSums
<1>4. SumRec(f, S)[r] = SumRec(f, r)[r]
  <2>1. SUBSET r \subseteq DOMAIN SumRec(f, S) /\ SUBSET r \subseteq DOMAIN SumRec(f, r)
    BY <1>1, <1>2, <1>3
  <2> HIDE DEF r
  <2> QED
    BY <1>1, <1>2, <1>3, <2>1, SumsAgree
<1>5. SumRec(f, S)[S] = f[Pick(S)] + SumRec(f, S)[r]
  BY <1>2 DEF Sums
<1> QED
  BY <1>4, <1>5, SumByRec

(* A sum depends on the values of its set only. *)
LEMMA SumSame ==
    ASSUME NEW S, IsFiniteSet(S), NEW f, NEW h,
           \A x \in S : f[x] \in Int /\ f[x] = h[x]
    PROVE  SumFunctionOnSet(f, S) = SumFunctionOnSet(h, S)
<1>1. DOMAIN SumRec(f, S) = SUBSET S /\ Sums(SumRec(f, S), f)
  BY SumRecSums
<1>2. DOMAIN SumRec(h, S) = SUBSET S /\ Sums(SumRec(h, S), h)
  BY SumRecSums
<1>3. SumRec(f, S)[S] = SumRec(h, S)[S]
  BY <1>1, <1>2, SumsAgree
<1> QED
  BY <1>3, SumByRec

LEMMA SumIsInt ==
    ASSUME NEW S, IsFiniteSet(S), NEW f, \A x \in S : f[x] \in Int
    PROVE  SumFunctionOnSet(f, S) \in Int
<1>1. PICK g \in [SUBSET S -> Int] : Sums(g, f)
  BY SumsExist
<1>2. DOMAIN SumRec(f, S) = SUBSET S /\ Sums(SumRec(f, S), f)
  BY SumRecSums
<1>3. SumRec(f, S)[S] = g[S]
  <2>1. SUBSET S \subseteq DOMAIN SumRec(f, S) /\ SUBSET S \subseteq DOMAIN g
    BY <1>1, <1>2
  <2> QED
    BY <1>1, <1>2, <2>1, SumsAgree
<1> QED
  BY <1>1, <1>3, SumByRec

(* Any element may be taken out of a sum first, not only the one the fold  *)
(* chooses.                                                                *)
LEMMA SumRemove ==
    ASSUME NEW S, IsFiniteSet(S), NEW f, \A x \in S : f[x] \in Int, NEW e \in S
    PROVE  SumFunctionOnSet(f, S) = f[e] + SumFunctionOnSet(f, S \ {e})
<1> DEFINE Sum(s) == SumFunctionOnSet(f, s)
           Wrong(s) == \E x \in s : Sum(s) # f[x] + Sum(s \ {x})
           T == {n \in Nat : \E s \in SUBSET S : Cardinality(s) = n /\ Wrong(s)}
<1>1. \A s \in SUBSET S :
          /\ IsFiniteSet(s) /\ Cardinality(s) \in Nat /\ Sum(s) \in Int
          /\ s # {} => Sum(s) = f[Pick(s)] + Sum(s \ {Pick(s)})
  BY FS_Subset, FS_CardinalityType, SumIsInt, SumPick
<1> HIDE DEF Sum
<1>2. SUFFICES ASSUME T # {} PROVE FALSE
  <2>1. S \in SUBSET S /\ ~Wrong(S)
    BY <1>1, <1>2
  <2> QED
    BY <2>1 DEF Sum
<1>3. PICK n \in T : \A m \in T : n <= m
  BY <1>2, Least
<1>4. PICK s \in SUBSET S : Cardinality(s) = n /\ Wrong(s)
  BY <1>3
<1>5. PICK x \in s : Sum(s) # f[x] + Sum(s \ {x})
  BY <1>4
<1> DEFINE c == Pick(s)
<1>6. /\ c \in s /\ Sum(s) = f[c] + Sum(s \ {c})
      /\ Cardinality(s \ {c}) \in Nat /\ Cardinality(s) = Cardinality(s \ {c}) + 1
  BY <1>1, <1>5, PickSmaller
<1> HIDE DEF c
<1>7. c # x
  BY <1>5, <1>6
<1>9. ASSUME NEW u \in s
      PROVE  ~Wrong(s \ {u})
  <2>1. /\ s \ {u} \in SUBSET S /\ Cardinality(s \ {u}) \in Nat
        /\ IsFiniteSet(s) /\ Cardinality(s) \in Nat
    BY <1>1
  <2>2. Cardinality(s \ {u}) = Cardinality(s) - 1
    BY <2>1, FS_RemoveElement
  <2>3. n \in Nat /\ Cardinality(s \ {u}) < n
    BY <1>4, <2>1, <2>2
  <2>4. Cardinality(s \ {u}) \notin T
    <3> HIDE DEF T
    <3> QED
      BY <1>3, <2>1, <2>3
  <2> QED
    BY <2>1, <2>4
<1>10. Sum(s \ {c}) = f[x] + Sum((s \ {c}) \ {x})
  BY <1>5, <1>6, <1>7, <1>9
<1>11. Sum(s \ {x}) = f[c] + Sum((s \ {x}) \ {c})
  BY <1>5, <1>6, <1>7, <1>9
<1>12. (s \ {c}) \ {x} = (s \ {x}) \ {c} /\ (s \ {x}) \ {c} \in SUBSET S
  OBVIOUS
<1>13. Sum((s \ {x}) \ {c}) \in Int /\ f[c] \in Int /\ f[x] \in Int
  BY <1>1, <1>5, <1>6, <1>12
<1> QED
  BY <1>5, <1>6, <1>10, <1>11, <1>12, <1>13

(* Changing one value changes the sum by as much. *)
LEMMA SumUpdate ==
    ASSUME NEW S, IsFiniteSet(S), NEW f, NEW h, NEW e \in S,
           \A x \in S : f[x] \in Int /\ h[x] \in Int,
           \A x \in S \ {e} : h[x] = f[x]
    PROVE  SumFunctionOnSet(h, S) = SumFunctionOnSet(f, S) + (h[e] - f[e])
<1> DEFINE r == S \ {e}
<1>1. IsFiniteSet(r) /\ \A x \in r : f[x] \in Int /\ f[x] = h[x]
  BY FS_RemoveElement
<1>2. SumFunctionOnSet(h, r) = SumFunctionOnSet(f, r) /\ SumFunctionOnSet(f, r) \in Int
  BY <1>1, SumSame, SumIsInt
<1>3. SumFunctionOnSet(f, S) = f[e] + SumFunctionOnSet(f, r)
  BY SumRemove
<1>4. SumFunctionOnSet(h, S) = h[e] + SumFunctionOnSet(h, r)
  BY SumRemove
<1> QED
  BY <1>2, <1>3, <1>4

(* The sum of two tables is the table of the sums. *)
LEMMA SumPlus ==
    ASSUME NEW S, IsFiniteSet(S), NEW f, NEW g, NEW h,
           \A x \in S : f[x] \in Int /\ g[x] \in Int /\ h[x] = f[x] + g[x]
    PROVE  SumFunctionOnSet(h, S) = SumFunctionOnSet(f, S) + SumFunctionOnSet(g, S)
<1> DEFINE Wrong(s) == SumFunctionOnSet(h, s)
                         # SumFunctionOnSet(f, s) + SumFunctionOnSet(g, s)
           T == {n \in Nat : \E s \in SUBSET S : Cardinality(s) = n /\ Wrong(s)}
<1>1. ASSUME NEW s \in SUBSET S
      PROVE  /\ IsFiniteSet(s) /\ Cardinality(s) \in Nat
             /\ SumFunctionOnSet(f, s) \in Int /\ SumFunctionOnSet(g, s) \in Int
  <2>1. IsFiniteSet(s) /\ Cardinality(s) \in Nat
    BY FS_Subset, FS_CardinalityType
  <2> QED
    BY <2>1, SumIsInt
<1>2. SUFFICES ASSUME T # {} PROVE FALSE
  <2> HIDE DEF Wrong
  <2>1. S \in SUBSET S /\ Cardinality(S) \in Nat
    BY <1>1
  <2>2. ~Wrong(S)
    BY <1>2, <2>1
  <2> QED
    BY <2>2 DEF Wrong
<1>3. PICK n \in T : \A m \in T : n <= m
  BY <1>2, Least
<1>4. PICK s \in SUBSET S : Cardinality(s) = n /\ Wrong(s)
  BY <1>3
<1>5. s # {}
  <2>1. ~Wrong({})
    <3>1. SumFunctionOnSet(f, {}) = 0
      BY SumEmpty
    <3>2. SumFunctionOnSet(g, {}) = 0
      BY SumEmpty
    <3>3. SumFunctionOnSet(h, {}) = 0
      BY SumEmpty
    <3> QED
      BY <3>1, <3>2, <3>3
  <2> HIDE DEF Wrong
  <2> QED
    BY <1>4, <2>1
<1> DEFINE c == Pick(s)
           r == s \ {c}
<1>6. /\ c \in s /\ c \in S /\ r \in SUBSET S
      /\ Cardinality(s) = Cardinality(r) + 1
      /\ Cardinality(r) \in Nat
  BY <1>1, <1>5, PickSmaller
<1>7. ~Wrong(r)
  <2>1. n \in Nat /\ Cardinality(r) < n
    BY <1>4, <1>6
  <2>2. Cardinality(r) \notin T
    <3> HIDE DEF T, r
    <3> QED
      BY <1>3, <1>6, <2>1
  <2> QED
    BY <1>6, <2>2
<1>8. \A x \in s : f[x] \in Int /\ g[x] \in Int /\ h[x] \in Int
  OBVIOUS
<1>9. /\ SumFunctionOnSet(f, s) = f[c] + SumFunctionOnSet(f, r)
      /\ SumFunctionOnSet(g, s) = g[c] + SumFunctionOnSet(g, r)
      /\ SumFunctionOnSet(h, s) = h[c] + SumFunctionOnSet(h, r)
  BY <1>1, <1>6, <1>8, SumRemove
<1>10. SumFunctionOnSet(f, r) \in Int /\ SumFunctionOnSet(g, r) \in Int
  BY <1>1, <1>6
<1>11. h[c] = f[c] + g[c] /\ f[c] \in Int /\ g[c] \in Int
  BY <1>6
<1> HIDE DEF r, c
<1> QED
  BY <1>4, <1>7, <1>9, <1>10, <1>11

(* A sum of zeros. *)
LEMMA SumZero ==
    ASSUME NEW S, IsFiniteSet(S), NEW f, \A x \in S : f[x] = 0
    PROVE  SumFunctionOnSet(f, S) = 0
<1>0. \A x \in S : f[x] \in Int /\ f[x] = f[x] + f[x]
  OBVIOUS
<1>1. SumFunctionOnSet(f, S) = SumFunctionOnSet(f, S) + SumFunctionOnSet(f, S)
  BY <1>0, SumPlus
<1> DEFINE sum == SumFunctionOnSet(f, S)
<1>2. sum \in Int
  BY SumIsInt
<1>3. sum = sum + sum
  BY <1>1
<1> HIDE DEF sum
<1>4. sum = 0
  BY <1>2, <1>3
<1> QED
  BY <1>4 DEF sum

(* A sum of natural numbers is one, and at least each of them. *)
LEMMA SumIsNat ==
    ASSUME NEW S, IsFiniteSet(S), NEW f, \A x \in S : f[x] \in Nat
    PROVE  SumFunctionOnSet(f, S) \in Nat
<1> DEFINE Sum(s) == SumFunctionOnSet(f, s)
           T == {n \in Nat : \E s \in SUBSET S : Cardinality(s) = n /\ Sum(s) \notin Nat}
<1>1. \A s \in SUBSET S :
          /\ IsFiniteSet(s) /\ Cardinality(s) \in Nat
          /\ s # {} => Sum(s) = f[Pick(s)] + Sum(s \ {Pick(s)})
  <2> TAKE s \in SUBSET S
  <2>1. IsFiniteSet(s) /\ Cardinality(s) \in Nat /\ \A x \in s : f[x] \in Int
    BY FS_Subset, FS_CardinalityType
  <2> QED
    BY <2>1, SumPick
<1>2. Sum({}) = 0
  BY SumEmpty
<1> HIDE DEF Sum
<1>3. SUFFICES ASSUME T # {} PROVE FALSE
  <2>1. S \in SUBSET S /\ Sum(S) \in Nat
    BY <1>1, <1>3
  <2> QED
    BY <2>1 DEF Sum
<1>4. PICK n \in T : \A m \in T : n <= m
  BY <1>3, Least
<1>5. PICK s \in SUBSET S : Cardinality(s) = n /\ Sum(s) \notin Nat
  BY <1>4
<1>6. s # {}
  BY <1>2, <1>5
<1> DEFINE r == s \ {Pick(s)}
<1>7. /\ Pick(s) \in s /\ r \in SUBSET S
      /\ Cardinality(s) = Cardinality(r) + 1
      /\ Cardinality(r) \in Nat
  BY <1>1, <1>6, PickSmaller
<1>8. Sum(r) \in Nat
  <2>1. n \in Nat /\ Cardinality(r) < n
    BY <1>5, <1>7
  <2>2. Cardinality(r) \notin T
    <3> HIDE DEF T, r
    <3> QED
      BY <1>4, <1>7, <2>1
  <2> QED
    BY <1>7, <2>2
<1> QED
  BY <1>1, <1>5, <1>6, <1>7, <1>8

LEMMA SumAtLeast ==
    ASSUME NEW S, IsFiniteSet(S), NEW f, \A x \in S : f[x] \in Nat, NEW e \in S
    PROVE  f[e] <= SumFunctionOnSet(f, S)
<1>1. SumFunctionOnSet(f, S \ {e}) \in Nat
  BY FS_RemoveElement, SumIsNat
<1>2. SumFunctionOnSet(f, S) = f[e] + SumFunctionOnSet(f, S \ {e})
  BY SumRemove
<1> QED
  BY <1>1, <1>2

(* A sum of one value. *)
LEMMA SumOfPoint ==
    ASSUME NEW S, IsFiniteSet(S), NEW e \in S, NEW v \in Int, NEW f,
           \A x \in S : f[x] = IF x = e THEN v ELSE 0
    PROVE  SumFunctionOnSet(f, S) = v
  <1> DEFINE zero == [x \in S |-> 0]
  <1>1. SumFunctionOnSet(zero, S) = 0
    BY SumZero
  <1>2. \A x \in S : zero[x] \in Int /\ f[x] \in Int
    OBVIOUS
  <1>3. \A x \in S \ {e} : f[x] = zero[x]
    OBVIOUS
  <1>4. zero[e] = 0 /\ f[e] = v
    OBVIOUS
  <1> HIDE DEF zero
  <1>5. SumFunctionOnSet(f, S) = SumFunctionOnSet(zero, S) + (f[e] - zero[e])
    BY <1>2, <1>3, SumUpdate
  <1> QED BY <1>1, <1>4, <1>5

(* Zeros may be left out of a sum. *)
LEMMA SumWithoutZero ==
    ASSUME NEW S, IsFiniteSet(S), NEW f, \A x \in S : f[x] \in Int,
           NEW e, NEW X \in SUBSET {e}, \A x \in X : f[x] = 0
    PROVE  SumFunctionOnSet(f, S \ X) = SumFunctionOnSet(f, S)
  <1>1. CASE X \cap S = {}
    <2>1. S \ X = S
      BY <1>1
    <2> QED BY <2>1
  <1>2. CASE X \cap S # {}
    <2>1. e \in S /\ f[e] = 0 /\ S \ X = S \ {e}
      BY <1>2
    <2>2. SumFunctionOnSet(f, S) = f[e] + SumFunctionOnSet(f, S \ {e})
      BY <2>1, SumRemove
    <2>3. IsFiniteSet(S \ {e}) /\ \A x \in S \ {e} : f[x] \in Int
      BY FS_RemoveElement
    <2>4. SumFunctionOnSet(f, S \ {e}) \in Int
      BY <2>3, SumIsInt
    <2> QED BY <2>1, <2>2, <2>4
  <1> QED BY <1>1, <1>2

(* Two values get smaller, some of them to nothing. *)
LEMMA TwoParts ==
    ASSUME NEW D, IsFiniteSet(D), NEW b \in D, NEW s \in D, b # s,
           NEW X \in SUBSET {b, s}, NEW f, NEW h, NEW db \in Int, NEW ds \in Int,
           \A i \in D : f[i] \in Int,
           \A i \in D \ {b, s} : h[i] = f[i],
           IF b \in X THEN f[b] = db ELSE h[b] = f[b] - db,
           IF s \in X THEN f[s] = ds ELSE h[s] = f[s] - ds
    PROVE  SumFunctionOnSet(h, D \ X) = SumFunctionOnSet(f, D) - db - ds
  <1> DEFINE g == [i \in D |-> IF i = b THEN f[b] - db ELSE f[i]]
             k == [i \in D |-> IF i = b THEN f[b] - db
                               ELSE IF i = s THEN f[s] - ds ELSE f[i]]
  <1>1. /\ \A i \in D : g[i] \in Int /\ k[i] \in Int
        /\ \A i \in D \ {b} : g[i] = f[i]
        /\ \A i \in D \ {s} : k[i] = g[i]
        /\ g[b] = f[b] - db /\ g[s] = f[s] /\ k[s] = f[s] - ds
    OBVIOUS
  <1>2. /\ \A i \in X : k[i] = 0
        /\ \A i \in D \ X : k[i] = h[i]
    OBVIOUS
  <1> HIDE DEF g, k
  <1>3. SumFunctionOnSet(f, D) \in Int
    BY SumIsInt
  <1>4. SumFunctionOnSet(g, D) = SumFunctionOnSet(f, D) + (g[b] - f[b])
    <2>1. \A i \in D : f[i] \in Int /\ g[i] \in Int
      BY <1>1
    <2>2. \A i \in D \ {b} : g[i] = f[i]
      BY <1>1
    <2> QED BY ONLY <2>1, <2>2, SumUpdate, IsFiniteSet(D), b \in D
  <1>5. SumFunctionOnSet(k, D) = SumFunctionOnSet(g, D) + (k[s] - g[s])
    BY <1>1, SumUpdate
  <1> DEFINE E == D \ (X \cap {b})
  <1>6. SumFunctionOnSet(k, E) = SumFunctionOnSet(k, D)
    BY <1>1, <1>2, SumWithoutZero
  <1>7. IsFiniteSet(E) /\ \A i \in E : k[i] \in Int
    BY <1>1, FS_Subset
  <1>8. E \ (X \cap {s}) = D \ X
    OBVIOUS
  <1> HIDE DEF E
  <1>9. SumFunctionOnSet(k, D \ X) = SumFunctionOnSet(k, E)
    <2> DEFINE Y == X \cap {s}
    <2>1. Y \in SUBSET {s} /\ \A i \in Y : k[i] = 0
      BY <1>2
    <2>2. E \ Y = D \ X
      BY <1>8
    <2> HIDE DEF Y
    <2>3. SumFunctionOnSet(k, E \ Y) = SumFunctionOnSet(k, E)
      BY <1>7, <2>1, SumWithoutZero
    <2> QED BY <2>2, <2>3
  <1>10. IsFiniteSet(D \ X) /\ \A i \in D \ X : k[i] \in Int /\ k[i] = h[i]
    BY <1>1, <1>2, FS_Subset
  <1>11. SumFunctionOnSet(k, D \ X) = SumFunctionOnSet(h, D \ X)
    BY <1>10, SumSame
  <1>12. SumFunctionOnSet(h, D \ X) = SumFunctionOnSet(f, D) + (g[b] - f[b]) + (k[s] - g[s])
    BY <1>1, <1>3, <1>4, <1>5, <1>6, <1>9, <1>11
  <1>13. g[b] - f[b] = -db /\ k[s] - g[s] = -ds
    BY <1>1
  <1> QED BY <1>3, <1>12, <1>13
=============================================================================

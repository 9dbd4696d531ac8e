----------------------------- MODULE FoldProofs -----------------------------
(***************************************************************************)
(* Induction, recursion and sums for the proofs of the other modules, with *)
(* sets and functions in the place of operators: a property is the set of  *)
(* what has it, a step of a recursion is a function.                       *)
(***************************************************************************)
EXTENDS Integers, FiniteSets, FiniteSetsExt, SequencesExt, FiniteSetTheorems, WellFoundedInduction, TLAPS

\* A set of numbers with a member has a least one.
LEMMA Least ==
    ASSUME NEW S \in SUBSET Nat, S # {}
    PROVE  \E k \in S : \A j \in S : k <= j
<1>1. PICK R : R = OpToRel(<, Nat)
  OBVIOUS
<1>2. \A x, y \in Nat : <<x, y>> \in R <=> x < y
  BY <1>1 DEF OpToRel
<1>3. IsWellFoundedOn(R, Nat)
  BY <1>1, NatLessThanWellFounded
<1>4. PICK x \in S : \A y \in S : <<y, x>> \notin R
  BY <1>3, WFMin
<1>5. ASSUME NEW j \in S PROVE x <= j
  <2>1. x \in Nat /\ j \in Nat
    BY <1>4
  <2>2. ~(j < x)
    BY <1>2, <1>4, <2>1
  <2> QED  BY <2>1, <2>2
<1> QED  BY <1>4, <1>5

\* Induction over the numbers, for a set of them.
LEMMA CountsUp ==
    ASSUME NEW S \in SUBSET Nat, 0 \in S, \A n \in S : n + 1 \in S
    PROVE  \A n \in Nat : n \in S
<1> SUFFICES ASSUME Nat \ S # {} PROVE FALSE
  OBVIOUS
<1>1. PICK k \in Nat \ S : \A j \in Nat \ S : k <= j
  <2>1. Nat \ S \in SUBSET Nat
    OBVIOUS
  <2> QED  BY <2>1, Least
<1>2. k # 0
  BY <1>1
<1>3. k - 1 \in Nat /\ k - 1 \in S
  BY <1>1, <1>2
<1> QED  BY <1>1, <1>3

\* Recursion over the numbers up to h: step[<<n, x>>] is what step n makes of x.
Iteration(f, h, b, step) == f[0] = b /\ \A n \in 0 .. h : n # 0 => f[n] = step[<<n, f[n - 1]>>]

LEMMA Iterates ==
    ASSUME NEW T, NEW b \in T, NEW h \in Nat, NEW step \in [Nat \X T -> T]
    PROVE  \E f \in [0 .. h -> T] : Iteration(f, h, b, step)
<1> DEFINE Good(f, m) == f[0] = b /\ \A n \in 0 .. m : n # 0 => f[n] = step[<<n, f[n - 1]>>]
<1>1. PICK C : C = {m \in Nat : \E f \in [0 .. m -> T] : Good(f, m)}
  OBVIOUS
<1>2. C \in SUBSET Nat
  BY <1>1
<1>3. 0 \in C
  <2>1. PICK f : f = [n \in 0 .. 0 |-> b]
    OBVIOUS
  <2>2. f \in [0 .. 0 -> T] /\ f[0] = b
    BY <2>1
  <2>3. Good(f, 0)
    BY <2>2
  <2> QED  BY <1>1, <2>2, <2>3
<1>4. ASSUME NEW m \in C PROVE m + 1 \in C
  <2>1. m \in Nat
    BY <1>2
  <2>2. PICK f \in [0 .. m -> T] : Good(f, m)
    BY <1>1
  <2>3. PICK e : e = [n \in 0 .. m + 1 |-> IF n = m + 1 THEN step[<<m + 1, f[m]>>] ELSE f[n]]
    OBVIOUS
  <2>4. e[m + 1] = step[<<m + 1, f[m]>>] /\ \A n \in 0 .. m : e[n] = f[n]
    BY <2>1, <2>3
  <2>5. f[m] \in T /\ step[<<m + 1, f[m]>>] \in T
    <3>1. m \in 0 .. m /\ <<m + 1, f[m]>> \in Nat \X T
      BY <2>1
    <3> QED  BY <3>1
  <2>6. e \in [0 .. m + 1 -> T]
    <3>1. \A n \in 0 .. m + 1 : n # m + 1 => n \in 0 .. m
      BY <2>1
    <3> QED  BY <2>3, <2>5, <3>1
  <2>7. e[0] = b
    BY <2>1, <2>2, <2>4
  <2>8. ASSUME NEW n \in 0 .. m + 1, n # 0 PROVE e[n] = step[<<n, e[n - 1]>>]
    <3>1. n - 1 \in 0 .. m /\ e[n - 1] = f[n - 1]
      BY <2>1, <2>4, <2>8
    <3>2. CASE n = m + 1
      <4>1. n - 1 = m
        BY <2>1, <3>2
      <4> QED  BY <2>4, <3>1, <3>2, <4>1
    <3>3. CASE n # m + 1
      <4>1. n \in 0 .. m
        BY <2>1, <3>3
      <4> QED  BY <2>2, <2>4, <2>8, <3>1, <4>1
    <3> QED  BY <3>2, <3>3
  <2>9. Good(e, m + 1)
    BY <2>7, <2>8
  <2> HIDE DEF Good
  <2> QED  BY <1>1, <2>1, <2>6, <2>9
<1>5. h \in C
  BY <1>2, <1>3, <1>4, CountsUp
<1> QED  BY <1>1, <1>5 DEF Iteration

\* Induction over the subsets of a finite set.
LEMMA BuildsUp ==
    ASSUME NEW S, IsFiniteSet(S), NEW C \in SUBSET (SUBSET S), {} \in C,
           \A s \in SUBSET S : s # {} /\ (\A x \in s : s \ {x} \in C) => s \in C
    PROVE  \A s \in SUBSET S : s \in C
<1>1. PICK N : N = {n \in Nat : \A s \in SUBSET S : Cardinality(s) = n => s \in C}
  OBVIOUS
<1>2. 0 \in N
  <2>1. ASSUME NEW s \in SUBSET S, Cardinality(s) = 0 PROVE s \in C
    <3>1. s = {}
      BY <2>1, FS_Subset, FS_EmptySet
    <3> QED  BY <3>1
  <2> QED  BY <1>1, <2>1
<1>3. ASSUME NEW n \in N PROVE n + 1 \in N
  <2>1. n \in Nat /\ \A s \in SUBSET S : Cardinality(s) = n => s \in C
    BY <1>1, <1>3
  <2>2. ASSUME NEW s \in SUBSET S, Cardinality(s) = n + 1 PROVE s \in C
    <3>1. IsFiniteSet(s)
      BY FS_Subset
    <3>2. s # {}
      BY <2>1, <2>2, FS_EmptySet
    <3>3. ASSUME NEW x \in s PROVE s \ {x} \in C
      <4>1. Cardinality(s \ {x}) = n
        <5>1. Cardinality(s \ {x}) = Cardinality(s) - 1
          BY <3>1, FS_RemoveElement
        <5> QED  BY <2>1, <2>2, <5>1
      <4> QED  BY <2>1, <4>1
    <3> QED  BY <3>2, <3>3
  <2> QED  BY <1>1, <2>1, <2>2
<1>4. \A n \in Nat : n \in N
  BY <1>1, <1>2, <1>3, CountsUp
<1>5. ASSUME NEW s \in SUBSET S PROVE s \in C
  <2>1. Cardinality(s) \in Nat
    BY FS_Subset, FS_CardinalityType
  <2> QED  BY <1>1, <1>4, <2>1
<1> QED  BY <1>5

\* A finite set of numbers with a member has a greatest one.
LEMMA Greatest ==
    ASSUME NEW S \in SUBSET Nat, IsFiniteSet(S), S # {}
    PROVE  \E k \in S : \A j \in S : k >= j
<1>1. PICK C : C = {s \in SUBSET S : s # {} => \E k \in s : \A j \in s : k >= j}
  OBVIOUS
<1>2. C \in SUBSET (SUBSET S) /\ {} \in C
  BY <1>1
<1>3. ASSUME NEW s \in SUBSET S, s # {}, \A x \in s : s \ {x} \in C PROVE s \in C
  <2>1. PICK x \in s : TRUE
    BY <1>3
  <2>2. CASE s \ {x} = {}
    <3>1. \A j \in s : j = x /\ x \in Nat
      BY <2>1, <2>2
    <3>2. \A j \in s : x >= j
      BY <3>1
    <3> QED  BY <1>1, <2>1, <3>2
  <2>3. CASE s \ {x} # {}
    <3>1. PICK k \in s \ {x} : \A j \in s \ {x} : k >= j
      BY <1>1, <1>3, <2>3
    <3>2. x \in Nat /\ k \in Nat /\ \A j \in s : j \in Nat
      OBVIOUS
    <3>3. CASE k >= x
      <4>1. \A j \in s : k >= j
        BY <3>1, <3>3
      <4> QED  BY <1>1, <4>1
    <3>4. CASE x >= k
      <4>1. \A j \in s : x >= j
        BY <3>1, <3>2, <3>4
      <4> QED  BY <1>1, <2>1, <4>1
    <3> QED  BY <3>2, <3>3, <3>4
  <2> QED  BY <2>2, <2>3
<1>4. \A s \in SUBSET S : s \in C
  BY <1>2, <1>3, BuildsUp
<1> QED  BY <1>1, <1>4

\* A function on the subsets of a finite set, defined by taking out one chosen element.
Recursion(g, S, base, ch, step) ==
    \A s \in SUBSET S : g[s] = IF s = {} THEN base ELSE step[<<ch[s], g[s \ {ch[s]}]>>]

LEMMA Recurses ==
    ASSUME NEW S, IsFiniteSet(S), NEW T, NEW base \in T, NEW step \in [S \X T -> T],
           NEW ch, \A s \in SUBSET S : s # {} => ch[s] \in s
    PROVE  \E g \in [SUBSET S -> T] : Recursion(g, S, base, ch, step)
<1> DEFINE Value(g, s) == IF s = {} THEN base ELSE step[<<ch[s], g[s \ {ch[s]}]>>]
           UpTo(g, n) == \A s \in SUBSET S : Cardinality(s) <= n => g[s] = Value(g, s)
<1>1. ASSUME NEW g \in [SUBSET S -> T], NEW s \in SUBSET S PROVE Value(g, s) \in T
  BY <1>1
<1>2. ASSUME NEW s \in SUBSET S
      PROVE  /\ Cardinality(s) \in Nat
             /\ s # {} => s \ {ch[s]} \in SUBSET S /\ Cardinality(s \ {ch[s]}) = Cardinality(s) - 1
             /\ Cardinality(s) <= 0 => s = {}
  <2>1. IsFiniteSet(s)
    BY FS_Subset
  <2>2. Cardinality(s) \in Nat /\ (Cardinality(s) = 0 <=> s = {})
    BY <2>1, FS_CardinalityType, FS_EmptySet
  <2>3. ASSUME s # {} PROVE Cardinality(s \ {ch[s]}) = Cardinality(s) - 1
    <3>1. PICK x \in s : x = ch[s]
      BY <2>3
    <3>2. Cardinality(s \ {x}) = Cardinality(s) - 1
      BY <2>1, FS_RemoveElement
    <3> QED  BY <3>1, <3>2
  <2> QED  BY <2>2, <2>3
<1>3. PICK N : N = {n \in Nat : \E g \in [SUBSET S -> T] : UpTo(g, n)}
  OBVIOUS
<1>4. 0 \in N
  <2>1. PICK g : g = [s \in SUBSET S |-> base]
    OBVIOUS
  <2>2. g \in [SUBSET S -> T]
    BY <2>1
  <2>3. UpTo(g, 0)
    BY <1>2, <2>1
  <2> QED  BY <1>3, <2>2, <2>3
<1>5. ASSUME NEW n \in N PROVE n + 1 \in N
  <2>1. n \in Nat
    BY <1>3
  <2>2. PICK g \in [SUBSET S -> T] : UpTo(g, n)
    BY <1>3
  <2>3. PICK h : h = [s \in SUBSET S |-> IF Cardinality(s) <= n THEN g[s] ELSE Value(g, s)]
    OBVIOUS
  <2>4. h \in [SUBSET S -> T]
    BY <1>1, <2>3
  <2>5. ASSUME NEW s \in SUBSET S, Cardinality(s) <= n + 1 PROVE h[s] = Value(h, s)
    <3>1. h[s] = Value(g, s)
      BY <2>2, <2>3
    <3>2. CASE s = {}
      BY <3>1, <3>2
    <3>3. CASE s # {}
      <4>1. PICK r \in SUBSET S : r = s \ {ch[s]}
        BY <1>2, <3>3
      <4>2. Cardinality(r) <= n
        BY <1>2, <2>1, <2>5, <3>3, <4>1
      <4>3. h[r] = g[r]
        BY <2>3, <4>2
      <4> QED  BY <3>1, <3>3, <4>1, <4>3
    <3> QED  BY <3>2, <3>3
  <2>6. UpTo(h, n + 1) /\ n + 1 \in Nat
    BY <2>1, <2>5
  <2> HIDE DEF UpTo
  <2> QED  BY <1>3, <2>4, <2>6
<1>6. \A n \in Nat : n \in N
  BY <1>3, <1>4, <1>5, CountsUp
<1>7. PICK m \in Nat : m = Cardinality(S)
  BY FS_CardinalityType
<1>8. PICK g \in [SUBSET S -> T] : UpTo(g, m)
  BY <1>3, <1>6
<1>9. ASSUME NEW s \in SUBSET S PROVE g[s] = Value(g, s)
  <2>1. Cardinality(s) <= m
    BY <1>7, FS_Subset
  <2> QED  BY <1>8, <2>1
<1> QED  BY <1>9 DEF Recursion

-----------------------------------------------------------------------------
(* Sums.                                                                   *)

\* The sum of the numbers f gives to the members of S.
Total(f, S) == MapThenSumSet(LAMBDA x : f[x], S)

LEMMA SumIsTotal ==
    ASSUME NEW f, NEW S, DOMAIN f = S
    PROVE  SumFunction(f) = Total(f, S)
BY DEF SumFunction, SumFunctionOnSet, FoldFunctionOnSet, MapThenSumSet, Total

\* The function a sum over S is computed by.
Summing(g, f, S) ==
    g = [s \in SUBSET S |-> IF s = {} THEN 0 ELSE LET x == CHOOSE x \in s : TRUE IN f[x] + g[s \ {x}]]

LEMMA TotalSteps ==
    ASSUME NEW S, IsFiniteSet(S), NEW f, \A x \in S : f[x] \in Int
    PROVE  \E g \in [SUBSET S -> Int] : Summing(g, f, S) /\ Total(f, S) = g[S]
<1>1. PICK ch, step : /\ ch = [s \in SUBSET S |-> CHOOSE x \in s : TRUE]
                      /\ step = [p \in S \X Int |-> f[p[1]] + p[2]]
  OBVIOUS
<1>2. \A s \in SUBSET S : s # {} => ch[s] \in s
  BY <1>1
<1>3. step \in [S \X Int -> Int] /\ \A x \in S, n \in Int : step[<<x, n>>] = f[x] + n
  BY <1>1
<1>4. PICK g \in [SUBSET S -> Int] : Recursion(g, S, 0, ch, step)
  <2>1. PICK z \in Int : z = 0
    OBVIOUS
  <2>2. \E g \in [SUBSET S -> Int] : Recursion(g, S, z, ch, step)
    BY <1>2, <1>3, Recurses
  <2> QED  BY <2>1, <2>2
<1>5. ASSUME NEW s \in SUBSET S
      PROVE  g[s] = IF s = {} THEN 0 ELSE LET x == CHOOSE x \in s : TRUE IN f[x] + g[s \ {x}]
  <2>1. CASE s = {}
    BY <1>4, <2>1 DEF Recursion
  <2>2. CASE s # {}
    <3>1. PICK x \in s : x = ch[s] /\ x = CHOOSE y \in s : TRUE
      BY <1>1, <1>2, <2>2
    <3>2. g[s] = step[<<x, g[s \ {x}]>>]
      BY <1>4, <2>2, <3>1 DEF Recursion
    <3>3. g[s \ {x}] \in Int /\ x \in S
      OBVIOUS
    <3>4. g[s] = f[x] + g[s \ {x}]
      BY <1>3, <3>2, <3>3
    <3> QED  BY <2>2, <3>1, <3>4
  <2> QED  BY <2>1, <2>2
<1>6. Summing(g, f, S)
  BY <1>5 DEF Summing
<1>7. PICK c : c = CHOOSE iter : Summing(iter, f, S)
  OBVIOUS
<1>8. Summing(c, f, S)
  BY <1>6, <1>7
<1>9. Total(f, S) = c[S]
  BY <1>7 DEF Total, MapThenSumSet, MapThenFoldSet, Summing
<1>10. c = g
  <2>1. PICK C : C = {s \in SUBSET S : c[s] = g[s]}
    OBVIOUS
  <2>2. /\ \A s \in SUBSET S : g[s] = IF s = {} THEN 0 ELSE f[CHOOSE x \in s : TRUE] + g[s \ {CHOOSE x \in s : TRUE}]
        /\ \A s \in SUBSET S : c[s] = IF s = {} THEN 0 ELSE f[CHOOSE x \in s : TRUE] + c[s \ {CHOOSE x \in s : TRUE}]
    BY <1>6, <1>8 DEF Summing
  <2>3. {} \in C
    BY <2>1, <2>2
  <2>4. ASSUME NEW s \in SUBSET S, s # {}, \A x \in s : s \ {x} \in C PROVE s \in C
    <3>1. PICK x \in s : x = CHOOSE y \in s : TRUE
      BY <2>4
    <3>2. g[s] = f[x] + g[s \ {x}] /\ c[s] = f[x] + c[s \ {x}]
      BY <2>2, <2>4, <3>1
    <3>3. c[s \ {x}] = g[s \ {x}]
      BY <2>1, <2>4
    <3> QED  BY <2>1, <3>2, <3>3
  <2>5. \A s \in SUBSET S : s \in C
    <3>1. C \in SUBSET (SUBSET S)
      BY <2>1
    <3> QED  BY <2>3, <2>4, <3>1, BuildsUp
  <2>6. \A s \in SUBSET S : c[s] = g[s]
    BY <2>1, <2>5
  <2>7. c = [s \in SUBSET S |-> c[s]]
    BY <1>8 DEF Summing
  <2> QED  BY <2>6, <2>7
<1> QED  BY <1>8, <1>9, <1>10

\* The functions two sums are computed by agree where both are defined.
LEMMA SummingAgrees ==
    ASSUME NEW S, IsFiniteSet(S), NEW R \in SUBSET S, NEW f, NEW e, \A x \in R : f[x] = e[x],
           NEW g, Summing(g, f, S), NEW h, Summing(h, e, R)
    PROVE  \A s \in SUBSET R : g[s] = h[s]
<1>1. PICK C : C = {s \in SUBSET R : g[s] = h[s]}
  OBVIOUS
<1>2. /\ \A s \in SUBSET S : g[s] = IF s = {} THEN 0 ELSE f[CHOOSE x \in s : TRUE] + g[s \ {CHOOSE x \in s : TRUE}]
      /\ \A s \in SUBSET R : h[s] = IF s = {} THEN 0 ELSE e[CHOOSE x \in s : TRUE] + h[s \ {CHOOSE x \in s : TRUE}]
  BY DEF Summing
<1>3. {} \in C
  BY <1>1, <1>2
<1>4. ASSUME NEW s \in SUBSET R, s # {}, \A x \in s : s \ {x} \in C PROVE s \in C
  <2>1. PICK x \in s : x = CHOOSE y \in s : TRUE
    BY <1>4
  <2>2. s \in SUBSET S
    OBVIOUS
  <2>3. g[s] = f[x] + g[s \ {x}] /\ h[s] = e[x] + h[s \ {x}]
    BY <1>2, <1>4, <2>1, <2>2
  <2>4. g[s \ {x}] = h[s \ {x}]
    BY <1>1, <1>4
  <2> QED  BY <1>1, <2>3, <2>4
<1>5. IsFiniteSet(R) /\ C \in SUBSET (SUBSET R)
  BY <1>1, FS_Subset
<1>6. \A s \in SUBSET R : s \in C
  BY <1>3, <1>4, <1>5, BuildsUp
<1> QED  BY <1>1, <1>6

\* A sum is a number; it depends on the values of its members only; any member can be
\* taken out of it.
LEMMA TotalType ==
    ASSUME NEW S, IsFiniteSet(S), NEW f, \A x \in S : f[x] \in Int
    PROVE  Total(f, S) \in Int
<1>1. PICK g \in [SUBSET S -> Int] : Summing(g, f, S) /\ Total(f, S) = g[S]
  BY TotalSteps
<1>2. S \in SUBSET S
  OBVIOUS
<1> QED  BY <1>1, <1>2

LEMMA TotalNone ==
    ASSUME NEW f
    PROVE  Total(f, {}) = 0
<1>1. PICK g \in [SUBSET {} -> Int] : Summing(g, f, {}) /\ Total(f, {}) = g[{}]
  BY FS_EmptySet, TotalSteps
<1> QED  BY <1>1 DEF Summing

LEMMA TotalSame ==
    ASSUME NEW S, IsFiniteSet(S), NEW f, NEW e, \A x \in S : f[x] \in Int /\ e[x] = f[x]
    PROVE  Total(f, S) = Total(e, S)
<1>1. \A x \in S : e[x] \in Int
  OBVIOUS
<1>2. PICK g \in [SUBSET S -> Int] : Summing(g, f, S) /\ Total(f, S) = g[S]
  BY TotalSteps
<1>3. PICK h \in [SUBSET S -> Int] : Summing(h, e, S) /\ Total(e, S) = h[S]
  BY <1>1, TotalSteps
<1>4. S \in SUBSET S
  OBVIOUS
<1>5. g[S] = h[S]
  BY <1>2, <1>3, <1>4, SummingAgrees
<1> QED  BY <1>2, <1>3, <1>5

LEMMA TotalTakesOut ==
    ASSUME NEW S, IsFiniteSet(S), NEW f, \A x \in S : f[x] \in Int, NEW y \in S
    PROVE  Total(f, S) = f[y] + Total(f, S \ {y})
<1>1. PICK g \in [SUBSET S -> Int] : Summing(g, f, S) /\ Total(f, S) = g[S]
  BY TotalSteps
<1>2. \A s \in SUBSET S : g[s] = IF s = {} THEN 0 ELSE f[CHOOSE x \in s : TRUE] + g[s \ {CHOOSE x \in s : TRUE}]
  BY <1>1 DEF Summing
<1>3. ASSUME NEW s \in SUBSET S PROVE Total(f, s) = g[s]
  <2>1. IsFiniteSet(s) /\ \A x \in s : f[x] \in Int
    BY FS_Subset
  <2>2. PICK h \in [SUBSET s -> Int] : Summing(h, f, s) /\ Total(f, s) = h[s]
    BY <2>1, TotalSteps
  <2>3. s \in SUBSET s
    OBVIOUS
  <2>4. g[s] = h[s]
    BY <1>1, <2>2, <2>3, SummingAgrees
  <2> QED  BY <2>2, <2>4
<1>4. PICK C : C = {s \in SUBSET S : \A x \in s : g[s] = f[x] + g[s \ {x}]}
  OBVIOUS
<1>5. {} \in C /\ C \in SUBSET (SUBSET S)
  BY <1>4
<1>6. ASSUME NEW s \in SUBSET S, s # {}, \A x \in s : s \ {x} \in C PROVE s \in C
  <2>1. PICK x \in s : x = CHOOSE z \in s : TRUE
    BY <1>6
  <2>2. g[s] = f[x] + g[s \ {x}]
    BY <1>2, <1>6, <2>1
  <2>3. ASSUME NEW z \in s, z # x PROVE g[s] = f[z] + g[s \ {z}]
    <3>1. PICK a, b, c : a = s \ {x} /\ b = s \ {z} /\ c = s \ {x, z}
      OBVIOUS
    <3>2. a \in C /\ b \in C /\ z \in a /\ x \in b /\ a \ {z} = c /\ b \ {x} = c /\ c \in SUBSET S
      BY <1>6, <2>3, <3>1
    <3>3. g[a] = f[z] + g[c] /\ g[b] = f[x] + g[c]
      BY <1>4, <3>2
    <3>4. g[c] \in Int /\ f[x] \in Int /\ f[z] \in Int
      BY <3>2
    <3> QED  BY <2>2, <3>1, <3>3, <3>4
  <2> QED  BY <1>4, <2>2, <2>3
<1>7. S \in C
  <2>1. \A s \in SUBSET S : s \in C
    BY <1>5, <1>6, BuildsUp
  <2> QED  BY <2>1
<1>8. g[S] = f[y] + g[S \ {y}]
  BY <1>4, <1>7
<1> QED  BY <1>1, <1>3, <1>8

\* One member changes its value.
LEMMA TotalChanges ==
    ASSUME NEW S, IsFiniteSet(S), NEW f, NEW e, NEW y \in S,
           \A x \in S : f[x] \in Int, \A x \in S \ {y} : e[x] = f[x], e[y] \in Int
    PROVE  Total(e, S) = Total(f, S) + e[y] - f[y]
<1>1. \A x \in S : e[x] \in Int
  OBVIOUS
<1>2. Total(f, S) = f[y] + Total(f, S \ {y})
  BY TotalTakesOut
<1>3. Total(e, S) = e[y] + Total(e, S \ {y})
  BY <1>1, TotalTakesOut
<1>4. PICK R : R = S \ {y}
  OBVIOUS
<1>5. IsFiniteSet(R) /\ \A x \in R : f[x] \in Int /\ e[x] = f[x]
  BY <1>4, FS_Subset
<1>6. Total(f, R) = Total(e, R) /\ Total(f, R) \in Int
  BY <1>5, TotalSame, TotalType
<1> QED  BY <1>2, <1>3, <1>4, <1>6

\* One member more.
LEMMA TotalAdds ==
    ASSUME NEW S, IsFiniteSet(S), NEW f, NEW e, NEW y, y \notin S, NEW R, R = S \cup {y},
           \A x \in S : f[x] \in Int, \A x \in S : e[x] = f[x], e[y] \in Int
    PROVE  Total(e, R) = Total(f, S) + e[y]
<1>1. PICK Q : Q = R \ {y}
  OBVIOUS
<1>2. IsFiniteSet(R) /\ y \in R /\ Q = S /\ \A x \in R : e[x] \in Int
  BY <1>1, FS_AddElement
<1>3. Total(e, R) = e[y] + Total(e, R \ {y})
  BY <1>2, TotalTakesOut
<1>4. Total(f, S) = Total(e, S)
  BY TotalSame
<1>5. Total(f, S) \in Int
  BY TotalType
<1>6. Total(e, R) = e[y] + Total(e, S)
  BY <1>1, <1>2, <1>3
<1> QED  BY <1>4, <1>5, <1>6
=============================================================================

----------------------------- MODULE DictProofs -----------------------------
(***************************************************************************)
(* Proofs about the dictionary, for any keys, hashes and values, tables of *)
(* any size and any sequence of calls: a probe sequence visits every slot, *)
(* a lookup finds what was stored, an enumeration misses nothing.          *)
(***************************************************************************)
EXTENDS Dict, DictValues, FoldProofs

-----------------------------------------------------------------------------
(* Remainders and powers of two.                                           *)

LEMMA Divides ==
    ASSUME NEW n \in Int, NEW d \in Nat, d > 0
    PROVE  n \div d \in Int /\ n % d \in 0 .. d - 1 /\ n = d * (n \div d) + (n % d)
OBVIOUS

\* A number has one remainder.
LEMMA Remainder ==
    ASSUME NEW d \in Nat, NEW q \in Int, NEW r \in Int, NEW a \in 0 .. d - 1, NEW b \in 0 .. d - 1,
           a + d * q = b + d * r
    PROVE  a = b
OBVIOUS

LEMMA Multiple ==
    ASSUME NEW d \in Nat, d > 0, NEW q \in Int, NEW n \in Int, n = d * q
    PROVE  n % d = 0
<1>1. n % d \in 0 .. d - 1 /\ n \div d \in Int /\ n = d * (n \div d) + (n % d)
  BY Divides
<1>2. PICK a, r : a = n % d /\ r = n \div d
  OBVIOUS
<1>3. a \in 0 .. d - 1 /\ r \in Int /\ 0 \in 0 .. d - 1 /\ 0 + d * q = a + d * r
  BY <1>1, <1>2
<1>4. 0 = a
  BY <1>3, Remainder
<1> QED  BY <1>2, <1>4

LEMMA Doubled ==
    ASSUME NEW h \in Nat, h > 0, PowerOfTwo(h)
    PROVE  PowerOfTwo(2 * h)
<1> SUFFICES ASSUME NEW d \in 1 .. 2 * h, (2 * h) % d = 0, d % 2 = 1 PROVE d = 1
  BY DEF PowerOfTwo
<1>1. d \in Nat /\ d > 0
  OBVIOUS
<1>2. PICK q \in Int : 2 * h = d * q
  <2>1. PICK n \in Int : n = 2 * h
    OBVIOUS
  <2>2. n \div d \in Int /\ n % d \in 0 .. d - 1 /\ n = d * (n \div d) + (n % d)
    BY <1>1, Divides
  <2>3. n % d = 0
    BY <2>1
  <2>4. PICK q \in Int : q = n \div d
    BY <2>2
  <2> QED  BY <1>1, <2>1, <2>2, <2>3, <2>4
<1>3. PICK c \in Int : d = 2 * c + 1
  OBVIOUS
<1>4. q = 2 * (h - c * q)
  BY <1>2, <1>3
<1>5. PICK p \in Int : q = 2 * p
  <2>1. h - c * q \in Int
    OBVIOUS
  <2> QED  BY <1>4, <2>1
<1>6. h = d * p
  BY <1>1, <1>2, <1>5
<1>7. h % d = 0
  BY <1>1, <1>6, Multiple
<1>8. d <= h
  <2>1. p > 0
    BY <1>1, <1>6
  <2> QED  BY <1>1, <1>6, <2>1
<1> QED  BY <1>1, <1>7, <1>8 DEF PowerOfTwo

LEMMA Halved ==
    ASSUME NEW m \in Nat, m > 1, PowerOfTwo(m)
    PROVE  \E h \in Nat : m = 2 * h /\ h > 0 /\ PowerOfTwo(h)
<1>1. m % m = 0
  <2>1. m = m * 1
    OBVIOUS
  <2> QED  BY <2>1, Multiple
<1>2. m % 2 # 1
  BY <1>1 DEF PowerOfTwo
<1>3. PICK h \in Nat : m = 2 * h /\ h > 0
  BY <1>2
<1>4. ASSUME NEW d \in 1 .. h, h % d = 0, d % 2 = 1 PROVE d = 1
  <2>1. d \in Nat /\ d > 0 /\ d \in 1 .. m
    BY <1>3
  <2>2. h \div d \in Int /\ h % d \in 0 .. d - 1 /\ h = d * (h \div d) + (h % d)
    <3>1. h \in Int
      OBVIOUS
    <3> QED  BY <2>1, <3>1, Divides
  <2>3. PICK q \in Int : m = d * q
    <3>1. 2 * (h \div d) \in Int /\ m = d * (2 * (h \div d))
      BY <1>3, <1>4, <2>1, <2>2
    <3> QED  BY <3>1
  <2>4. m % d = 0
    BY <2>1, <2>3, Multiple
  <2> QED  BY <1>4, <2>1, <2>4 DEF PowerOfTwo
<1> QED  BY <1>3, <1>4 DEF PowerOfTwo

\* Induction over the powers of two.
LEMMA Doubles ==
    ASSUME NEW S, 1 \in S, \A n \in Nat : n > 0 /\ n \in S /\ PowerOfTwo(n) => 2 * n \in S,
           NEW m \in Nat, m > 0, PowerOfTwo(m)
    PROVE  m \in S
<1>1. PICK C : C = {n \in Nat : n > 0 /\ PowerOfTwo(n) /\ n \notin S}
  OBVIOUS
<1> SUFFICES ASSUME C # {} PROVE FALSE
  BY <1>1
<1>2. C \in SUBSET Nat
  BY <1>1
<1>3. PICK k \in C : \A j \in C : k <= j
  BY <1>2, Least
<1>4. k \in Nat /\ k > 0 /\ PowerOfTwo(k) /\ k \notin S
  BY <1>1, <1>3
<1>5. k > 1
  BY <1>4
<1>6. PICK h \in Nat : k = 2 * h /\ h > 0 /\ PowerOfTwo(h)
  BY <1>4, <1>5, Halved
<1>7. h \in S
  <2>1. ~(k <= h)
    BY <1>4, <1>6
  <2> QED  BY <1>1, <1>3, <1>6, <2>1
<1> QED  BY <1>4, <1>6, <1>7

-----------------------------------------------------------------------------
(* i -> 5 * i + 1 visits every slot of a table whose size is a power of two.*)

Orbit(g, h) == g \in [0 .. h -> Int] /\ \A n \in 0 .. h : n # 0 => g[n] = 5 * g[n - 1] + 1

\* m steps multiply by one more than a multiple of 4 * m and add an odd multiple of m.
Leaps(g, h, m, a, b) ==
    \A n \in Nat : n + m <= h => g[n + m] = (1 + 4 * m * a) * g[n] + m * (2 * b + 1)

LEMMA OrbitLeaps ==
    ASSUME NEW h \in Nat, NEW g, Orbit(g, h), NEW m \in Nat, m > 0, PowerOfTwo(m)
    PROVE  \E a, b \in Int : Leaps(g, h, m, a, b)
<1>1. PICK S : S = {n \in Nat : \E a, b \in Int : Leaps(g, h, n, a, b)}
  OBVIOUS
<1>2. 1 \in S
  <2>1. ASSUME NEW n \in Nat, n + 1 <= h PROVE g[n + 1] = (1 + 4 * 1 * 1) * g[n] + 1 * (2 * 0 + 1)
    <3>1. n + 1 \in 0 .. h /\ n + 1 # 0 /\ (n + 1) - 1 = n /\ n \in 0 .. h
      BY <2>1
    <3>2. g[n + 1] = 5 * g[n] + 1 /\ g[n] \in Int
      BY <3>1 DEF Orbit
    <3> QED  BY <3>2
  <2>2. Leaps(g, h, 1, 1, 0)
    BY <2>1 DEF Leaps
  <2> QED  BY <1>1, <2>2
<1>3. ASSUME NEW n \in Nat, n \in S PROVE 2 * n \in S
  <2>1. PICK a \in Int, b \in Int : Leaps(g, h, n, a, b)
    BY <1>1, <1>3
  <2>2. PICK c \in Int, d \in Int : c = a + 2 * n * a * a /\ d = b + 2 * n * a * b + n * a
    <3>1. a + 2 * n * a * a \in Int /\ b + 2 * n * a * b + n * a \in Int
      OBVIOUS
    <3> QED  BY <3>1
  <2>3. ASSUME NEW k \in Nat, k + 2 * n <= h
        PROVE  g[k + 2 * n] = (1 + 4 * (2 * n) * c) * g[k] + (2 * n) * (2 * d + 1)
    <3>1. k + n \in Nat /\ k + n <= h /\ (k + n) + n <= h /\ (k + n) + n = k + 2 * n
      BY <2>3
    <3>2. PICK x \in Int, y \in Int, z \in Int : x = g[k] /\ y = g[k + n] /\ z = g[k + 2 * n]
      <4>1. k \in 0 .. h /\ k + n \in 0 .. h /\ k + 2 * n \in 0 .. h
        BY <2>3, <3>1
      <4> QED  BY <4>1 DEF Orbit
    <3>3. y = (1 + 4 * n * a) * x + n * (2 * b + 1)
      BY <2>1, <3>1, <3>2 DEF Leaps
    <3>4. z = (1 + 4 * n * a) * y + n * (2 * b + 1)
      BY <2>1, <3>1, <3>2 DEF Leaps
    <3>5. z = (1 + 4 * (2 * n) * (a + 2 * n * a * a)) * x + (2 * n) * (2 * (b + 2 * n * a * b + n * a) + 1)
      BY <3>3, <3>4
    <3> QED  BY <2>2, <3>2, <3>5
  <2>4. Leaps(g, h, 2 * n, c, d)
    BY <2>3 DEF Leaps
  <2> QED  BY <1>1, <2>4
<1>4. m \in S
  BY <1>2, <1>3, Doubles
<1> QED  BY <1>1, <1>4

\* The first m members have every remainder.
Covers(g, m) == \A j \in 0 .. m - 1 : \E n \in 0 .. m - 1 : \E q \in Int : g[n] = j + m * q

LEMMA OrbitCovers ==
    ASSUME NEW h \in Nat, NEW g, Orbit(g, h), NEW m \in Nat, m > 0, PowerOfTwo(m), m <= h
    PROVE  Covers(g, m)
<1>1. PICK S : S = {n \in Nat : n <= h => Covers(g, n)}
  OBVIOUS
<1>2. 1 \in S
  <2>1. g[0] \in Int
    BY DEF Orbit
  <2>2. ASSUME NEW j \in 0 .. 0 PROVE \E n \in 0 .. 0 : \E q \in Int : g[n] = j + 1 * q
    <3>1. j = 0 /\ g[0] = 0 + 1 * g[0]
      BY <2>1
    <3> QED  BY <2>1, <3>1
  <2>3. Covers(g, 1)
    BY <2>2 DEF Covers
  <2> QED  BY <1>1, <2>3
<1>3. ASSUME NEW n \in Nat, n > 0, n \in S, PowerOfTwo(n) PROVE 2 * n \in S
  <2> SUFFICES ASSUME 2 * n <= h PROVE Covers(g, 2 * n)
    BY <1>1
  <2>1. Covers(g, n)
    BY <1>1, <1>3
  <2>2. PICK a \in Int, b \in Int : Leaps(g, h, n, a, b)
    BY <1>3, OrbitLeaps
  <2> SUFFICES ASSUME NEW j \in 0 .. 2 * n - 1
               PROVE  \E k \in 0 .. 2 * n - 1 : \E q \in Int : g[k] = j + (2 * n) * q
    BY DEF Covers
  <2>3. PICK i \in 0 .. n - 1 : i = j \/ i = j - n
    <3>1. j \in 0 .. n - 1 \/ j - n \in 0 .. n - 1
      OBVIOUS
    <3> QED  BY <3>1
  <2>4. PICK k \in 0 .. n - 1, q \in Int : g[k] = i + n * q
    BY <2>1 DEF Covers
  <2>5. PICK r \in Int : g[k] = j + n * r
    <3>1. i = j => g[k] = j + n * q
      BY <2>4
    <3>2. i = j - n => g[k] = j + n * (q - 1)
      BY <2>4
    <3>3. q - 1 \in Int
      OBVIOUS
    <3> QED  BY <2>3, <3>1, <3>2, <3>3
  <2>6. PICK c \in Int : r = 2 * c \/ r = 2 * c + 1
    <3>1. r \div 2 \in Int /\ (r = 2 * (r \div 2) \/ r = 2 * (r \div 2) + 1)
      OBVIOUS
    <3> QED  BY <3>1
  <2>7. CASE r = 2 * c
    <3>1. g[k] = j + (2 * n) * c
      BY <2>5, <2>7
    <3> QED  BY <3>1
  <2>8. CASE r = 2 * c + 1
    <3>1. k \in Nat /\ k + n <= h /\ k + n \in 0 .. 2 * n - 1 /\ k \in 0 .. h
      OBVIOUS
    <3>2. g[k + n] = (1 + 4 * n * a) * g[k] + n * (2 * b + 1)
      BY <2>2, <3>1 DEF Leaps
    <3>3. PICK x \in Int : x = g[k]
      BY <3>1 DEF Orbit
    <3>4. (1 + 4 * n * a) * x + n * (2 * b + 1) = x + n + (2 * n) * (2 * a * x + b)
      OBVIOUS
    <3>5. x = j + n * (2 * c + 1)
      BY <2>5, <2>8, <3>3
    <3>6. x + n + (2 * n) * (2 * a * x + b) = j + (2 * n) * (c + 1 + 2 * a * x + b)
      <4>1. PICK y \in Int : y = 2 * a * x + b
        <5>1. 2 * a * x + b \in Int
          OBVIOUS
        <5> QED  BY <5>1
      <4>2. j + n * (2 * c + 1) + n + (2 * n) * y = j + (2 * n) * (c + 1 + y)
        OBVIOUS
      <4>3. x + n + (2 * n) * y = j + (2 * n) * (c + 1 + y)
        BY <3>5, <4>2
      <4>4. c + 1 + y = c + 1 + 2 * a * x + b
        BY <4>1
      <4> QED  BY <4>1, <4>3, <4>4
    <3>7. c + 1 + 2 * a * x + b \in Int
      OBVIOUS
    <3>8. g[k + n] = j + (2 * n) * (c + 1 + 2 * a * x + b)
      BY <3>2, <3>3, <3>4, <3>6
    <3> QED  BY <3>1, <3>7, <3>8
  <2> QED  BY <2>6, <2>7, <2>8
<1>4. m \in S
  BY <1>2, <1>3, Doubles
<1> QED  BY <1>1, <1>4

-----------------------------------------------------------------------------
(* Probe sequences.                                                        *)

Probing(f, hash, size) ==
    f = [n \in 0 .. Horizon(size) |-> IF n = 0 THEN hash % size ELSE Step(f[n - 1], Perturb(hash, n), size)]

\* The perturbed hash of a walk is a number.
LEMMA PerturbType ==
    ASSUME NEW hash \in Nat, NEW n \in Nat, n # 0
    PROVE  Perturb(hash, n) \in Nat
<1>1. CASE n > 7
  BY <1>1 DEF Perturb
<1>2. CASE n <= 7
  <2>1. n \in {1, 2, 3, 4, 5, 6, 7}
    BY <1>2
  <2>2. PICK d \in Nat : d = <<1, 2 ^ 5, 2 ^ 10, 2 ^ 15, 2 ^ 20, 2 ^ 25, 2 ^ 30>>[n] /\ d > 0
    <3>1. /\ 2 ^ 5 = 32 /\ 2 ^ 10 = 1024 /\ 2 ^ 15 = 32768
          /\ 2 ^ 20 = 1048576 /\ 2 ^ 25 = 33554432 /\ 2 ^ 30 = 1073741824
      OBVIOUS
    <3> QED  BY <2>1, <3>1
  <2>3. hash \div d \in Nat
    BY <2>2
  <2> QED  BY <1>2, <2>2, <2>3 DEF Perturb
<1> QED  BY <1>1, <1>2

LEMMA StepType ==
    ASSUME NEW i \in Nat, NEW perturb \in Nat, NEW size \in Nat, size > 0
    PROVE  Step(i, perturb, size) \in 0 .. size - 1
BY DEF Step

\* The walk of a hash is the function that its recursion describes.
LEMMA ProbeIs ==
    ASSUME NEW hash \in Nat, NEW size \in Nat, size > 0
    PROVE  /\ Horizon(size) \in Nat
           /\ Probe(hash, size) \in [0 .. Horizon(size) -> 0 .. size - 1]
           /\ \A n \in 0 .. Horizon(size) : n # 0 =>
                 Probe(hash, size)[n] = Step(Probe(hash, size)[n - 1], Perturb(hash, n), size)
<1>1. PICK h \in Nat : h = Horizon(size)
  BY DEF Horizon
<1>2. PICK T, b, step : /\ T = 0 .. size - 1 /\ b = hash % size
                        /\ step = [p \in Nat \X T |-> IF p[1] = 0 THEN b ELSE Step(p[2], Perturb(hash, p[1]), size)]
  OBVIOUS
<1>3. b \in T
  BY <1>2
<1>4. ASSUME NEW n \in Nat, NEW i \in T
      PROVE  /\ step[<<n, i>>] \in T
             /\ n # 0 => step[<<n, i>>] = Step(i, Perturb(hash, n), size)
  <2>1. step[<<n, i>>] = IF n = 0 THEN b ELSE Step(i, Perturb(hash, n), size)
    BY <1>2
  <2>2. i \in Nat
    BY <1>2
  <2>3. n # 0 => Step(i, Perturb(hash, n), size) \in T
    BY <1>2, <2>2, PerturbType, StepType
  <2> QED  BY <1>3, <2>1, <2>3
<1>5. step \in [Nat \X T -> T]
  <2>1. ASSUME NEW p \in Nat \X T PROVE step[p] \in T
    <3>1. PICK n \in Nat, i \in T : p = <<n, i>>
      OBVIOUS
    <3> QED  BY <1>4, <3>1
  <2>2. DOMAIN step = Nat \X T /\ step = [p \in DOMAIN step |-> step[p]]
    BY <1>2
  <2> QED  BY <2>1, <2>2
<1>6. PICK f \in [0 .. h -> T] : f[0] = b /\ \A n \in 0 .. h : n # 0 => f[n] = step[<<n, f[n - 1]>>]
  <2>1. \E f \in [0 .. h -> T] : Iteration(f, h, b, step)
    BY <1>3, <1>5, Iterates
  <2> QED  BY <2>1 DEF Iteration
<1>7. ASSUME NEW n \in 0 .. h, n # 0 PROVE f[n] = Step(f[n - 1], Perturb(hash, n), size)
  <2>1. n \in Nat /\ f[n - 1] \in T
    BY <1>7
  <2> QED  BY <1>4, <1>6, <1>7, <2>1
<1>8. Probing(f, hash, size)
  BY <1>1, <1>2, <1>6, <1>7 DEF Probing
<1>9. PICK g : g = CHOOSE q : Probing(q, hash, size)
  OBVIOUS
<1>10. Probing(g, hash, size)
  BY <1>8, <1>9
<1>11. Probe(hash, size) = g
  BY <1>9 DEF Probe, Probing
<1>12. /\ g[0] = b /\ DOMAIN g = 0 .. h
       /\ \A n \in 0 .. h : n # 0 => g[n] = Step(g[n - 1], Perturb(hash, n), size)
  BY <1>1, <1>2, <1>10 DEF Probing
<1>13. \A n \in 0 .. h : g[n] \in T
  <2>1. PICK C : C = {n \in Nat : n \in 0 .. h => g[n] \in T}
    OBVIOUS
  <2>2. C \in SUBSET Nat /\ 0 \in C
    BY <1>3, <1>12, <2>1
  <2>3. ASSUME NEW n \in C PROVE n + 1 \in C
    <3>1. n \in Nat
      BY <2>2
    <3> SUFFICES ASSUME n + 1 \in 0 .. h PROVE g[n + 1] \in T
      BY <2>1, <3>1
    <3>2. n \in 0 .. h /\ g[n] \in T /\ (n + 1) - 1 = n /\ n + 1 # 0 /\ n + 1 \in Nat
      BY <2>1, <3>1
    <3>3. g[n + 1] = Step(g[n], Perturb(hash, n + 1), size)
      BY <1>12, <3>2
    <3>4. PICK i \in Nat, m \in Nat, perturb \in Nat : i = g[n] /\ m = n + 1 /\ perturb = Perturb(hash, m)
      <4>1. g[n] \in Nat
        BY <1>2, <3>2
      <4>2. PICK m \in Nat : m = n + 1 /\ m # 0
        BY <3>2
      <4>3. Perturb(hash, m) \in Nat
        BY <4>2, PerturbType
      <4> QED  BY <4>1, <4>2, <4>3
    <3>5. Step(i, perturb, size) \in T
      BY <1>2, StepType
    <3> QED  BY <3>3, <3>4, <3>5
  <2> QED  BY <2>1, <2>2, <2>3, CountsUp
<1>14. g \in [0 .. h -> T]
  BY <1>10, <1>12, <1>13 DEF Probing
<1> QED  BY <1>1, <1>2, <1>11, <1>12, <1>14

\* A lookup that ran to its horizon has seen every slot, whatever the hash.
LEMMA ProbeCovers ==
    ASSUME NEW hash \in Nat, NEW size \in Nat, size > 0, PowerOfTwo(size), NEW j \in 0 .. size - 1
    PROVE  \E n \in 0 .. Horizon(size) : Probe(hash, size)[n] = j
<1>1. PICK at, h : at = Probe(hash, size) /\ h = Horizon(size)
  OBVIOUS
<1>2. /\ h \in Nat /\ h = 7 + size /\ at \in [0 .. h -> 0 .. size - 1]
      /\ \A n \in 0 .. h : n # 0 => at[n] = Step(at[n - 1], Perturb(hash, n), size)
  BY <1>1, ProbeIs DEF Horizon
<1>3. PICK b \in Int : b = at[7]
  <2>1. 7 \in 0 .. h
    BY <1>2
  <2> QED  BY <1>2, <2>1
<1>4. PICK g \in [0 .. size -> Int] : g[0] = b /\ \A n \in 0 .. size : n # 0 => g[n] = 5 * g[n - 1] + 1
  <2>1. PICK step : step = [p \in Nat \X Int |-> 5 * p[2] + 1]
    OBVIOUS
  <2>2. step \in [Nat \X Int -> Int] /\ \A n \in Nat, x \in Int : step[<<n, x>>] = 5 * x + 1
    BY <2>1
  <2>3. PICK T : T = Int
    OBVIOUS
  <2>4. PICK g \in [0 .. size -> T] : g[0] = b /\ \A n \in 0 .. size : n # 0 => g[n] = step[<<n, g[n - 1]>>]
    <3>1. b \in T /\ step \in [Nat \X T -> T]
      BY <2>2, <2>3
    <3>2. \E g \in [0 .. size -> T] : Iteration(g, size, b, step)
      BY <3>1, Iterates
    <3> QED  BY <3>2 DEF Iteration
  <2>5. ASSUME NEW n \in 0 .. size, n # 0 PROVE g[n] = 5 * g[n - 1] + 1
    <3>1. n \in Nat /\ g[n - 1] \in Int
      BY <2>3, <2>5
    <3> QED  BY <2>2, <2>4, <2>5, <3>1
  <2> QED  BY <2>3, <2>4, <2>5
<1>5. Orbit(g, size)
  BY <1>4 DEF Orbit
<1>6. \A n \in 0 .. size : \E q \in Int : g[n] = at[7 + n] + size * q
  <2>1. PICK C : C = {n \in Nat : n \in 0 .. size => \E q \in Int : g[n] = at[7 + n] + size * q}
    OBVIOUS
  <2>2. C \in SUBSET Nat
    BY <2>1
  <2>3. 0 \in C
    <3>1. 7 + 0 = 7 /\ b = b + size * 0 /\ 0 \in Int
      OBVIOUS
    <3>2. g[0] = at[7 + 0] + size * 0
      BY <1>3, <1>4, <3>1
    <3> QED  BY <2>1, <3>1, <3>2
  <2>4. ASSUME NEW n \in C PROVE n + 1 \in C
    <3>1. n \in Nat
      BY <2>2
    <3> SUFFICES ASSUME n + 1 \in 0 .. size PROVE \E q \in Int : g[n + 1] = at[7 + (n + 1)] + size * q
      BY <2>1, <3>1
    <3>2. n \in 0 .. size /\ 7 + n \in 0 .. h /\ 8 + n \in 0 .. h /\ (8 + n) - 1 = 7 + n /\ 7 + (n + 1) = 8 + n
      BY <1>2, <3>1
    <3>3. PICK q \in Int : g[n] = at[7 + n] + size * q
      BY <2>1, <3>2
    <3>4. PICK x \in Nat, y \in Nat : x = at[7 + n] /\ y = at[8 + n]
      <4>1. at[7 + n] \in 0 .. size - 1 /\ at[8 + n] \in 0 .. size - 1
        BY <1>2, <3>2
      <4> QED  BY <4>1
    <3>5. y = (5 * x + 1) % size
      <4>1. y = Step(x, Perturb(hash, 8 + n), size)
        BY <1>2, <3>1, <3>2, <3>4
      <4>2. Perturb(hash, 8 + n) = 0
        BY <3>1 DEF Perturb
      <4>3. 5 * x + 0 + 1 = 5 * x + 1
        OBVIOUS
      <4> QED  BY <4>1, <4>2, <4>3 DEF Step
    <3>6. PICK d \in Int : 5 * x + 1 = size * d + y
      <4>1. PICK z \in Int : z = 5 * x + 1
        OBVIOUS
      <4>2. z \div size \in Int /\ z % size \in 0 .. size - 1 /\ z = size * (z \div size) + (z % size)
        BY <4>1, Divides
      <4> QED  BY <3>5, <4>1, <4>2
    <3>7. g[n + 1] = 5 * g[n] + 1
      <4>1. n + 1 # 0 /\ (n + 1) - 1 = n
        BY <3>1
      <4> QED  BY <1>4, <4>1
    <3>8. d + 5 * q \in Int /\ 5 * (x + size * q) + 1 = y + size * (d + 5 * q)
      <4>1. 5 * (x + size * q) + 1 = (5 * x + 1) + size * (5 * q)
        OBVIOUS
      <4>2. (size * d + y) + size * (5 * q) = y + size * (d + 5 * q)
        OBVIOUS
      <4> QED  BY <3>6, <4>1, <4>2
    <3>9. g[n + 1] = y + size * (d + 5 * q)
      BY <3>3, <3>4, <3>7, <3>8
    <3>10. at[7 + (n + 1)] = y
      BY <3>2, <3>4
    <3> QED  BY <3>8, <3>9, <3>10
  <2>5. \A n \in Nat : n \in C
    BY <2>2, <2>3, <2>4, CountsUp
  <2>6. \A n \in 0 .. size : n \in Nat /\ n \in C
    BY <2>5
  <2> QED  BY <2>1, <2>6
<1>7. Covers(g, size)
  BY <1>5, OrbitCovers
<1>8. PICK n \in 0 .. size - 1, q \in Int : g[n] = j + size * q
  BY <1>7 DEF Covers
<1>9. n \in 0 .. size /\ 7 + n \in 0 .. h
  BY <1>2
<1>10. PICK r \in Int : g[n] = at[7 + n] + size * r
  BY <1>6, <1>9
<1>11. PICK i \in 0 .. size - 1 : i = at[7 + n]
  BY <1>2, <1>9
<1>12. i = j
  BY <1>8, <1>10, <1>11, Remainder
<1> QED  BY <1>1, <1>9, <1>11, <1>12

-----------------------------------------------------------------------------
(* Lookups.                                                                *)

Slot == Entry \cup {Empty, Dummy}

TableOK(t) ==
    /\ Size(t) \in Nat /\ Size(t) > 0 /\ PowerOfTwo(Size(t))
    /\ t \in [0 .. Size(t) - 1 -> Slot]

Path(t, k)  == Probe(use.hash[k], Size(t))
Steps(t)    == 0 .. Horizon(Size(t))
EndAt(t, k, n) == t[Path(t, k)[n]] = Empty \/ Holds(t[Path(t, k)[n]], k)

\* A walk for k gets to slot i before it meets an empty one.
Reached(t, k, i) ==
    \E n \in Steps(t) : Path(t, k)[n] = i /\ \A m \in 0 .. n - 1 : t[Path(t, k)[m]] # Empty

\* A walk for k that ends at an empty slot has not met the key.
Missed(t, k) ==
    \E n \in Steps(t) : t[Path(t, k)[n]] = Empty /\ \A m \in 0 .. n - 1 : ~Holds(t[Path(t, k)[m]], k)

LookupEnd(t, k, i) ==
    \/ i = NoSlot /\ \A n \in Steps(t) : ~EndAt(t, k, n)
    \/ i \in DOMAIN t /\ Reached(t, k, i) /\ Holds(t[i], k)
    \/ i \in DOMAIN t /\ Reached(t, k, i) /\ ~Live(t[i]) /\ Missed(t, k)

\* A walk stays inside the table.
LEMMA PathType ==
    ASSUME NEW t, TableOK(t), NEW k, use.hash[k] \in Nat
    PROVE  Horizon(Size(t)) \in Nat /\ \A n \in Steps(t) : Path(t, k)[n] \in DOMAIN t
<1>1. PICK hash \in Nat, size \in Nat : hash = use.hash[k] /\ size = Size(t) /\ size > 0
  BY DEF TableOK
<1>2. Horizon(size) \in Nat /\ Probe(hash, size) \in [0 .. Horizon(size) -> 0 .. size - 1]
  BY <1>1, ProbeIs
<1>3. DOMAIN t = 0 .. size - 1
  BY <1>1 DEF TableOK
<1> QED  BY <1>1, <1>2, <1>3 DEF Path, Steps

\* The walk either stops for one of the reasons dict_lookup() has, or runs on for ever.
LEMMA LookupEnds ==
    ASSUME NEW t, TableOK(t), NEW k, use.hash[k] \in Nat
    PROVE  LookupEnd(t, k, Lookup(t, k))
<1>1. PICK at, h : at = Path(t, k) /\ h = Horizon(Size(t))
  OBVIOUS
<1>2. h \in Nat /\ Steps(t) = 0 .. h /\ \A n \in 0 .. h : at[n] \in DOMAIN t
  BY <1>1, PathType DEF Steps
<1>3. CASE \A n \in 0 .. h : ~EndAt(t, k, n)
  <2>1. Lookup(t, k) = NoSlot
    BY <1>1, <1>3 DEF Lookup, EndAt, Path
  <2> QED  BY <1>2, <1>3, <2>1 DEF LookupEnd
<1>4. CASE \E n \in 0 .. h : EndAt(t, k, n)
  <2>1. PICK l \in 0 .. h : EndAt(t, k, l) /\ \A m \in 0 .. l - 1 : ~EndAt(t, k, m)
    <3>1. PICK E : E = {n \in 0 .. h : EndAt(t, k, n)}
      OBVIOUS
    <3>2. E \in SUBSET Nat /\ E # {}
      BY <1>4, <3>1
    <3>3. PICK l \in E : \A m \in E : l <= m
      BY <3>2, Least
    <3>4. \A m \in 0 .. l - 1 : m \in 0 .. h /\ ~(l <= m)
      BY <1>2, <3>1, <3>3
    <3> QED  BY <3>1, <3>3, <3>4
  <2> DEFINE Ends(n) == t[Probe(use.hash[k], Size(t))[n]] = Empty \/ Holds(t[Probe(use.hash[k], Size(t))[n]], k)
  <2>2. PICK last : last = CHOOSE n \in 0 .. Horizon(Size(t)) : Ends(n) /\ \A m \in 0 .. n - 1 : ~Ends(m)
    OBVIOUS
  <2>3. last \in 0 .. h /\ EndAt(t, k, last) /\ \A m \in 0 .. last - 1 : ~EndAt(t, k, m)
    <3>1. \A n : EndAt(t, k, n) <=> Ends(n)
      BY DEF EndAt, Path
    <3> HIDE DEF Ends
    <3> QED  BY <1>1, <2>1, <2>2, <3>1
  <2>4. PICK freed : freed = {n \in 0 .. last - 1 : t[at[n]] = Dummy}
    OBVIOUS
  <2>5. Lookup(t, k) = IF t[at[last]] = Empty /\ freed # {} THEN at[Min(freed)] ELSE at[last]
    <3>1. Lookup(t, k) =
             IF \A n \in 0 .. Horizon(Size(t)) : ~Ends(n) THEN NoSlot
             ELSE IF /\ t[Probe(use.hash[k], Size(t))[last]] = Empty
                     /\ {n \in 0 .. last - 1 : t[Probe(use.hash[k], Size(t))[n]] = Dummy} # {}
                  THEN Probe(use.hash[k], Size(t))[Min({n \in 0 .. last - 1 : t[Probe(use.hash[k], Size(t))[n]] = Dummy})]
                  ELSE Probe(use.hash[k], Size(t))[last]
      BY <2>2 DEF Lookup
    <3>2. Ends(last) /\ last \in 0 .. Horizon(Size(t))
      BY <1>1, <2>3 DEF EndAt, Path
    <3> QED  BY <1>1, <2>4, <3>1, <3>2 DEF Path
  <2>6. \A m \in 0 .. last - 1 : t[at[m]] # Empty /\ ~Holds(t[at[m]], k)
    BY <1>1, <2>3 DEF EndAt
  <2>7. Reached(t, k, at[last]) /\ at[last] \in DOMAIN t
    BY <1>1, <1>2, <2>3, <2>6 DEF Reached
  <2>8. t[at[last]] = Empty => Missed(t, k)
    BY <1>1, <1>2, <2>3, <2>6 DEF Missed
  <2>9. CASE t[at[last]] # Empty
    <3>1. Holds(t[at[last]], k)
      BY <1>1, <2>3, <2>9 DEF EndAt
    <3> QED  BY <2>5, <2>7, <2>9, <3>1 DEF LookupEnd
  <2>10. CASE t[at[last]] = Empty /\ freed = {}
    BY <2>5, <2>7, <2>8, <2>10 DEF LookupEnd, Live
  <2>11. CASE t[at[last]] = Empty /\ freed # {}
    <3>1. freed \in SUBSET Nat
      BY <1>2, <2>3, <2>4
    <3>2. PICK f \in freed : f = Min(freed)
      <4>1. \E x \in freed : \A y \in freed : x <= y
        BY <2>11, <3>1, Least
      <4> QED  BY <4>1 DEF Min
    <3>3. f \in 0 .. last - 1 /\ t[at[f]] = Dummy
      BY <2>4, <3>2
    <3>4. f \in 0 .. h /\ \A m \in 0 .. f - 1 : m \in 0 .. last - 1
      BY <1>2, <2>3, <3>3
    <3>5. Reached(t, k, at[f]) /\ at[f] \in DOMAIN t
      BY <1>1, <1>2, <2>6, <3>4 DEF Reached
    <3>6. ~Live(t[at[f]])
      BY <3>3 DEF Live
    <3> QED  BY <2>5, <2>8, <2>11, <3>2, <3>5, <3>6 DEF LookupEnd
  <2> QED  BY <2>9, <2>10, <2>11
<1> QED  BY <1>3, <1>4

\* No key twice, and every entry is reached by the walk for its key.
TableInv(t) ==
    /\ TableOK(t)
    /\ \A i, j \in LiveSlots(t) : t[i].key = t[j].key => i = j
    /\ \A i \in LiveSlots(t) : t[i].key \in DOMAIN use.hash /\ Reached(t, t[i].key, i)

HashesOK == \A k \in DOMAIN use.hash : use.hash[k] \in Nat

\* It ends at the key's entry if the walk gets there.
LEMMA LookupFinds ==
    ASSUME NEW t, TableInv(t), HashesOK, NEW i \in LiveSlots(t), NEW k, t[i].key = k
    PROVE  Lookup(t, k) = i
<1>1. TableOK(t) /\ k \in DOMAIN use.hash /\ use.hash[k] \in Nat /\ Reached(t, k, i) /\ i \in DOMAIN t /\ Holds(t[i], k)
  BY DEF TableInv, HashesOK, LiveSlots, Holds
<1>2. PICK l : l = Lookup(t, k) /\ LookupEnd(t, k, l)
  BY <1>1, LookupEnds
<1>3. PICK n \in Steps(t) : Path(t, k)[n] = i /\ \A m \in 0 .. n - 1 : t[Path(t, k)[m]] # Empty
  BY <1>1 DEF Reached
<1>4. CASE l = NoSlot /\ \A m \in Steps(t) : ~EndAt(t, k, m)
  BY <1>1, <1>3, <1>4 DEF EndAt
<1>5. CASE l \in DOMAIN t /\ Holds(t[l], k)
  BY <1>2, <1>5 DEF TableInv, LiveSlots, Holds
<1>6. CASE Missed(t, k)
  <2>1. PICK m \in Steps(t) : t[Path(t, k)[m]] = Empty /\ \A p \in 0 .. m - 1 : ~Holds(t[Path(t, k)[p]], k)
    BY <1>6 DEF Missed
  <2>2. m \in Nat /\ n \in Nat
    BY <1>1, PathType DEF Steps
  <2>3. ~(m \in 0 .. n - 1)
    BY <1>3, <2>1
  <2>4. ~(n \in 0 .. m - 1)
    BY <1>1, <1>3, <2>1
  <2>5. m = n
    BY <2>2, <2>3, <2>4
  <2> QED  BY <1>1, <1>3, <2>1, <2>5 DEF Holds, Live
<1> QED  BY <1>2, <1>4, <1>5, <1>6 DEF LookupEnd

\* It ends at a slot without an entry if the key has none.
LEMMA LookupMisses ==
    ASSUME NEW t, TableOK(t), NEW k, use.hash[k] \in Nat, \A i \in LiveSlots(t) : t[i].key # k
    PROVE  \/ Lookup(t, k) = NoSlot
           \/ Lookup(t, k) \in DOMAIN t /\ ~Live(t[Lookup(t, k)]) /\ Reached(t, k, Lookup(t, k))
<1>1. LookupEnd(t, k, Lookup(t, k))
  BY LookupEnds
<1> QED  BY <1>1 DEF LookupEnd, LiveSlots, Holds

\* While a slot is empty every lookup ends.
LEMMA LookupRoom ==
    ASSUME NEW t, TableOK(t), NEW k, use.hash[k] \in Nat, NEW j \in DOMAIN t, t[j] = Empty
    PROVE  Lookup(t, k) # NoSlot
<1>1. PICK hash \in Nat, size \in Nat : hash = use.hash[k] /\ size = Size(t) /\ size > 0 /\ PowerOfTwo(size)
  BY DEF TableOK
<1>2. j \in 0 .. size - 1
  BY <1>1 DEF TableOK
<1>3. PICK n \in 0 .. Horizon(size) : Probe(hash, size)[n] = j
  BY <1>1, <1>2, ProbeCovers
<1>4. n \in Steps(t) /\ EndAt(t, k, n)
  BY <1>1, <1>3 DEF Steps, EndAt, Path
<1>5. LookupEnd(t, k, Lookup(t, k))
  BY LookupEnds
<1>6. NoSlot \notin DOMAIN t
  BY <1>1 DEF NoSlot, TableOK
<1> QED  BY <1>4, <1>5, <1>6 DEF LookupEnd

-----------------------------------------------------------------------------
(* What a call does to a table.                                            *)

LEMMA Marks == Empty # Dummy /\ Empty \notin Entry /\ Dummy \notin Entry
BY DictAssumption

LEMMA LiveIs ==
    ASSUME NEW x, x # Empty, x # Dummy
    PROVE  Live(x)
BY DEF Live

\* No walk is cut while no slot becomes empty.
LEMMA Stays ==
    ASSUME NEW t, TableOK(t), NEW s \in [DOMAIN t -> Slot],
           \A j \in DOMAIN t : t[j] # Empty => s[j] # Empty
    PROVE  /\ TableOK(s) /\ Size(s) = Size(t)
           /\ \A k, j : use.hash[k] \in Nat /\ Reached(t, k, j) => Reached(s, k, j)
<1>1. DOMAIN s = DOMAIN t /\ Size(s) = Size(t)
  BY DEF Size
<1>2. TableOK(s)
  BY <1>1 DEF TableOK
<1>3. ASSUME NEW k, NEW j, use.hash[k] \in Nat, Reached(t, k, j) PROVE Reached(s, k, j)
  <2>1. PICK n \in Steps(t) : Path(t, k)[n] = j /\ \A m \in 0 .. n - 1 : t[Path(t, k)[m]] # Empty
    BY <1>3 DEF Reached
  <2>2. Path(s, k) = Path(t, k) /\ Steps(s) = Steps(t)
    BY <1>1 DEF Path, Steps
  <2>3. ASSUME NEW m \in 0 .. n - 1 PROVE s[Path(t, k)[m]] # Empty
    <3>1. Horizon(Size(t)) \in Nat /\ \A p \in Steps(t) : Path(t, k)[p] \in DOMAIN t
      BY <1>3, PathType
    <3>2. m \in Steps(t)
      BY <3>1 DEF Steps
    <3> QED  BY <2>1, <3>1, <3>2
  <2> QED  BY <2>1, <2>2, <2>3 DEF Reached
<1> QED  BY <1>1, <1>2, <1>3

\* A slot that takes an entry its key's walk reaches, or a tombstone.
LEMMA Change ==
    ASSUME NEW t, TableInv(t), HashesOK, NEW i \in DOMAIN t, NEW x \in Slot, x # Empty,
           Live(x) => /\ x.key \in DOMAIN use.hash /\ Reached(t, x.key, i)
                      /\ \A j \in LiveSlots(t) : t[j].key = x.key => j = i
    PROVE  TableInv([t EXCEPT ![i] = x])
<1>1. PICK s : s = [t EXCEPT ![i] = x]
  OBVIOUS
<1>2. /\ s \in [DOMAIN t -> Slot] /\ s[i] = x /\ \A j \in DOMAIN t : j # i => s[j] = t[j]
      /\ TableOK(t)
  BY <1>1 DEF TableInv, TableOK
<1>3. /\ TableOK(s) /\ Size(s) = Size(t)
      /\ \A k, j : use.hash[k] \in Nat /\ Reached(t, k, j) => Reached(s, k, j)
  <2>1. \A j \in DOMAIN t : t[j] # Empty => s[j] # Empty
    BY <1>2
  <2> QED  BY <1>2, <2>1, Stays
<1>4. ASSUME NEW j \in LiveSlots(s) PROVE j \in DOMAIN t /\ (j = i => Live(x)) /\ (j # i => j \in LiveSlots(t))
  <2>1. j \in DOMAIN t /\ s[j] # Empty /\ s[j] # Dummy
    BY <1>2 DEF LiveSlots, Live
  <2>2. ASSUME j = i PROVE Live(x)
    <3>1. x # Empty /\ x # Dummy
      BY <1>2, <2>1, <2>2
    <3> QED  BY <3>1, LiveIs
  <2>3. ASSUME j # i PROVE j \in LiveSlots(t)
    BY <1>2, <2>1, <2>3 DEF LiveSlots, Live
  <2> QED  BY <2>1, <2>2, <2>3
<1>5. ASSUME NEW j \in LiveSlots(s), NEW l \in LiveSlots(s), s[j].key = s[l].key PROVE j = l
  <2>1. CASE j # i /\ l # i
    BY <1>2, <1>4, <1>5, <2>1 DEF TableInv
  <2>2. CASE j = i /\ l # i
    BY <1>2, <1>4, <1>5, <2>2
  <2>3. CASE j # i /\ l = i
    BY <1>2, <1>4, <1>5, <2>3
  <2> QED  BY <2>1, <2>2, <2>3
<1>6. ASSUME NEW j \in LiveSlots(s) PROVE s[j].key \in DOMAIN use.hash /\ Reached(s, s[j].key, j)
  <2>1. s[j].key \in DOMAIN use.hash /\ Reached(t, s[j].key, j)
    BY <1>2, <1>4 DEF TableInv
  <2> QED  BY <1>3, <2>1 DEF HashesOK
<1> QED  BY <1>1, <1>3, <1>5, <1>6 DEF TableInv

LEMMA BlankIs ==
    ASSUME NEW size \in Nat, size > 0, PowerOfTwo(size)
    PROVE  TableInv(Blank(size)) /\ Size(Blank(size)) = size /\ LiveSlots(Blank(size)) = {}
<1>1. DOMAIN Blank(size) = 0 .. size - 1 /\ \A i \in 0 .. size - 1 : Blank(size)[i] = Empty
  BY DEF Blank
<1>2. Size(Blank(size)) = size
  <2>1. Cardinality(0 .. size - 1) = size
    BY FS_Interval
  <2> QED  BY <1>1, <2>1 DEF Size
<1>3. LiveSlots(Blank(size)) = {}
  BY <1>1 DEF LiveSlots, Live
<1>4. Blank(size) \in [0 .. size - 1 -> Slot]
  BY DEF Blank, Slot
<1> QED  BY <1>2, <1>3, <1>4 DEF TableInv, TableOK

-----------------------------------------------------------------------------
(* dict_resize().                                                          *)

Doubling(f, size, n) == f = [j \in 0 .. n + 2 |-> IF j = 0 THEN size ELSE 2 * f[j - 1]]

\* Doubling a power of two gives powers of two, and outgrows any number.
LEMMA DoublingIs ==
    ASSUME NEW size \in Nat, size > 0, PowerOfTwo(size), NEW n \in Nat, NEW f, Doubling(f, size, n)
    PROVE  /\ \A j \in 0 .. n + 2 : f[j] \in Nat /\ f[j] >= size /\ f[j] >= j + 1 /\ PowerOfTwo(f[j])
           /\ f[n + 2] > 4 * n
<1>1. f[0] = size /\ \A j \in 0 .. n + 2 : j # 0 => f[j] = 2 * f[j - 1]
  BY DEF Doubling
<1>2. PICK C : C = {j \in Nat : j \in 0 .. n + 2 => f[j] \in Nat /\ f[j] >= size /\ f[j] >= j + 1 /\ PowerOfTwo(f[j])}
  OBVIOUS
<1>3. C \in SUBSET Nat /\ 0 \in C
  BY <1>1, <1>2
<1>4. ASSUME NEW j \in C PROVE j + 1 \in C
  <2>1. j \in Nat
    BY <1>3
  <2> SUFFICES ASSUME j + 1 \in 0 .. n + 2
               PROVE  f[j + 1] \in Nat /\ f[j + 1] >= size /\ f[j + 1] >= (j + 1) + 1 /\ PowerOfTwo(f[j + 1])
    BY <1>2, <2>1
  <2>2. j \in 0 .. n + 2 /\ j + 1 # 0 /\ (j + 1) - 1 = j
    BY <2>1
  <2>3. PICK m \in Nat : m = f[j] /\ m >= size /\ m >= j + 1 /\ PowerOfTwo(m)
    BY <1>2, <2>2
  <2>4. f[j + 1] = 2 * m
    BY <1>1, <2>2, <2>3
  <2>5. m > 0 /\ PowerOfTwo(2 * m)
    BY <2>1, <2>3, Doubled
  <2> QED  BY <2>1, <2>3, <2>4, <2>5
<1>5. \A j \in Nat : j \in C
  BY <1>3, <1>4, CountsUp
<1>6. \A j \in 0 .. n + 2 : j \in Nat /\ j \in C
  BY <1>5
<1>7. f[n] \in Nat /\ f[n] >= n + 1
  BY <1>2, <1>6
<1>8. f[n + 1] = 2 * f[n] /\ f[n + 2] = 2 * f[n + 1]
  <2>1. (n + 1) - 1 = n /\ (n + 2) - 1 = n + 1 /\ n + 1 # 0 /\ n + 2 # 0 /\ n + 1 \in 0 .. n + 2 /\ n + 2 \in 0 .. n + 2
    OBVIOUS
  <2> QED  BY <1>1, <2>1
<1>9. f[n + 2] > 4 * n
  <2>1. PICK m \in Nat : m = f[n] /\ m >= n + 1
    BY <1>7
  <2>2. f[n + 2] = 2 * (2 * m)
    BY <1>8, <2>1
  <2> QED  BY <2>1, <2>2
<1> QED  BY <1>2, <1>6, <1>9

\* A table that is to hold n entries gets room for more.
LEMMA NewSizeIs ==
    ASSUME NEW size \in Nat, size > 0, PowerOfTwo(size), NEW n \in Nat
    PROVE  NewSize(size, n) \in Nat /\ NewSize(size, n) >= size /\ NewSize(size, n) > n /\ PowerOfTwo(NewSize(size, n))
<1>1. PICK f : f = CHOOSE q : Doubling(q, size, n)
  OBVIOUS
<1>2. Doubling(f, size, n)
  <2>1. PICK step : step = [p \in Nat \X Nat |-> 2 * p[2]]
    OBVIOUS
  <2>2. step \in [Nat \X Nat -> Nat] /\ \A j \in Nat, m \in Nat : step[<<j, m>>] = 2 * m
    BY <2>1
  <2>3. PICK h \in Nat : h = n + 2
    OBVIOUS
  <2>4. PICK g \in [0 .. h -> Nat] : Iteration(g, h, size, step)
    BY <2>2, Iterates
  <2>5. ASSUME NEW j \in 0 .. h PROVE g[j] = IF j = 0 THEN size ELSE 2 * g[j - 1]
    <3>1. CASE j = 0
      BY <2>4, <3>1 DEF Iteration
    <3>2. CASE j # 0
      <4>1. j \in Nat /\ g[j - 1] \in Nat
        BY <3>2
      <4>2. g[j] = step[<<j, g[j - 1]>>]
        BY <2>4, <3>2 DEF Iteration
      <4> QED  BY <2>2, <3>2, <4>1, <4>2
    <3> QED  BY <3>1, <3>2
  <2>6. g = [j \in 0 .. h |-> IF j = 0 THEN size ELSE 2 * g[j - 1]]
    BY <2>5
  <2>7. Doubling(g, size, n)
    BY <2>3, <2>6 DEF Doubling
  <2> QED  BY <1>1, <2>7
<1>3. /\ \A j \in 0 .. n + 2 : f[j] \in Nat /\ f[j] >= size /\ f[j] >= j + 1 /\ PowerOfTwo(f[j])
      /\ f[n + 2] > 4 * n
  BY <1>2, DoublingIs
<1>4. PICK c \in {2, 4} : c = IF size > BigSize THEN 2 ELSE 4
  OBVIOUS
<1>5. PICK J : J = {j \in 0 .. n + 2 : f[j] > c * n}
  OBVIOUS
<1>6. NewSize(size, n) = f[Min(J)]
  <2>1. f = CHOOSE g : g = [j \in 0 .. n + 2 |-> IF j = 0 THEN size ELSE 2 * g[j - 1]]
    BY <1>1 DEF Doubling
  <2> QED  BY <1>4, <1>5, <2>1 DEF NewSize
<1>7. J \in SUBSET Nat /\ J # {}
  <2>1. n + 2 \in 0 .. n + 2 /\ f[n + 2] \in Nat
    BY <1>3
  <2>2. f[n + 2] > c * n
    <3>1. PICK m \in Nat : m = f[n + 2] /\ m > 4 * n
      BY <1>3, <2>1
    <3> QED  BY <1>4, <3>1
  <2> QED  BY <1>5, <2>1, <2>2
<1>8. PICK j \in J : j = Min(J)
  <2>1. \E x \in J : \A y \in J : x <= y
    BY <1>7, Least
  <2> QED  BY <2>1 DEF Min
<1>9. PICK m \in Nat : m = f[j] /\ m >= size /\ PowerOfTwo(m) /\ m > c * n
  BY <1>3, <1>5, <1>8
<1>10. m > n
  BY <1>4, <1>9
<1> QED  BY <1>6, <1>8, <1>9, <1>10

\* The live slots are finitely many.
LEMMA LiveFinite ==
    ASSUME NEW t, TableOK(t)
    PROVE  /\ DOMAIN t = 0 .. Size(t) - 1 /\ IsFiniteSet(DOMAIN t) /\ Cardinality(DOMAIN t) = Size(t)
           /\ LiveSlots(t) \subseteq DOMAIN t /\ IsFiniteSet(LiveSlots(t)) /\ Cardinality(LiveSlots(t)) \in Nat
<1>1. DOMAIN t = 0 .. Size(t) - 1 /\ Size(t) \in Nat
  BY DEF TableOK
<1>2. IsFiniteSet(DOMAIN t) /\ Cardinality(DOMAIN t) = Size(t)
  BY <1>1, FS_Interval DEF Size
<1>3. LiveSlots(t) \subseteq DOMAIN t
  BY DEF LiveSlots
<1> QED  BY <1>1, <1>2, <1>3, FS_Subset, FS_CardinalityType

LEMMA LiveAfter ==
    ASSUME NEW t, NEW i \in DOMAIN t, NEW x, NEW s, s = [t EXCEPT ![i] = x]
    PROVE  /\ Live(x) => LiveSlots(s) = LiveSlots(t) \cup {i}
           /\ ~Live(x) => LiveSlots(s) = LiveSlots(t) \ {i}
<1>1. DOMAIN s = DOMAIN t /\ s[i] = x /\ \A j \in DOMAIN t : j # i => s[j] = t[j]
  OBVIOUS
<1> QED  BY <1>1 DEF LiveSlots, Live

\* The table dict_resize() is filling after the first n slots of the old one.
Refilled(s, t, size, n) ==
    /\ TableInv(s) /\ Size(s) = size
    /\ \A i \in DOMAIN s : s[i] # Dummy
    /\ \A i \in LiveSlots(s) : \E j \in LiveSlots(t) : j < n /\ s[i] = t[j]
    /\ \A j \in LiveSlots(t) : j < n => \E i \in LiveSlots(s) : s[i] = t[j]
    /\ Cardinality(LiveSlots(s)) = Cardinality({j \in LiveSlots(t) : j < n})

\* One more entry of the old table is put into the new one.
LEMMA RefillStep ==
    ASSUME HashesOK, NEW t, TableInv(t), NEW size \in Nat, size > Cardinality(LiveSlots(t)),
           NEW n \in LiveSlots(t), NEW s, Refilled(s, t, size, n)
    PROVE  Refilled(AddP(s, t[n]), t, size, n + 1)
<1>1. PICK e, k : e = t[n] /\ k = e.key
  OBVIOUS
<1>2. TableOK(t) /\ TableOK(s) /\ TableInv(s) /\ n \in DOMAIN t /\ n \in Nat /\ e \in Slot /\ Live(e) /\ k \in DOMAIN use.hash
  BY <1>1 DEF TableInv, TableOK, LiveSlots, Refilled
<1>3. PICK A, B : A = {j \in LiveSlots(t) : j < n} /\ B = {j \in LiveSlots(t) : j < n + 1}
  OBVIOUS
<1>4. LiveSlots(t) \subseteq Nat /\ IsFiniteSet(LiveSlots(t))
  BY <1>2, LiveFinite DEF TableOK
<1>5. B = A \cup {n} /\ n \notin A /\ A \subseteq LiveSlots(t) /\ B \subseteq LiveSlots(t)
  BY <1>2, <1>3, <1>4
<1>6. /\ IsFiniteSet(A) /\ Cardinality(B) = Cardinality(A) + 1 /\ Cardinality(A) \in Nat
      /\ Cardinality(B) <= Cardinality(LiveSlots(t)) /\ Cardinality(LiveSlots(t)) \in Nat
  BY <1>4, <1>5, FS_Subset, FS_AddElement, FS_CardinalityType
<1>7. Cardinality(LiveSlots(s)) = Cardinality(A)
  BY <1>3 DEF Refilled
<1>8. /\ IsFiniteSet(DOMAIN s) /\ Cardinality(DOMAIN s) = size /\ IsFiniteSet(LiveSlots(s)) /\ LiveSlots(s) \subseteq DOMAIN s
  BY <1>2, LiveFinite DEF Refilled
<1>9. PICK j \in DOMAIN s : s[j] = Empty
  <2>1. LiveSlots(s) # DOMAIN s
    BY <1>6, <1>7, <1>8
  <2> QED  BY <1>8, <2>1 DEF LiveSlots, Live, Refilled
<1>10. ASSUME NEW i \in LiveSlots(s) PROVE s[i].key # k
  <2>1. PICK m \in LiveSlots(t) : m < n /\ s[i] = t[m]
    BY DEF Refilled
  <2>2. m # n
    BY <1>2, <1>4, <2>1
  <2> QED  BY <1>1, <2>1, <2>2 DEF TableInv
<1>11. PICK l \in DOMAIN s : l = Lookup(s, k) /\ ~Live(s[l]) /\ Reached(s, k, l)
  <2>1. use.hash[k] \in Nat
    BY <1>2 DEF HashesOK
  <2>2. Lookup(s, k) # NoSlot
    BY <1>2, <1>9, <2>1, LookupRoom
  <2> QED  BY <1>2, <1>10, <2>1, <2>2, LookupMisses
<1>12. PICK r : r = [s EXCEPT ![l] = e] /\ r = AddP(s, t[n])
  BY <1>1, <1>11 DEF AddP
<1>13. TableInv(r)
  <2>1. e # Empty
    BY <1>2 DEF Live
  <2>2. Live(e) => /\ e.key \in DOMAIN use.hash /\ Reached(s, e.key, l)
                   /\ \A i \in LiveSlots(s) : s[i].key = e.key => i = l
    BY <1>1, <1>2, <1>10, <1>11
  <2>3. TableInv([s EXCEPT ![l] = e])
    BY <1>2, <2>1, <2>2, Change
  <2> QED  BY <1>12, <2>3
<1>14. LiveSlots(r) = LiveSlots(s) \cup {l} /\ l \notin LiveSlots(s)
  BY <1>2, <1>11, <1>12, LiveAfter DEF LiveSlots
<1>15. DOMAIN r = DOMAIN s /\ r[l] = e /\ \A i \in DOMAIN s : i # l => r[i] = s[i]
  BY <1>12
<1>16. Size(r) = size /\ \A i \in DOMAIN r : r[i] # Dummy
  BY <1>2, <1>15 DEF Size, Refilled, Live
<1>17. ASSUME NEW i \in LiveSlots(r) PROVE \E m \in LiveSlots(t) : m < n + 1 /\ r[i] = t[m]
  <2>1. CASE i = l
    BY <1>1, <1>2, <1>15, <2>1
  <2>2. CASE i # l
    <3>1. i \in LiveSlots(s) /\ r[i] = s[i]
      BY <1>8, <1>14, <1>15, <2>2
    <3>2. PICK m \in LiveSlots(t) : m < n /\ s[i] = t[m]
      BY <3>1 DEF Refilled
    <3>3. m < n + 1
      BY <1>2, <1>4, <3>2
    <3> QED  BY <3>1, <3>2, <3>3
  <2> QED  BY <2>1, <2>2
<1>18. ASSUME NEW m \in LiveSlots(t), m < n + 1 PROVE \E i \in LiveSlots(r) : r[i] = t[m]
  <2>1. CASE m = n
    BY <1>1, <1>14, <1>15, <2>1
  <2>2. CASE m # n
    <3>1. m < n
      BY <1>2, <1>4, <1>18, <2>2
    <3>2. PICK i \in LiveSlots(s) : s[i] = t[m]
      BY <3>1 DEF Refilled
    <3> QED  BY <1>8, <1>14, <1>15, <3>2
  <2> QED  BY <2>1, <2>2
<1>19. Cardinality(LiveSlots(r)) = Cardinality({j0 \in LiveSlots(t) : j0 < n + 1})
  <2>1. Cardinality(LiveSlots(r)) = Cardinality(B)
    BY <1>6, <1>7, <1>8, <1>14, FS_AddElement
  <2> QED  BY <1>3, <2>1
<1>20. Refilled(r, t, size, n + 1)
  BY <1>13, <1>16, <1>17, <1>18, <1>19, Zenon DEF Refilled
<1> QED  BY <1>12, <1>20

Filling(f, t, size) ==
    f = [n \in 0 .. Size(t) |-> IF n = 0 THEN Blank(size)
                                ELSE IF Live(t[n - 1]) THEN AddP(f[n - 1], t[n - 1])
                                ELSE f[n - 1]]

\* The function that dict_resize() fills the new table by exists.
LEMMA Fills ==
    ASSUME NEW t, TableOK(t), NEW size \in Nat
    PROVE  \E f : Filling(f, t, size)
<1>1. PICK T, h : T = [0 .. size - 1 -> Slot] /\ h = Size(t)
  OBVIOUS
<1>2. h \in Nat /\ DOMAIN t = 0 .. h - 1 /\ \A i \in DOMAIN t : t[i] \in Slot
  BY <1>1 DEF TableOK
<1>3. PICK b \in T : b = Blank(size)
  <2>1. Blank(size) \in T
    BY <1>1 DEF Blank, Slot
  <2> QED  BY <2>1
<1>4. PICK step : step = [p \in Nat \X T |-> IF p[1] - 1 \in DOMAIN t /\ Live(t[p[1] - 1]) THEN AddP(p[2], t[p[1] - 1]) ELSE p[2]]
  OBVIOUS
<1>5. ASSUME NEW n \in Nat, NEW s \in T
      PROVE  step[<<n, s>>] = IF n - 1 \in DOMAIN t /\ Live(t[n - 1]) THEN AddP(s, t[n - 1]) ELSE s
  BY <1>4
<1>6. step \in [Nat \X T -> T]
  <2>1. ASSUME NEW p \in Nat \X T PROVE step[p] \in T
    <3>1. PICK n \in Nat, s \in T : p = <<n, s>>
      OBVIOUS
    <3>2. ASSUME NEW e \in Slot PROVE AddP(s, e) \in T
      BY <1>1 DEF AddP
    <3> QED  BY <1>2, <1>5, <3>1, <3>2
  <2>2. DOMAIN step = Nat \X T /\ step = [p \in DOMAIN step |-> step[p]]
    BY <1>4
  <2> QED  BY <2>1, <2>2
<1>7. PICK f \in [0 .. h -> T] : Iteration(f, h, b, step)
  BY <1>2, <1>6, Iterates
<1>8. ASSUME NEW n \in 0 .. h
      PROVE  f[n] = IF n = 0 THEN Blank(size) ELSE IF Live(t[n - 1]) THEN AddP(f[n - 1], t[n - 1]) ELSE f[n - 1]
  <2>1. CASE n = 0
    BY <1>3, <1>7, <2>1 DEF Iteration
  <2>2. CASE n # 0
    <3>1. n \in Nat /\ f[n - 1] \in T /\ n - 1 \in DOMAIN t
      BY <1>2, <2>2
    <3>2. f[n] = step[<<n, f[n - 1]>>]
      BY <1>7, <2>2 DEF Iteration
    <3>3. f[n] = IF n - 1 \in DOMAIN t /\ Live(t[n - 1]) THEN AddP(f[n - 1], t[n - 1]) ELSE f[n - 1]
      BY <1>5, <3>1, <3>2
    <3> QED  BY <2>2, <3>1, <3>3
  <2> QED  BY <2>1, <2>2
<1>9. f = [n \in 0 .. h |-> IF n = 0 THEN Blank(size) ELSE IF Live(t[n - 1]) THEN AddP(f[n - 1], t[n - 1]) ELSE f[n - 1]]
  BY <1>8
<1> QED  BY <1>1, <1>9 DEF Filling

\* The larger table has the entries of the old one, each where its key's walk gets.
LEMMA RehashIs ==
    ASSUME HashesOK, NEW t, TableInv(t),
           NEW size \in Nat, size > Cardinality(LiveSlots(t)), PowerOfTwo(size)
    PROVE  Refilled(Rehash(t, size), t, size, Size(t))
<1>1. PICK f, h : f = (CHOOSE g : Filling(g, t, size)) /\ h = Size(t)
  OBVIOUS
<1>2. TableOK(t) /\ h \in Nat /\ DOMAIN t = 0 .. h - 1
  BY <1>1 DEF TableInv, TableOK
<1>3. Filling(f, t, size)
  BY <1>1, <1>2, Fills
<1>4. Rehash(t, size) = f[h]
  <2>1. f = CHOOSE g : g = [n \in 0 .. Size(t) |-> IF n = 0 THEN Blank(size)
                                ELSE IF Live(t[n - 1]) THEN AddP(g[n - 1], t[n - 1])
                                ELSE g[n - 1]]
    BY <1>1 DEF Filling
  <2> QED  BY <1>1, <2>1 DEF Rehash
<1>5. size > 0 /\ LiveSlots(t) \subseteq 0 .. h - 1
  BY <1>2, LiveFinite
<1>6. /\ f[0] = Blank(size)
      /\ \A n \in 0 .. h : n # 0 => f[n] = IF Live(t[n - 1]) THEN AddP(f[n - 1], t[n - 1]) ELSE f[n - 1]
  <2>1. ASSUME NEW n \in 0 .. h
        PROVE  f[n] = IF n = 0 THEN Blank(size) ELSE IF Live(t[n - 1]) THEN AddP(f[n - 1], t[n - 1]) ELSE f[n - 1]
    BY <1>1, <1>3, Zenon DEF Filling
  <2>2. 0 \in 0 .. h
    BY <1>2
  <2> QED  BY <2>1, <2>2
<1>7. PICK C : C = {n \in Nat : n \in 0 .. h => Refilled(f[n], t, size, n)}
  OBVIOUS
<1>8. C \in SUBSET Nat
  BY <1>7
<1>9. 0 \in C
  <2>1. PICK s : s = Blank(size)
    OBVIOUS
  <2>2. TableInv(s) /\ Size(s) = size /\ LiveSlots(s) = {} /\ \A i \in DOMAIN s : s[i] # Dummy
    BY <1>5, <2>1, BlankIs, Marks DEF Blank
  <2>3. {j \in LiveSlots(t) : j < 0} = {}
    BY <1>5
  <2>4. \A j \in LiveSlots(t) : ~(j < 0)
    BY <1>5
  <2>5. Refilled(s, t, size, 0)
    BY <2>2, <2>3, <2>4 DEF Refilled
  <2> QED  BY <1>6, <1>7, <2>1, <2>5
<1>10. ASSUME NEW n \in C PROVE n + 1 \in C
  <2>1. n \in Nat
    BY <1>8
  <2> SUFFICES ASSUME n + 1 \in 0 .. h PROVE Refilled(f[n + 1], t, size, n + 1)
    BY <1>7, <2>1
  <2>2. n \in 0 .. h /\ n \in DOMAIN t /\ n + 1 # 0 /\ (n + 1) - 1 = n
    BY <1>2, <2>1
  <2>3. PICK s : s = f[n] /\ Refilled(s, t, size, n)
    BY <1>7, <2>2
  <2>4. f[n + 1] = IF Live(t[n]) THEN AddP(s, t[n]) ELSE s
    BY <1>6, <2>2, <2>3
  <2>5. CASE Live(t[n])
    <3>1. n \in LiveSlots(t)
      BY <2>2, <2>5 DEF LiveSlots
    <3>2. Refilled(AddP(s, t[n]), t, size, n + 1)
      BY <2>3, <3>1, RefillStep
    <3> QED  BY <2>4, <2>5, <3>2
  <2>6. CASE ~Live(t[n])
    <3>1. n \notin LiveSlots(t)
      BY <2>6 DEF LiveSlots
    <3>2. \A j \in LiveSlots(t) : j < n + 1 <=> j < n
      BY <1>5, <2>1, <3>1
    <3>3. {j \in LiveSlots(t) : j < n + 1} = {j \in LiveSlots(t) : j < n}
      BY <3>2
    <3>4. Refilled(s, t, size, n + 1)
      BY <2>3, <3>2, <3>3 DEF Refilled
    <3> QED  BY <2>4, <2>6, <3>4
  <2> QED  BY <2>5, <2>6
<1>11. \A n \in Nat : n \in C
  BY <1>8, <1>9, <1>10, CountsUp
<1>12. h \in 0 .. h /\ h \in C
  BY <1>2, <1>11
<1> QED  BY <1>1, <1>4, <1>7, <1>12

-----------------------------------------------------------------------------
(* The inductive invariant.                                                *)

\* A dictionary holds c under k: an entry, or none.
Kept(t, k, c) ==
    \/ \E i \in LiveSlots(t) : t[i].key = k /\ t[i].val = c
    \/ c = NoValue /\ \A i \in LiveSlots(t) : t[i].key # k

\* An enumeration at r still comes to k.
Ahead(t, k, r) == \E i \in LiveSlots(t) : i >= r /\ t[i].key = k

DictInv ==
    /\ use \in Workloads
    /\ TableInv(table) /\ used = Cardinality(LiveSlots(table))
    /\ content \in [Keys -> Values \cup {NoValue}]
    /\ \A k \in DOMAIN use.hash : Kept(table, k, content[k])
    /\ \A k \in owed : k \in seen \/ (rank # NoRank /\ Ahead(table, k, rank))
    /\ DictTypeOK

LEMMA LiveEntry ==
    ASSUME NEW t, TableOK(t), NEW i \in LiveSlots(t)
    PROVE  i \in DOMAIN t /\ t[i] \in Entry /\ t[i].key \in Keys /\ t[i].val \in Values /\ i \in 0 .. Size(t) - 1
<1>1. i \in DOMAIN t /\ i \in 0 .. Size(t) - 1 /\ t[i] \in Slot /\ t[i] # Empty /\ t[i] # Dummy
  BY DEF TableOK, LiveSlots, Live
<1>2. t[i] \in Entry
  BY <1>1 DEF Slot
<1> QED  BY <1>1, <1>2 DEF Entry

LEMMA WorkloadOK ==
    ASSUME use \in Workloads
    PROVE  /\ HashesOK /\ DOMAIN use.hash \subseteq Keys /\ use.vals \subseteq Values
           /\ use.ops \in Nat /\ use.enums \in Nat
BY DictAssumption DEF IsWorkload, HashesOK

LEMMA EntryIs ==
    ASSUME NEW k \in Keys, NEW v \in Values, NEW e, e = [key |-> k, val |-> v]
    PROVE  e \in Slot /\ e # Empty /\ Live(e) /\ e.key = k /\ e.val = v
<1>1. e \in Entry /\ e.key = k /\ e.val = v
  BY DEF Entry
<1>2. e # Empty /\ e # Dummy
  BY <1>1, Marks
<1>3. Live(e)
  BY <1>2, LiveIs
<1> QED  BY <1>1, <1>2, <1>3 DEF Slot

\* What a lookup that ends returns.
Found(t, k, i) ==
    /\ i \in DOMAIN t /\ Reached(t, k, i)
    /\ \A j \in LiveSlots(t) : t[j].key = k => j = i
    /\ Live(t[i]) => t[i].key = k

LEMMA LookupFound ==
    ASSUME HashesOK, NEW t, TableInv(t), NEW k \in DOMAIN use.hash, Lookup(t, k) # NoSlot
    PROVE  Found(t, k, Lookup(t, k))
<1>1. use.hash[k] \in Nat /\ TableOK(t)
  BY DEF HashesOK, TableInv
<1>2. PICK i : i = Lookup(t, k)
  OBVIOUS
<1>3. CASE \E j \in LiveSlots(t) : t[j].key = k
  <2>1. PICK j \in LiveSlots(t) : t[j].key = k
    BY <1>3
  <2>2. i = j
    BY <1>2, <2>1, LookupFinds
  <2>3. \A l \in LiveSlots(t) : t[l].key = k => l = i
    BY <2>1, <2>2 DEF TableInv
  <2>4. j \in DOMAIN t /\ Reached(t, k, j)
    BY <2>1 DEF TableInv, LiveSlots
  <2> QED  BY <1>2, <2>1, <2>2, <2>3, <2>4 DEF Found
<1>4. CASE \A j \in LiveSlots(t) : t[j].key # k
  <2>1. i \in DOMAIN t /\ ~Live(t[i]) /\ Reached(t, k, i)
    BY <1>1, <1>2, <1>4, LookupMisses
  <2> QED  BY <1>2, <1>4, <2>1 DEF Found
<1> QED  BY <1>3, <1>4

\* An entry stored where the lookup for its key ended.
Placed(s, t, k, v, i) ==
    /\ TableInv(s) /\ Size(s) = Size(t)
    /\ i \in LiveSlots(s) /\ LiveSlots(s) = LiveSlots(t) \cup {i}
    /\ s[i].key = k /\ s[i].val = v
    /\ \A j \in LiveSlots(t) : s[j].key = t[j].key
    /\ \A j \in LiveSlots(t) : j # i => s[j] = t[j]

\* Storing a key at the slot its lookup ends at keeps the table in order.
LEMMA Puts ==
    ASSUME HashesOK, NEW t, TableInv(t), NEW k \in DOMAIN use.hash, k \in Keys, NEW v \in Values, NEW i, Found(t, k, i),
           NEW s, s = [t EXCEPT ![i] = [key |-> k, val |-> v]]
    PROVE  Placed(s, t, k, v, i)
<1>1. PICK e : e = [key |-> k, val |-> v]
  OBVIOUS
<1>2. e \in Slot /\ e # Empty /\ Live(e) /\ e.key = k /\ e.val = v
  BY <1>1, EntryIs
<1>3. i \in DOMAIN t
  BY DEF Found
<1>4. TableInv(s)
  <2>1. Live(e) => /\ e.key \in DOMAIN use.hash /\ Reached(t, e.key, i)
                   /\ \A j \in LiveSlots(t) : t[j].key = e.key => j = i
    BY <1>2 DEF Found
  <2>2. TableInv([t EXCEPT ![i] = e])
    BY <1>2, <1>3, <2>1, Change
  <2> QED  BY <1>1, <2>2
<1>5. LiveSlots(s) = LiveSlots(t) \cup {i}
  <2>1. s = [t EXCEPT ![i] = e]
    BY <1>1
  <2> QED  BY <1>2, <1>3, <2>1, LiveAfter
<1>6. DOMAIN s = DOMAIN t /\ s[i] = e /\ \A j \in DOMAIN t : j # i => s[j] = t[j]
  BY <1>1, <1>3
<1>7. Size(s) = Size(t)
  BY <1>6 DEF Size
<1>8. \A j \in LiveSlots(t) : j # i => s[j] = t[j]
  BY <1>6 DEF LiveSlots
<1>9. ASSUME NEW j \in LiveSlots(t) PROVE s[j].key = t[j].key
  <2>1. CASE j = i
    <3>1. Live(t[i])
      BY <2>1 DEF LiveSlots
    <3>2. t[i].key = k
      BY <3>1 DEF Found
    <3> QED  BY <1>2, <1>6, <2>1, <3>2
  <2> QED  BY <1>8, <2>1
<1> QED  BY <1>2, <1>4, <1>5, <1>6, <1>7, <1>8, <1>9 DEF Placed

LEMMA KeptPut ==
    ASSUME NEW s, NEW t, NEW k, NEW v, NEW i, Placed(s, t, k, v, i)
    PROVE  /\ Kept(s, k, v)
           /\ \A l, c : l # k /\ Kept(t, l, c) => Kept(s, l, c)
<1>1. Kept(s, k, v)
  BY DEF Placed, Kept
<1>2. ASSUME NEW l, NEW c, l # k, Kept(t, l, c) PROVE Kept(s, l, c)
  <2>1. CASE \E j \in LiveSlots(t) : t[j].key = l /\ t[j].val = c
    <3>1. PICK j \in LiveSlots(t) : t[j].key = l /\ t[j].val = c
      BY <2>1
    <3>2. j # i
      BY <1>2, <3>1 DEF Placed
    <3>3. s[j] = t[j] /\ j \in LiveSlots(s)
      BY <3>2 DEF Placed
    <3> QED  BY <3>1, <3>3 DEF Kept
  <2>2. CASE c = NoValue /\ \A j \in LiveSlots(t) : t[j].key # l
    <3>1. ASSUME NEW j \in LiveSlots(s) PROVE s[j].key # l
      BY <1>2, <2>2 DEF Placed
    <3> QED  BY <2>2, <3>1 DEF Kept
  <2> QED  BY <1>2, <2>1, <2>2 DEF Kept
<1> QED  BY <1>1, <1>2

\* What dict_resize() may make of a table.
Grown(t, o) ==
    /\ TableInv(t) /\ Cardinality(LiveSlots(t)) = Cardinality(LiveSlots(o))
    /\ Size(t) >= Size(o) /\ (Size(t) = Size(o) => t = o)
    /\ \A k, c : Kept(o, k, c) => Kept(t, k, c)
    /\ t = o \/ \E j \in DOMAIN t : t[j] = Empty

LEMMA ResizedGrown ==
    ASSUME HashesOK, TableInv(table), used = Cardinality(LiveSlots(table))
    PROVE  Grown(Resized(table), table)
<1>1. PICK size, n : size = Size(table) /\ n = NewSize(size, used)
  OBVIOUS
<1>2. TableOK(table) /\ size \in Nat /\ size > 0 /\ PowerOfTwo(size) /\ used \in Nat
  BY <1>1, LiveFinite DEF TableInv, TableOK
<1>3. n \in Nat /\ n >= size /\ n > used /\ PowerOfTwo(n)
  BY <1>1, <1>2, NewSizeIs
<1>4. CASE n = size
  <2>1. Resized(table) = table
    BY <1>1, <1>4 DEF Resized
  <2>2. Size(table) >= Size(table)
    BY <1>1, <1>2
  <2> QED  BY <2>1, <2>2 DEF Grown
<1>5. CASE n # size
  <2>1. PICK t : t = Resized(table)
    OBVIOUS
  <2>2. t = Rehash(table, n)
    BY <1>1, <1>5, <2>1 DEF Resized
  <2>3. Refilled(t, table, n, size)
    BY <1>1, <1>3, <2>2, RehashIs
  <2>4. \A j \in LiveSlots(table) : j < size
    BY <1>1, <1>2, LiveFinite
  <2>5. TableInv(t) /\ TableOK(t) /\ Size(t) = n
    BY <2>3 DEF Refilled, TableInv
  <2>6. Cardinality(LiveSlots(t)) = Cardinality(LiveSlots(table))
    <3>1. {j \in LiveSlots(table) : j < size} = LiveSlots(table)
      BY <2>4
    <3> QED  BY <2>3, <3>1 DEF Refilled
  <2>7. \E j \in DOMAIN t : t[j] = Empty
    <3>1. Cardinality(DOMAIN t) = n /\ LiveSlots(t) \subseteq DOMAIN t
      BY <2>5, LiveFinite
    <3>2. LiveSlots(t) # DOMAIN t
      BY <1>3, <2>6, <3>1
    <3>3. PICK j \in DOMAIN t : j \notin LiveSlots(t)
      BY <3>1, <3>2
    <3> QED  BY <2>3, <3>3 DEF LiveSlots, Live, Refilled
  <2>8. ASSUME NEW k, NEW c, Kept(table, k, c) PROVE Kept(t, k, c)
    <3>1. CASE \E j \in LiveSlots(table) : table[j].key = k /\ table[j].val = c
      <4>1. PICK j \in LiveSlots(table) : table[j].key = k /\ table[j].val = c
        BY <3>1
      <4>2. PICK i \in LiveSlots(t) : t[i] = table[j]
        BY <2>3, <2>4 DEF Refilled
      <4> QED  BY <4>1, <4>2 DEF Kept
    <3>2. CASE c = NoValue /\ \A j \in LiveSlots(table) : table[j].key # k
      <4>1. ASSUME NEW i \in LiveSlots(t) PROVE t[i].key # k
        BY <2>3, <3>2 DEF Refilled
      <4> QED  BY <3>2, <4>1 DEF Kept
    <3> QED  BY <2>8, <3>1, <3>2 DEF Kept
  <2>9. Size(t) >= Size(table) /\ Size(t) # Size(table)
    BY <1>1, <1>3, <1>5, <2>5
  <2> QED  BY <2>1, <2>5, <2>6, <2>7, <2>8, <2>9 DEF Grown
<1> QED  BY <1>4, <1>5

LEMMA TableCarries ==
    ASSUME NEW s, TableInv(s), table' = s, use' = use
    PROVE  TableInv(table)'
BY DEF TableInv, Reached, Path

\* The inductive invariant holds at first.
LEMMA DictStarts ==
    ASSUME DictStart
    PROVE  DictInv
<1>1. MinSize \in Nat /\ MinSize > 0 /\ PowerOfTwo(MinSize)
  BY DictAssumption
<1>2. use \in Workloads /\ use.ops \in Nat /\ use.enums \in Nat /\ table = Blank(MinSize)
  BY WorkloadOK DEF DictStart
<1>3. TableInv(table) /\ Size(table) = MinSize /\ LiveSlots(table) = {}
  BY <1>1, <1>2, BlankIs
<1>4. used = Cardinality(LiveSlots(table))
  BY <1>3, FS_EmptySet DEF DictStart
<1>5. content \in [Keys -> Values \cup {NoValue}]
  BY DEF DictStart
<1>6. \A k \in DOMAIN use.hash : Kept(table, k, content[k])
  <2>1. DOMAIN use.hash \subseteq Keys
    BY <1>2, WorkloadOK
  <2>2. \A k \in DOMAIN use.hash : content[k] = NoValue
    BY <2>1 DEF DictStart
  <2> QED  BY <1>3, <2>2 DEF Kept
<1>7. DictTypeOK
  <2>1. DOMAIN table = 0 .. Size(table) - 1 /\ \A i \in DOMAIN table : table[i] \in Entry \cup {Empty, Dummy}
    BY <1>3 DEF TableInv, TableOK, Slot
  <2>2. used \in 0 .. ops /\ fill \in 0 .. ops /\ seen \subseteq Keys /\ owed \subseteq Keys
    BY DEF DictStart
  <2>5. stuck \in BOOLEAN
    BY Zenon DEF DictStart
  <2>3. rank \in NoRank .. Size(table)
    BY <1>1, <1>3 DEF DictStart, NoRank
  <2>4. ops \in 0 .. use.ops /\ enums \in 0 .. use.enums
    BY <1>2 DEF DictStart
  <2> QED  BY <2>1, <2>2, <2>3, <2>4, <2>5 DEF DictTypeOK
<1>8. \A k \in owed : FALSE
  BY DEF DictStart
<1> QED  BY <1>2, <1>3, <1>4, <1>5, <1>6, <1>7, <1>8 DEF DictInv

\* Steps that leave the table as it was.
LEMMA LookKeeps ==
    ASSUME DictInv,
           UNCHANGED <<use, table, counters, ops, content>>,
           stuck' \in BOOLEAN, seen' \subseteq Keys, owed' \subseteq Keys,
           rank' \in NoRank .. Size(table), enums' \in 0 .. use.enums,
           \A k \in owed' : k \in seen' \/ (rank' # NoRank /\ Ahead(table, k, rank'))
    PROVE  DictInv'
<1>1. TableInv(table)'
  BY TableCarries DEF DictInv
<1>2. table' = table /\ use' = use /\ used' = used /\ fill' = fill /\ ops' = ops /\ content' = content
  BY DEF counters
<1>3. DictTypeOK'
  BY <1>2 DEF DictInv, DictTypeOK
<1>4. (\A k \in owed : k \in seen \/ (rank # NoRank /\ Ahead(table, k, rank)))'
  BY <1>2 DEF Ahead, LiveSlots
<1>5. (\A k \in DOMAIN use.hash : Kept(table, k, content[k]))'
  BY <1>2 DEF DictInv, Kept, LiveSlots
<1> QED  BY <1>1, <1>2, <1>3, <1>4, <1>5 DEF DictInv, LiveSlots

\* The invariant is kept by each operation; a lookup that runs on leaves the table alone.
LEMMA RunsOnKeeps ==
    ASSUME DictInv, NEW k \in DOMAIN use.hash, LookupRunsOn(k)
    PROVE  DictInv'
<1>1. UNCHANGED <<use, table, counters, ops, content>> /\ rank' = rank /\ seen' = seen /\ owed' = owed /\ enums' = enums
  BY DEF LookupRunsOn, cursor
<1>2. stuck' \in BOOLEAN
  BY Zenon DEF LookupRunsOn
<1>3. \A l \in owed' : l \in seen' \/ (rank' # NoRank /\ Ahead(table, l, rank'))
  BY <1>1 DEF DictInv
<1>4. seen' \subseteq Keys /\ owed' \subseteq Keys /\ rank' \in NoRank .. Size(table) /\ enums' \in 0 .. use.enums
  BY <1>1 DEF DictInv, DictTypeOK
<1> QED  BY <1>1, <1>2, <1>3, <1>4, LookKeeps

LEMMA StartKeeps ==
    ASSUME DictInv, EnumerateStart
    PROVE  DictInv'
<1>1. UNCHANGED <<use, table, counters, ops, content>> /\ rank' = 0 /\ seen' = {} /\ owed' = KeysIn(table)
  BY DEF EnumerateStart
<1>2. stuck' \in BOOLEAN
  BY DEF EnumerateStart, DictInv, DictTypeOK
<1>3. TableOK(table) /\ Size(table) \in Nat
  BY DEF DictInv, TableInv, TableOK
<1>4. ASSUME NEW l \in KeysIn(table) PROVE l \in Keys /\ Ahead(table, l, 0)
  <2>1. PICK i \in LiveSlots(table) : l = table[i].key
    BY DEF KeysIn
  <2>2. table[i].key \in Keys /\ i \in 0 .. Size(table) - 1
    BY <1>3, LiveEntry
  <2>3. i >= 0
    BY <1>3, <2>2
  <2> QED  BY <2>1, <2>2, <2>3 DEF Ahead
<1>5. rank' \in NoRank .. Size(table) /\ rank' # NoRank
  BY <1>1, <1>3 DEF NoRank
<1>6. enums' \in 0 .. use.enums
  <2>1. use.enums \in Nat
    BY WorkloadOK DEF DictInv
  <2> QED  BY <2>1 DEF EnumerateStart, DictInv, DictTypeOK
<1>7. \A l \in owed' : l \in seen' \/ (rank' # NoRank /\ Ahead(table, l, rank'))
  BY <1>1, <1>4, <1>5
<1>8. seen' \subseteq Keys /\ owed' \subseteq Keys
  BY <1>1, <1>4
<1> QED  BY <1>1, <1>2, <1>5, <1>6, <1>7, <1>8, LookKeeps

LEMMA NextKeeps ==
    ASSUME DictInv, EnumerateNext
    PROVE  DictInv'
<1>1. PICK left : left = {j \in LiveSlots(table) : j >= rank}
  OBVIOUS
<1>2. PICK i : i = CHOOSE j \in left : \A m \in left : j <= m
  OBVIOUS
<1>3. /\ UNCHANGED <<use, table, counters, ops, content>> /\ stuck' = stuck /\ owed' = owed /\ enums' = enums
      /\ rank # NoRank /\ left # {} /\ rank' = i + 1 /\ seen' = seen \cup {table[i].key}
  BY <1>1, <1>2 DEF EnumerateNext, AfterRank
<1>4. TableOK(table) /\ Size(table) \in Nat /\ LiveSlots(table) \subseteq 0 .. Size(table) - 1
  BY LiveFinite DEF DictInv, TableInv, TableOK
<1>5. i \in left /\ \A m \in left : i <= m
  <2>1. left \in SUBSET Nat
    BY <1>1, <1>4
  <2>2. \E j \in left : \A m \in left : j <= m
    BY <1>3, <2>1, Least
  <2> QED  BY <1>2, <2>2
<1>6. i \in LiveSlots(table) /\ i \in 0 .. Size(table) - 1 /\ table[i].key \in Keys
  BY <1>1, <1>4, <1>5, LiveEntry
<1>7. rank' \in NoRank .. Size(table) /\ rank' # NoRank
  BY <1>3, <1>4, <1>6 DEF NoRank
<1>8. ASSUME NEW l \in owed' PROVE l \in seen' \/ Ahead(table, l, rank')
  <2>1. CASE l \in seen
    BY <1>3, <2>1
  <2>2. CASE Ahead(table, l, rank)
    <3>1. PICK j \in LiveSlots(table) : j >= rank /\ table[j].key = l
      BY <2>2 DEF Ahead
    <3>2. j \in left /\ i <= j
      BY <1>1, <1>5, <3>1
    <3>3. CASE j = i
      BY <1>3, <3>1, <3>3
    <3>4. CASE j # i
      <4>1. j >= i + 1
        BY <1>4, <1>6, <3>2, <3>4
      <4> QED  BY <1>3, <3>1, <4>1 DEF Ahead
    <3> QED  BY <3>3, <3>4
  <2> QED  BY <1>3, <2>1, <2>2 DEF DictInv
<1>9. \A l \in owed' : l \in seen' \/ (rank' # NoRank /\ Ahead(table, l, rank'))
  BY <1>7, <1>8
<1>10. stuck' \in BOOLEAN /\ seen' \subseteq Keys /\ owed' \subseteq Keys /\ enums' \in 0 .. use.enums
  BY <1>3, <1>6 DEF DictInv, DictTypeOK
<1> QED  BY <1>3, <1>7, <1>9, <1>10, LookKeeps

LEMMA EndKeeps ==
    ASSUME DictInv, EnumerateEnd
    PROVE  DictInv'
<1>1. /\ UNCHANGED <<use, table, counters, ops, content>> /\ stuck' = stuck /\ seen' = seen /\ owed' = owed /\ enums' = enums
      /\ rank' = NoRank /\ rank # NoRank /\ \A i \in LiveSlots(table) : i < rank
  BY DEF EnumerateEnd
<1>2. TableOK(table) /\ Size(table) \in Nat /\ LiveSlots(table) \subseteq 0 .. Size(table) - 1 /\ rank \in NoRank .. Size(table)
  BY LiveFinite DEF DictInv, TableInv, TableOK, DictTypeOK
<1>3. \A i \in LiveSlots(table) : ~(i >= rank)
  BY <1>1, <1>2 DEF NoRank
<1>4. \A l \in owed' : l \in seen' \/ (rank' # NoRank /\ Ahead(table, l, rank'))
  BY <1>1, <1>3 DEF DictInv, Ahead
<1>5. rank' \in NoRank .. Size(table)
  BY <1>1, <1>2 DEF NoRank
<1>6. stuck' \in BOOLEAN /\ seen' \subseteq Keys /\ owed' \subseteq Keys /\ enums' \in 0 .. use.enums
  BY <1>1 DEF DictInv, DictTypeOK
<1> QED  BY <1>1, <1>4, <1>5, <1>6, LookKeeps

\* Steps that change the table to s.
LEMMA TurnKeeps ==
    ASSUME DictInv, NEW s, TableInv(s), table' = s, use' = use,
           used' = Cardinality(LiveSlots(s)), used' \in 0 .. ops', fill' \in 0 .. ops', ops' \in 0 .. use.ops,
           content' \in [Keys -> Values \cup {NoValue}],
           \A k \in DOMAIN use.hash : Kept(s, k, content'[k]),
           Size(s) >= Size(table), rank' = rank, enums' = enums, seen' = seen, stuck' = stuck,
           owed' \subseteq Keys,
           \A k \in owed' : k \in seen \/ (rank # NoRank /\ Ahead(s, k, rank))
    PROVE  DictInv'
<1>1. TableInv(table)'
  BY TableCarries
<1>2. (used = Cardinality(LiveSlots(table)))'
  BY DEF LiveSlots
<1>3. DictTypeOK'
  <2>1. DOMAIN s = 0 .. Size(s) - 1 /\ \A i \in DOMAIN s : s[i] \in Entry \cup {Empty, Dummy}
    BY DEF TableInv, TableOK, Slot
  <2>2. rank \in NoRank .. Size(s)
    <3>1. Size(s) \in Nat /\ Size(table) \in Nat /\ rank \in NoRank .. Size(table)
      BY DEF DictInv, TableInv, TableOK, DictTypeOK
    <3> QED  BY <3>1 DEF NoRank
  <2>3. stuck \in BOOLEAN /\ seen \subseteq Keys /\ enums \in 0 .. use.enums
    BY DEF DictInv, DictTypeOK
  <2> QED  BY <2>1, <2>2, <2>3 DEF DictTypeOK
<1>4. (\A k \in owed : k \in seen \/ (rank # NoRank /\ Ahead(table, k, rank)))'
  BY DEF Ahead, LiveSlots
<1>5. (\A k \in DOMAIN use.hash : Kept(table, k, content[k]))'
  BY DEF Kept, LiveSlots
<1> QED  BY <1>1, <1>2, <1>3, <1>4, <1>5 DEF DictInv

\* dict_del() leaves a slot that walks still pass over.
LEMMA DelKeeps ==
    ASSUME DictInv, NEW k \in DOMAIN use.hash, DictDel(k)
    PROVE  DictInv'
<1>1. PICK i : i = Lookup(table, k)
  OBVIOUS
<1>2. /\ i # NoSlot /\ Live(table[i]) /\ ops < use.ops
      /\ table' = [table EXCEPT ![i] = Dummy] /\ used' = used - 1 /\ owed' = owed \ {k}
      /\ content' = [content EXCEPT ![k] = NoValue] /\ ops' = ops + 1
      /\ use' = use /\ fill' = fill /\ stuck' = stuck /\ rank' = rank /\ seen' = seen /\ enums' = enums
  BY <1>1 DEF DictDel, Gone
<1>3. HashesOK /\ k \in Keys /\ TableInv(table) /\ TableOK(table) /\ use.ops \in Nat
  BY WorkloadOK DEF DictInv, TableInv
<1>4. Found(table, k, i)
  BY <1>1, <1>2, <1>3, LookupFound
<1>5. i \in LiveSlots(table) /\ table[i].key = k /\ i \in DOMAIN table
  BY <1>2, <1>4 DEF Found, LiveSlots
<1>6. PICK s : s = [table EXCEPT ![i] = Dummy]
  OBVIOUS
<1>7. ~Live(Dummy)
  BY DEF Live
<1>8. TableInv(s)
  <2>1. PICK x : x = Dummy
    OBVIOUS
  <2>2. x \in Slot /\ x # Empty
    BY <2>1, Marks DEF Slot
  <2>3. Live(x) => /\ x.key \in DOMAIN use.hash /\ Reached(table, x.key, i)
                   /\ \A j \in LiveSlots(table) : table[j].key = x.key => j = i
    BY <1>7, <2>1
  <2>4. TableInv([table EXCEPT ![i] = x])
    BY <1>3, <1>5, <2>2, <2>3, Change
  <2> QED  BY <1>6, <2>1, <2>4
<1>9. LiveSlots(s) = LiveSlots(table) \ {i}
  BY <1>5, <1>6, <1>7, LiveAfter
<1>10. IsFiniteSet(LiveSlots(table)) /\ Cardinality(LiveSlots(table)) \in Nat
  BY <1>3, LiveFinite
<1>11. used' = Cardinality(LiveSlots(s)) /\ used' \in Nat
  <2>1. Cardinality(LiveSlots(table) \ {i}) = Cardinality(LiveSlots(table)) - 1
    BY <1>5, <1>10, FS_RemoveElement
  <2>2. IsFiniteSet(LiveSlots(s))
    BY <1>9, <1>10, FS_Subset
  <2>3. Cardinality(LiveSlots(s)) \in Nat
    BY <2>2, FS_CardinalityType
  <2>4. used = Cardinality(LiveSlots(table))
    BY DEF DictInv
  <2> QED  BY <1>2, <1>9, <1>10, <2>1, <2>3, <2>4
<1>12. used' \in 0 .. ops' /\ fill' \in 0 .. ops' /\ ops' \in 0 .. use.ops
  <2>1. used \in 0 .. ops /\ fill \in 0 .. ops /\ ops \in 0 .. use.ops
    BY DEF DictInv, DictTypeOK
  <2> QED  BY <1>2, <1>3, <1>11, <2>1
<1>13. content' \in [Keys -> Values \cup {NoValue}]
  BY <1>2 DEF DictInv
<1>14. DOMAIN s = DOMAIN table /\ \A j \in DOMAIN table : j # i => s[j] = table[j]
  BY <1>5, <1>6
<1>15. \A j \in LiveSlots(s) : j \in LiveSlots(table) /\ j # i /\ s[j] = table[j] /\ table[j].key # k
  BY <1>4, <1>9, <1>14 DEF Found, LiveSlots
<1>16. \A j \in LiveSlots(table) : table[j].key # k => j \in LiveSlots(s) /\ s[j] = table[j]
  BY <1>5, <1>9, <1>14 DEF LiveSlots
<1>17. ASSUME NEW l \in DOMAIN use.hash PROVE Kept(s, l, content'[l])
  <2>1. Kept(table, l, content[l]) /\ content \in [Keys -> Values \cup {NoValue}] /\ l \in Keys
    BY WorkloadOK DEF DictInv
  <2>2. CASE l = k
    <3>1. content'[l] = NoValue
      BY <1>2, <2>1, <2>2
    <3> QED  BY <1>15, <2>2, <3>1 DEF Kept
  <2>3. CASE l # k
    <3>1. content'[l] = content[l]
      BY <1>2, <2>1, <2>3
    <3>2. CASE \E j \in LiveSlots(table) : table[j].key = l /\ table[j].val = content[l]
      BY <1>16, <2>3, <3>1, <3>2 DEF Kept
    <3>3. CASE content[l] = NoValue /\ \A j \in LiveSlots(table) : table[j].key # l
      BY <1>15, <3>1, <3>3 DEF Kept
    <3> QED  BY <2>1, <3>2, <3>3 DEF Kept
  <2> QED  BY <2>2, <2>3
<1>18. ASSUME NEW l \in owed' PROVE l \in seen \/ (rank # NoRank /\ Ahead(s, l, rank))
  <2>1. l \in owed /\ l # k
    BY <1>2
  <2>2. CASE l \in seen
    BY <2>2
  <2>3. CASE rank # NoRank /\ Ahead(table, l, rank)
    <3>1. PICK j \in LiveSlots(table) : j >= rank /\ table[j].key = l
      BY <2>3 DEF Ahead
    <3> QED  BY <1>16, <2>1, <2>3, <3>1 DEF Ahead
  <2> QED  BY <2>1, <2>2, <2>3 DEF DictInv
<1>19. owed' \subseteq Keys
  BY <1>2 DEF DictInv, DictTypeOK
<1>20. Size(s) >= Size(table)
  BY <1>3, <1>14 DEF Size, TableOK
<1>21. table' = s
  BY <1>2, <1>6
<1> QED  BY <1>2, <1>8, <1>11, <1>12, <1>13, <1>17, <1>18, <1>19, <1>20, <1>21, TurnKeeps

\* dict_add(), with the table growing or not.
LEMMA AddKeeps ==
    ASSUME DictInv, NEW k \in DOMAIN use.hash, NEW v \in use.vals, DictAdd(k, v)
    PROVE  DictInv'
<1>1. PICK slot : slot = Lookup(table, k)
  OBVIOUS
<1>2. PICK t, i : \/ /\ ~Live(table[slot]) /\ Crowded(table)
                     /\ t = Resized(table) /\ i = Lookup(t, k)
                  \/ ~(~Live(table[slot]) /\ Crowded(table)) /\ t = table /\ i = slot
  OBVIOUS
<1>3. /\ slot # NoSlot /\ ops < use.ops
      /\ table' = [t EXCEPT ![i] = [key |-> k, val |-> v]]
      /\ used' = (IF Live(t[i]) THEN used ELSE used + 1)
      /\ fill' = FillAfter(t, i, IF Size(t) # Size(table) THEN used ELSE fill)
      /\ owed' = (IF Size(t) # Size(table) THEN {} ELSE owed)
      /\ content' = [content EXCEPT ![k] = v] /\ ops' = ops + 1
      /\ use' = use /\ stuck' = stuck /\ rank' = rank /\ seen' = seen /\ enums' = enums
  BY <1>1, <1>2 DEF DictAdd
<1>4. HashesOK /\ k \in Keys /\ v \in Values /\ TableInv(table) /\ TableOK(table) /\ use.ops \in Nat
  BY WorkloadOK DEF DictInv, TableInv
<1>5. used = Cardinality(LiveSlots(table))
  BY DEF DictInv
<1>6. Grown(t, table)
  <2>1. Grown(table, table)
    BY <1>4, LiveFinite DEF Grown, TableOK
  <2>2. Grown(Resized(table), table)
    BY <1>4, <1>5, ResizedGrown
  <2> QED  BY <1>2, <2>1, <2>2
<1>7. TableInv(t) /\ TableOK(t) /\ Cardinality(LiveSlots(t)) = used /\ Size(t) >= Size(table)
  BY <1>5, <1>6 DEF Grown, TableInv
<1>8. i = Lookup(t, k) /\ i # NoSlot
  <2>1. CASE t = table
    BY <1>1, <1>2, <1>3, <2>1
  <2>2. CASE t # table
    <3>1. PICK j \in DOMAIN t : t[j] = Empty
      BY <1>6, <2>2 DEF Grown
    <3>2. use.hash[k] \in Nat
      BY <1>4 DEF HashesOK
    <3> QED  BY <1>2, <1>7, <2>2, <3>1, <3>2, LookupRoom
  <2> QED  BY <2>1, <2>2
<1>9. Found(t, k, i)
  BY <1>4, <1>7, <1>8, LookupFound
<1>10. PICK s : s = [t EXCEPT ![i] = [key |-> k, val |-> v]]
  OBVIOUS
<1>11. Placed(s, t, k, v, i)
  BY <1>4, <1>7, <1>9, <1>10, Puts
<1>12. IsFiniteSet(LiveSlots(t)) /\ used \in Nat
  BY <1>4, <1>5, <1>7, LiveFinite
<1>13. used' = Cardinality(LiveSlots(s)) /\ used' \in {used, used + 1}
  <2>1. LiveSlots(s) = LiveSlots(t) \cup {i} /\ i \in DOMAIN t
    BY <1>9, <1>11 DEF Placed, Found
  <2>2. CASE Live(t[i])
    <3>1. LiveSlots(s) = LiveSlots(t)
      BY <2>1, <2>2 DEF LiveSlots
    <3> QED  BY <1>3, <1>7, <2>2, <3>1
  <2>3. CASE ~Live(t[i])
    <3>1. i \notin LiveSlots(t)
      BY <2>3 DEF LiveSlots
    <3>2. Cardinality(LiveSlots(s)) = Cardinality(LiveSlots(t)) + 1
      BY <1>12, <2>1, <3>1, FS_AddElement
    <3> QED  BY <1>3, <1>7, <2>3, <3>2
  <2> QED  BY <2>2, <2>3
<1>14. used' \in 0 .. ops' /\ fill' \in 0 .. ops' /\ ops' \in 0 .. use.ops
  <2>1. used \in 0 .. ops /\ fill \in 0 .. ops /\ ops \in 0 .. use.ops
    BY DEF DictInv, DictTypeOK
  <2>2. ops' = ops + 1 /\ ops < use.ops
    BY <1>3
  <2>3. PICK f \in 0 .. ops : f = IF Size(t) # Size(table) THEN used ELSE fill
    BY <2>1
  <2>4. fill' = f \/ fill' = f + 1
    BY <1>3, <2>3 DEF FillAfter
  <2> QED  BY <1>4, <1>13, <2>1, <2>2, <2>3, <2>4
<1>15. content' \in [Keys -> Values \cup {NoValue}]
  BY <1>3, <1>4 DEF DictInv
<1>16. ASSUME NEW l \in DOMAIN use.hash PROVE Kept(s, l, content'[l])
  <2>1. Kept(table, l, content[l]) /\ content \in [Keys -> Values \cup {NoValue}] /\ l \in Keys
    BY WorkloadOK DEF DictInv
  <2>2. Kept(t, l, content[l])
    BY <1>6, <2>1 DEF Grown
  <2>3. CASE l = k
    <3>1. content'[l] = v
      BY <1>3, <2>1, <2>3
    <3> QED  BY <1>11, <2>3, <3>1, KeptPut
  <2>4. CASE l # k
    <3>1. content'[l] = content[l]
      BY <1>3, <2>1, <2>4
    <3> QED  BY <1>11, <2>2, <2>4, <3>1, KeptPut
  <2> QED  BY <2>3, <2>4
<1>17. ASSUME NEW l \in owed' PROVE l \in seen \/ (rank # NoRank /\ Ahead(s, l, rank))
  <2>1. Size(t) = Size(table) /\ l \in owed
    BY <1>3
  <2>2. t = table
    BY <1>6, <2>1 DEF Grown
  <2>3. CASE l \in seen
    BY <2>3
  <2>4. CASE rank # NoRank /\ Ahead(table, l, rank)
    <3>1. PICK j \in LiveSlots(table) : j >= rank /\ table[j].key = l
      BY <2>4 DEF Ahead
    <3>2. j \in LiveSlots(s) /\ s[j].key = l
      BY <1>11, <2>2, <3>1 DEF Placed
    <3> QED  BY <2>4, <3>1, <3>2 DEF Ahead
  <2> QED  BY <2>1, <2>3, <2>4 DEF DictInv
<1>18. owed' \subseteq Keys
  BY <1>3 DEF DictInv, DictTypeOK
<1>19. TableInv(s) /\ Size(s) >= Size(table)
  BY <1>7, <1>11 DEF Placed
<1>20. table' = s
  BY <1>3, <1>10
<1> QED  BY <1>3, <1>13, <1>14, <1>15, <1>16, <1>17, <1>18, <1>19, <1>20, TurnKeeps

LEMMA DictSteps ==
    ASSUME DictInv, [DictNext]_dictVars
    PROVE  DictInv'
<1>1. CASE DictNext
  BY <1>1, AddKeeps, DelKeeps, RunsOnKeeps, StartKeeps, NextKeeps, EndKeeps DEF DictNext
<1>2. CASE UNCHANGED dictVars
  <2>1. /\ UNCHANGED <<use, table, counters, ops, content>>
        /\ stuck' = stuck /\ rank' = rank /\ seen' = seen /\ owed' = owed /\ enums' = enums
    BY <1>2 DEF dictVars, cursor
  <2>2. \A l \in owed' : l \in seen' \/ (rank' # NoRank /\ Ahead(table, l, rank'))
    BY <2>1 DEF DictInv
  <2>3. /\ stuck' \in BOOLEAN /\ seen' \subseteq Keys /\ owed' \subseteq Keys
        /\ rank' \in NoRank .. Size(table) /\ enums' \in 0 .. use.enums
    BY <2>1 DEF DictInv, DictTypeOK
  <2> QED  BY <2>1, <2>2, <2>3, LookKeeps
<1> QED  BY <1>1, <1>2

LEMMA DictAlways == DictSpec => []DictInv
<1>1. DictStart => DictInv
  BY DictStarts
<1>2. DictInv /\ [DictNext]_dictVars => DictInv'
  BY DictSteps
<1> QED  BY <1>1, <1>2, PTL DEF DictSpec

-----------------------------------------------------------------------------
\* A lookup of dict.c that ran to its horizon has seen every slot: the probe
\* sequence i = 5 * i + perturb + 1, with perturb >>= 5, visits each slot of a table
\* whose size is a power of two, whatever the hash.
THEOREM ProbesCoverTheTable ==
    ASSUME NEW hash \in Nat, NEW size \in Nat, size > 0, PowerOfTwo(size)
    PROVE  \A j \in 0 .. size - 1 : \E n \in 0 .. Horizon(size) : Probe(hash, size)[n] = j
BY ProbeCovers

\* The dictionary's counters, table and enumeration keep their types, whatever the
\* calls of dict_add(), dict_del() and dict_enumerate().
THEOREM DictTypes == DictSpec => []DictTypeOK
<1>1. DictInv => DictTypeOK
  BY DEF DictInv
<1> QED  BY <1>1, DictAlways, PTL

\* dict_get() finds under every key what the last dict_add() or dict_del() of that
\* key left there, whatever tombstones and resizes came between.
THEOREM AlwaysFindsWhatWasStored == DictSpec => []FindsWhatWasStored
<1>1. ASSUME DictInv, NEW k \in DOMAIN use.hash PROVE Get(table, k) = content[k]
  <2>1. HashesOK /\ TableInv(table) /\ TableOK(table) /\ use.hash[k] \in Nat /\ Kept(table, k, content[k])
    BY <1>1, WorkloadOK DEF DictInv, TableInv, HashesOK
  <2>2. CASE \E i \in LiveSlots(table) : table[i].key = k /\ table[i].val = content[k]
    <3>1. PICK i \in LiveSlots(table) : table[i].key = k /\ table[i].val = content[k]
      BY <2>2
    <3>2. Lookup(table, k) = i
      BY <2>1, <3>1, LookupFinds
    <3>3. Live(table[i]) /\ i # NoSlot
      BY <2>1 DEF LiveSlots, TableOK, NoSlot
    <3> QED  BY <3>1, <3>2, <3>3 DEF Get
  <2>3. CASE content[k] = NoValue /\ \A i \in LiveSlots(table) : table[i].key # k
    <3>1. Lookup(table, k) = NoSlot \/ ~Live(table[Lookup(table, k)])
      BY <2>1, <2>3, LookupMisses
    <3> QED  BY <2>3, <3>1 DEF Get
  <2> QED  BY <2>1, <2>2, <2>3 DEF Kept
<1>2. DictInv => FindsWhatWasStored
  BY <1>1 DEF FindsWhatWasStored
<1> QED  BY <1>2, DictAlways, PTL

\* dict_enumerate() run to its end has returned every key that was in the dictionary
\* from its start to its end, unless a resize moved the entries meanwhile.
THEOREM EnumerationAlwaysComplete == DictSpec => []EnumerationIsComplete
<1>1. DictInv => EnumerationIsComplete
  BY DEF DictInv, EnumerationIsComplete
<1> QED  BY <1>1, DictAlways, PTL

-----------------------------------------------------------------------------
(* The typed getters.                                                      *)

LEMMA Reduced ==
    ASSUME NEW d \in Nat, NEW n \in Int
    PROVE  /\ n \in 0 .. d - 1 => n % d = n
           /\ n \in -d .. -1 => n % d = n + d
<1> SUFFICES ASSUME n \in -d .. d - 1, d > 0 PROVE n % d = IF n >= 0 THEN n ELSE n + d
  OBVIOUS
<1>1. n \div d \in Int /\ n % d \in 0 .. d - 1 /\ n = d * (n \div d) + (n % d)
  BY Divides
<1>2. PICK a, q \in Int : a = n % d /\ q = n \div d
  BY <1>1
<1>3. a \in 0 .. d - 1 /\ a + d * q = n
  BY <1>1, <1>2
<1>4. CASE n >= 0
  <2>1. n \in 0 .. d - 1 /\ n + d * 0 = n /\ 0 \in Int
    BY <1>4
  <2>2. a = n
    BY <1>3, <2>1, Remainder
  <2> QED  BY <1>2, <1>4, <2>2
<1>5. CASE n < 0
  <2>1. PICK m \in 0 .. d - 1 : m = n + d
    BY <1>5
  <2>2. m + d * (-1) = n /\ -1 \in Int
    BY <2>1
  <2>3. a = m
    BY <1>3, <2>1, <2>2, Remainder
  <2> QED  BY <1>2, <1>5, <2>1, <2>3
<1> QED  BY <1>4, <1>5

LEMMA Bounds ==
    ASSUME NEW a \in Int, NEW b \in Int, a <= b
    PROVE  Low(a .. b) = a /\ High(a .. b) = b
<1>1. PICK l : l = CHOOSE n \in a .. b : \A m \in a .. b : n <= m
  OBVIOUS
<1>2. a \in a .. b /\ (\A m \in a .. b : a <= m) /\ b \in a .. b /\ \A m \in a .. b : m <= b
  OBVIOUS
<1>3. l \in a .. b /\ \A m \in a .. b : l <= m
  BY <1>1, <1>2
<1>4. l = a
  BY <1>2, <1>3
<1>5. PICK h : h = CHOOSE n \in a .. b : \A m \in a .. b : m <= n
  OBVIOUS
<1>6. h \in a .. b /\ \A m \in a .. b : m <= h
  BY <1>2, <1>5
<1>7. h = b
  BY <1>2, <1>6
<1> QED  BY <1>1, <1>4, <1>5, <1>7 DEF Low, High

\* The limits of the types, as numbers.
Limits(c, i, l) == c = CharMax /\ i = IntMax /\ l = LongMax

\* The ranges of the C types, in terms of their largest values.
LEMMA LimitsAre ==
    \E c, i, l \in Nat : Limits(c, i, l) /\ 1 <= c /\ c <= i /\ i <= l
BY DictValuesAssumption DEF Limits

\* A getter that makes R of v: the number itself, or nothing; nothing if it does not fit.
Exactly(R, v, g) ==
    /\ Meant(v) \in RangeOf(g) /\ v.type \notin FloatTypes \cup {"char"} => R = {Meant(v)}
    /\ Meant(v) \in RangeOf(g) => R \subseteq {Meant(v)}
    /\ Meant(v) \notin RangeOf(g) /\ g # "char" => R = {}

\* A number in halves whose integral part is taken between the bounds.
LEMMA Halves ==
    ASSUME NEW v, v.n \in Int, NEW a \in Int, NEW b \in Int, a <= b, a <= 0, b >= 0
    PROVE  /\ InBounds(v, a .. b) \subseteq {Truncated(v.n)} /\ (Truncated(v.n) \notin a .. b => InBounds(v, a .. b) = {})
           /\ BelowBound(v, a .. b) \subseteq {Truncated(v.n)} /\ (Truncated(v.n) \notin a .. b => BelowBound(v, a .. b) = {})
<1>1. Low(a .. b) = a /\ High(a .. b) = b
  BY Bounds
<1>2. PICK n \in Int : n = v.n
  OBVIOUS
<1>3. n \in 2 * a .. 2 * b + 1 => Truncated(n) \in a .. b
  BY DEF Truncated
<1>4. n \in 2 * a .. 2 * b => n \in 2 * a .. 2 * b + 1
  OBVIOUS
<1> QED  BY <1>1, <1>2, <1>3, <1>4 DEF InBounds, BelowBound

\* The kinds of number there are.
LEMMA NumberKinds ==
    ASSUME NEW v, IsStored(v), IsNumber(v)
    PROVE  \/ v.type \in IntegralTypes /\ Meant(v) = v.n
           \/ v.type \in FloatTypes /\ Meant(v) = Truncated(v.n)
           \/ v.type = "char" /\ Meant(v) = v.n
           \/ v.type = "bool" /\ Meant(v) = v.n
           \/ v.type = "str" /\ v.word = "num" /\ Meant(v) = v.n
BY DEF IsStored, IsNumber, Meant, IntegralTypes, FloatTypes

\* What parse_ll() and parse_ull() make of a numeral.
LEMMA Parsed ==
    ASSUME NEW v, v.word = "num", NEW n \in Int, n = v.n, NEW l \in Nat, l = LongMax
    PROVE  /\ ParseLl(v) = {n} \cap (-l - 1 .. l)
           /\ n >= 0 => ParseUll(v) = {n} \cap (0 .. 2 * l + 1)
           /\ n \in -l - 1 .. -1 => ParseUll(v) = {n + 2 * l + 2}
<1>1. ParseLl(v) = {n} \cap (-l - 1 .. l)
  BY DEF ParseLl, Signed
<1>2. PICK d \in Nat : d = 2 * l + 2 /\ d - 1 = 2 * l + 1
  OBVIOUS
<1>3. ParseUll(v) = IF n \in 0 .. d - 1 \/ -n \in 0 .. d - 1 THEN {n % d} ELSE {}
  BY <1>2 DEF ParseUll, Unsigned, Modulus
<1>4. (n \in 0 .. d - 1 => n % d = n) /\ (n \in -d .. -1 => n % d = n + d)
  BY Reduced
<1>5. ASSUME n >= 0 PROVE ParseUll(v) = {n} \cap (0 .. 2 * l + 1)
  <2>1. CASE n \in 0 .. d - 1
    BY <1>2, <1>3, <1>4, <2>1
  <2>2. CASE n \notin 0 .. d - 1
    <3>1. -n \notin 0 .. d - 1
      BY <1>2, <1>5, <2>2
    <3> QED  BY <1>2, <1>3, <2>2, <3>1
  <2> QED  BY <2>1, <2>2
<1>6. ASSUME n \in -l - 1 .. -1 PROVE ParseUll(v) = {n + 2 * l + 2}
  <2>1. -n \in 0 .. d - 1 /\ n \in -d .. -1 /\ n + d = n + 2 * l + 2
    BY <1>2, <1>6
  <2> QED  BY <1>3, <1>4, <2>1
<1> QED  BY <1>1, <1>5, <1>6

\* Each getter returns the stored value when its type can hold it, and says so
\* otherwise.
LEMMA IntExact ==
    ASSUME NEW v, IsStored(v), IsNumber(v), ~Reinterprets("int", v)
    PROVE  Exactly(GetInt(v), v, "int")
<1>1. PICK c \in Nat, i \in Nat, l \in Nat : Limits(c, i, l) /\ 1 <= c /\ c <= i /\ i <= l
  BY LimitsAre
<1>2. PICK n \in Int : n = v.n
  BY DEF IsStored
<1>3. RangeOf("int") = -i - 1 .. i /\ Signed(IntMax) = -i - 1 .. i
  BY <1>1 DEF RangeOf, Limits, Signed
<1>4. CASE v.type \in IntegralTypes /\ Meant(v) = v.n
  <2>1. GetInt(v) = {n} \cap (-i - 1 .. i)
    BY <1>2, <1>3, <1>4 DEF GetInt, Fitting, FloatTypes, IntegralTypes
  <2> QED  BY <1>2, <1>3, <1>4, <2>1 DEF Exactly
<1>5. CASE v.type \in FloatTypes /\ Meant(v) = Truncated(v.n)
  <2>1. GetInt(v) = InBounds(v, -i - 1 .. i)
    BY <1>3, <1>5 DEF GetInt, FloatTypes, IntegralTypes
  <2>2. PICK a \in Int, b \in Int : a = -i - 1 /\ b = i /\ a <= b /\ a <= 0 /\ b >= 0
    OBVIOUS
  <2>3. InBounds(v, a .. b) \subseteq {Truncated(v.n)} /\ (Truncated(v.n) \notin a .. b => InBounds(v, a .. b) = {})
    BY <1>2, <2>2, Halves
  <2> QED  BY <1>3, <1>5, <2>1, <2>2, <2>3 DEF Exactly
<1>6. CASE v.type = "char" /\ Meant(v) = v.n
  <2>1. GetInt(v) = {n}
    BY <1>2, <1>6 DEF GetInt, FloatTypes, IntegralTypes
  <2>2. n \in -c - 1 .. c
    BY <1>1, <1>2, <1>6 DEF IsStored, RangeOf, Signed, Limits
  <2>3. n \in -i - 1 .. i
    BY <1>1, <2>2
  <2> QED  BY <1>2, <1>3, <1>6, <2>1, <2>3 DEF Exactly
<1>7. CASE v.type = "bool" /\ Meant(v) = v.n
  <2>1. GetInt(v) = {n}
    BY <1>2, <1>7 DEF GetInt, FloatTypes, IntegralTypes
  <2>2. n \in {0, 1}
    BY <1>2, <1>7 DEF IsStored, RangeOf, FloatTypes, IntegralTypes
  <2>3. n \in -i - 1 .. i
    BY <1>1, <2>2
  <2> QED  BY <1>2, <1>3, <1>7, <2>1, <2>3 DEF Exactly
<1>8. CASE v.type = "str" /\ v.word = "num" /\ Meant(v) = v.n
  <2>1. GetInt(v) = FirstOf(ParseLl(v) \cap (-i - 1 .. i), ParseUll(v) \cap (-i - 1 .. i))
    BY <1>1, <1>3, <1>8 DEF GetInt, FloatTypes, IntegralTypes
  <2>2. /\ ParseLl(v) = {n} \cap (-l - 1 .. l)
        /\ n >= 0 => ParseUll(v) = {n} \cap (0 .. 2 * l + 1)
        /\ n \in -l - 1 .. -1 => ParseUll(v) = {n + 2 * l + 2}
    BY <1>1, <1>2, <1>8, Parsed DEF Limits
  <2>3. n >= 0 \/ n \in -l - 1 .. -1
    <3>1. ~(n < -l - 1)
      BY <1>1, <1>2, <1>8 DEF Reinterprets, Signed, Limits
    <3> QED  BY <3>1
  <2>4. n \in -l - 1 .. -1 => n + 2 * l + 2 \notin -i - 1 .. i
    BY <1>1
  <2>5. n \in -i - 1 .. i => n \in -l - 1 .. l
    BY <1>1
  <2>6. ParseUll(v) \cap (-i - 1 .. i) \subseteq {n}
    BY <2>2, <2>3, <2>4
  <2> QED  BY <1>2, <1>3, <1>8, <2>1, <2>2, <2>5, <2>6 DEF Exactly, FirstOf, FloatTypes
<1> QED  BY <1>4, <1>5, <1>6, <1>7, <1>8, NumberKinds

LEMMA UintExact ==
    ASSUME NEW v, IsStored(v), IsNumber(v), ~Reinterprets("uint", v)
    PROVE  Exactly(GetUint(v), v, "uint")
<1>1. PICK c \in Nat, i \in Nat, l \in Nat : Limits(c, i, l) /\ 1 <= c /\ c <= i /\ i <= l
  BY LimitsAre
<1>2. PICK n \in Int : n = v.n
  BY DEF IsStored
<1>3. RangeOf("uint") = 0 .. 2 * i + 1 /\ Unsigned(IntMax) = 0 .. 2 * i + 1
  BY <1>1 DEF RangeOf, Limits, Unsigned
<1>4. CASE v.type \in IntegralTypes /\ Meant(v) = v.n
  <2>1. GetUint(v) = {n} \cap (0 .. 2 * i + 1)
    BY <1>2, <1>3, <1>4 DEF GetUint, Fitting, FloatTypes, IntegralTypes
  <2> QED  BY <1>2, <1>3, <1>4, <2>1 DEF Exactly
<1>5. CASE v.type \in FloatTypes /\ Meant(v) = Truncated(v.n)
  <2>1. GetUint(v) = InBounds(v, 0 .. 2 * i + 1)
    BY <1>3, <1>5 DEF GetUint, FloatTypes, IntegralTypes
  <2>2. PICK a \in Int, b \in Int : a = 0 /\ b = 2 * i + 1 /\ a <= b /\ a <= 0 /\ b >= 0
    OBVIOUS
  <2>3. InBounds(v, a .. b) \subseteq {Truncated(v.n)} /\ (Truncated(v.n) \notin a .. b => InBounds(v, a .. b) = {})
    BY <1>2, <2>2, Halves
  <2> QED  BY <1>3, <1>5, <2>1, <2>2, <2>3 DEF Exactly
<1>6. CASE v.type = "char" /\ Meant(v) = v.n
  <2>1. GetUint(v) = {n % Modulus(CharMax)}
    BY <1>2, <1>6 DEF GetUint, FloatTypes, IntegralTypes
  <2>2. n \in -c - 1 .. c
    BY <1>1, <1>2, <1>6 DEF IsStored, RangeOf, Signed, Limits
  <2>3. ~(n < 0)
    BY <1>2, <1>6 DEF Reinterprets
  <2>4. PICK d \in Nat : d = 2 * c + 2 /\ d = Modulus(CharMax)
    BY <1>1 DEF Limits, Modulus
  <2>5. n \in 0 .. d - 1 /\ n \in 0 .. 2 * i + 1
    BY <1>1, <2>2, <2>3, <2>4
  <2>6. GetUint(v) = {n}
    BY <2>1, <2>4, <2>5, Reduced
  <2> QED  BY <1>2, <1>3, <1>6, <2>5, <2>6 DEF Exactly
<1>7. CASE v.type = "bool" /\ Meant(v) = v.n
  <2>1. GetUint(v) = {n}
    BY <1>2, <1>7 DEF GetUint, FloatTypes, IntegralTypes
  <2>2. n \in {0, 1}
    BY <1>2, <1>7 DEF IsStored, RangeOf, FloatTypes, IntegralTypes
  <2>3. n \in 0 .. 2 * i + 1
    BY <1>1, <2>2
  <2> QED  BY <1>2, <1>3, <1>7, <2>1, <2>3 DEF Exactly
<1>8. CASE v.type = "str" /\ v.word = "num" /\ Meant(v) = v.n
  <2>1. GetUint(v) = FirstOf(ParseUll(v) \cap (0 .. 2 * i + 1), ParseLl(v) \cap (0 .. 2 * i + 1))
    BY <1>1, <1>3, <1>8 DEF GetUint, FloatTypes, IntegralTypes
  <2>2. /\ ParseLl(v) = {n} \cap (-l - 1 .. l)
        /\ n >= 0 => ParseUll(v) = {n} \cap (0 .. 2 * l + 1)
        /\ n \in -l - 1 .. -1 => ParseUll(v) = {n + 2 * l + 2}
    BY <1>1, <1>2, <1>8, Parsed DEF Limits
  <2>3. ~(n < 0)
    BY <1>2, <1>8 DEF Reinterprets
  <2>4. n >= 0
    BY <2>3
  <2>5. n \in 0 .. 2 * i + 1 => n \in 0 .. 2 * l + 1
    BY <1>1
  <2> QED  BY <1>2, <1>3, <1>8, <2>1, <2>2, <2>4, <2>5 DEF Exactly, FirstOf, FloatTypes
<1> QED  BY <1>4, <1>5, <1>6, <1>7, <1>8, NumberKinds

LEMMA UlongExact ==
    ASSUME NEW v, IsStored(v), IsNumber(v), ~Reinterprets("ulong", v)
    PROVE  Exactly(GetUlong(v), v, "ulong")
<1>1. PICK c \in Nat, i \in Nat, l \in Nat : Limits(c, i, l) /\ 1 <= c /\ c <= i /\ i <= l
  BY LimitsAre
<1>2. PICK n \in Int : n = v.n
  BY DEF IsStored
<1>3. RangeOf("ulong") = 0 .. 2 * l + 1 /\ Unsigned(LongMax) = 0 .. 2 * l + 1
  BY <1>1 DEF RangeOf, Limits, Unsigned
<1>4. CASE v.type \in IntegralTypes /\ Meant(v) = v.n
  <2>1. GetUlong(v) = {n} \cap (0 .. 2 * l + 1)
    BY <1>2, <1>3, <1>4 DEF GetUlong, Fitting, FloatTypes, IntegralTypes
  <2> QED  BY <1>2, <1>3, <1>4, <2>1 DEF Exactly
<1>5. CASE v.type \in FloatTypes /\ Meant(v) = Truncated(v.n)
  <2>1. GetUlong(v) = BelowBound(v, 0 .. 2 * l + 1)
    BY <1>3, <1>5 DEF GetUlong, FloatTypes, IntegralTypes
  <2>2. PICK a \in Int, b \in Int : a = 0 /\ b = 2 * l + 1 /\ a <= b /\ a <= 0 /\ b >= 0
    OBVIOUS
  <2>3. BelowBound(v, a .. b) \subseteq {Truncated(v.n)} /\ (Truncated(v.n) \notin a .. b => BelowBound(v, a .. b) = {})
    BY <1>2, <2>2, Halves
  <2> QED  BY <1>3, <1>5, <2>1, <2>2, <2>3 DEF Exactly
<1>6. CASE v.type = "char" /\ Meant(v) = v.n
  <2>1. GetUlong(v) = {}
    BY <1>6 DEF GetUlong, FloatTypes, IntegralTypes
  <2> QED  BY <1>6, <2>1 DEF Exactly
<1>7. CASE v.type = "bool" /\ Meant(v) = v.n
  <2>1. GetUlong(v) = {n}
    BY <1>2, <1>7 DEF GetUlong, FloatTypes, IntegralTypes
  <2>2. n \in {0, 1}
    BY <1>2, <1>7 DEF IsStored, RangeOf, FloatTypes, IntegralTypes
  <2>3. n \in 0 .. 2 * l + 1
    BY <1>1, <2>2
  <2> QED  BY <1>2, <1>3, <1>7, <2>1, <2>3 DEF Exactly
<1>8. CASE v.type = "str" /\ v.word = "num" /\ Meant(v) = v.n
  <2>1. GetUlong(v) = FirstOf(ParseUll(v), ParseLl(v) \cap (0 .. 2 * l + 1))
    BY <1>1, <1>3, <1>8 DEF GetUlong, FloatTypes, IntegralTypes
  <2>2. /\ ParseLl(v) = {n} \cap (-l - 1 .. l)
        /\ n >= 0 => ParseUll(v) = {n} \cap (0 .. 2 * l + 1)
        /\ n \in -l - 1 .. -1 => ParseUll(v) = {n + 2 * l + 2}
    BY <1>1, <1>2, <1>8, Parsed DEF Limits
  <2>3. ~(n < 0)
    BY <1>2, <1>8 DEF Reinterprets
  <2>4. n >= 0
    BY <2>3
  <2> QED  BY <1>2, <1>3, <1>8, <2>1, <2>2, <2>4 DEF Exactly, FirstOf, FloatTypes
<1> QED  BY <1>4, <1>5, <1>6, <1>7, <1>8, NumberKinds

LEMMA LongExact ==
    ASSUME NEW v, IsStored(v), IsNumber(v), ~Reinterprets("long", v)
    PROVE  Exactly(GetLong(v), v, "long")
<1>1. PICK c \in Nat, i \in Nat, l \in Nat : Limits(c, i, l) /\ 1 <= c /\ c <= i /\ i <= l
  BY LimitsAre
<1>2. PICK n \in Int : n = v.n
  BY DEF IsStored
<1>3. RangeOf("long") = -l - 1 .. l /\ Signed(LongMax) = -l - 1 .. l
  BY <1>1 DEF RangeOf, Limits, Signed
<1>4. CASE v.type \in IntegralTypes /\ Meant(v) = v.n
  <2>1. GetLong(v) = {n} \cap (-l - 1 .. l)
    <3>1. CASE v.type = "uint"
      <4>1. n \in 0 .. 2 * i + 1 /\ 2 * i + 1 <= l
        BY <1>1, <1>2, <3>1, DictValuesAssumption DEF IsStored, RangeOf, Unsigned, Limits, IntegralTypes
      <4>2. PICK d \in Nat : d = 2 * l + 2 /\ d = Modulus(LongMax)
        BY <1>1 DEF Modulus, Limits
      <4>3. n \in 0 .. d - 1 /\ n \in -l - 1 .. l
        BY <1>1, <4>1, <4>2
      <4>4. n % d = n
        BY <4>3, Reduced
      <4>5. Narrowed(n, LongMax) = n
        BY <1>3, <4>2, <4>3, <4>4 DEF Narrowed
      <4>6. GetLong(v) = {n}
        BY <1>2, <3>1, <4>5 DEF GetLong, FloatTypes, IntegralTypes
      <4> QED  BY <4>3, <4>6
    <3>2. CASE v.type # "uint"
      BY <1>2, <1>3, <1>4, <3>2 DEF GetLong, Fitting, FloatTypes, IntegralTypes
    <3> QED  BY <3>1, <3>2
  <2> QED  BY <1>2, <1>3, <1>4, <2>1 DEF Exactly
<1>5. CASE v.type \in FloatTypes /\ Meant(v) = Truncated(v.n)
  <2>1. GetLong(v) = BelowBound(v, -l - 1 .. l)
    BY <1>3, <1>5 DEF GetLong, FloatTypes, IntegralTypes
  <2>2. PICK a \in Int, b \in Int : a = -l - 1 /\ b = l /\ a <= b /\ a <= 0 /\ b >= 0
    OBVIOUS
  <2>3. BelowBound(v, a .. b) \subseteq {Truncated(v.n)} /\ (Truncated(v.n) \notin a .. b => BelowBound(v, a .. b) = {})
    BY <1>2, <2>2, Halves
  <2> QED  BY <1>3, <1>5, <2>1, <2>2, <2>3 DEF Exactly
<1>6. CASE v.type = "char" /\ Meant(v) = v.n
  <2>1. GetLong(v) = {}
    BY <1>6 DEF GetLong, FloatTypes, IntegralTypes
  <2> QED  BY <1>6, <2>1 DEF Exactly
<1>7. CASE v.type = "bool" /\ Meant(v) = v.n
  <2>1. GetLong(v) = {n}
    BY <1>2, <1>7 DEF GetLong, FloatTypes, IntegralTypes
  <2>2. n \in {0, 1}
    BY <1>2, <1>7 DEF IsStored, RangeOf, FloatTypes, IntegralTypes
  <2>3. n \in -l - 1 .. l
    BY <1>1, <2>2
  <2> QED  BY <1>2, <1>3, <1>7, <2>1, <2>3 DEF Exactly
<1>8. CASE v.type = "str" /\ v.word = "num" /\ Meant(v) = v.n
  <2>1. GetLong(v) = ParseLl(v)
    BY <1>1, <1>3, <1>8 DEF GetLong, FloatTypes, IntegralTypes
  <2>2. /\ ParseLl(v) = {n} \cap (-l - 1 .. l)
        /\ n >= 0 => ParseUll(v) = {n} \cap (0 .. 2 * l + 1)
        /\ n \in -l - 1 .. -1 => ParseUll(v) = {n + 2 * l + 2}
    BY <1>1, <1>2, <1>8, Parsed DEF Limits
  <2> QED  BY <1>2, <1>3, <1>8, <2>1, <2>2 DEF Exactly, FloatTypes
<1> QED  BY <1>4, <1>5, <1>6, <1>7, <1>8, NumberKinds

LEMMA LlongExact ==
    ASSUME NEW v, IsStored(v), IsNumber(v), ~Reinterprets("llong", v)
    PROVE  Exactly(GetLlong(v), v, "llong")
<1>1. PICK c \in Nat, i \in Nat, l \in Nat : Limits(c, i, l) /\ 1 <= c /\ c <= i /\ i <= l
  BY LimitsAre
<1>2. PICK n \in Int : n = v.n
  BY DEF IsStored
<1>3. RangeOf("llong") = -l - 1 .. l /\ Signed(LongMax) = -l - 1 .. l
  BY <1>1 DEF RangeOf, Limits, Signed
<1>4. CASE v.type \in IntegralTypes /\ Meant(v) = v.n
  <2>1. GetLlong(v) = {n} \cap (-l - 1 .. l)
    BY <1>2, <1>3, <1>4 DEF GetLlong, Fitting, FloatTypes, IntegralTypes
  <2> QED  BY <1>2, <1>3, <1>4, <2>1 DEF Exactly
<1>5. CASE v.type \in FloatTypes /\ Meant(v) = Truncated(v.n)
  <2>1. GetLlong(v) = BelowBound(v, -l - 1 .. l)
    BY <1>3, <1>5 DEF GetLlong, FloatTypes, IntegralTypes
  <2>2. PICK a \in Int, b \in Int : a = -l - 1 /\ b = l /\ a <= b /\ a <= 0 /\ b >= 0
    OBVIOUS
  <2>3. BelowBound(v, a .. b) \subseteq {Truncated(v.n)} /\ (Truncated(v.n) \notin a .. b => BelowBound(v, a .. b) = {})
    BY <1>2, <2>2, Halves
  <2> QED  BY <1>3, <1>5, <2>1, <2>2, <2>3 DEF Exactly
<1>6. CASE v.type = "char" /\ Meant(v) = v.n
  <2>1. GetLlong(v) = {}
    BY <1>6 DEF GetLlong, FloatTypes, IntegralTypes
  <2> QED  BY <1>6, <2>1 DEF Exactly
<1>7. CASE v.type = "bool" /\ Meant(v) = v.n
  <2>1. GetLlong(v) = {n}
    BY <1>2, <1>7 DEF GetLlong, FloatTypes, IntegralTypes
  <2>2. n \in {0, 1}
    BY <1>2, <1>7 DEF IsStored, RangeOf, FloatTypes, IntegralTypes
  <2>3. n \in -l - 1 .. l
    BY <1>1, <2>2
  <2> QED  BY <1>2, <1>3, <1>7, <2>1, <2>3 DEF Exactly
<1>8. CASE v.type = "str" /\ v.word = "num" /\ Meant(v) = v.n
  <2>1. GetLlong(v) = FirstOf(ParseLl(v), ParseUll(v) \cap (-l - 1 .. l))
    BY <1>1, <1>3, <1>8 DEF GetLlong, FloatTypes, IntegralTypes
  <2>2. /\ ParseLl(v) = {n} \cap (-l - 1 .. l)
        /\ n >= 0 => ParseUll(v) = {n} \cap (0 .. 2 * l + 1)
        /\ n \in -l - 1 .. -1 => ParseUll(v) = {n + 2 * l + 2}
    BY <1>1, <1>2, <1>8, Parsed DEF Limits
  <2>3. n >= 0 \/ n \in -l - 1 .. -1
    <3>1. ~(n < -l - 1)
      BY <1>1, <1>2, <1>8 DEF Reinterprets, Signed, Limits
    <3> QED  BY <3>1
  <2>4. n \in -l - 1 .. -1 => n \in -l - 1 .. l
    OBVIOUS
  <2> QED  BY <1>2, <1>3, <1>8, <2>1, <2>2, <2>3, <2>4 DEF Exactly, FirstOf, FloatTypes
<1> QED  BY <1>4, <1>5, <1>6, <1>7, <1>8, NumberKinds

LEMMA UllongExact ==
    ASSUME NEW v, IsStored(v), IsNumber(v), ~Reinterprets("ullong", v)
    PROVE  Exactly(GetUllong(v), v, "ullong")
<1>1. PICK c \in Nat, i \in Nat, l \in Nat : Limits(c, i, l) /\ 1 <= c /\ c <= i /\ i <= l
  BY LimitsAre
<1>2. PICK n \in Int : n = v.n
  BY DEF IsStored
<1>3. RangeOf("ullong") = 0 .. 2 * l + 1 /\ Unsigned(LongMax) = 0 .. 2 * l + 1
  BY <1>1 DEF RangeOf, Limits, Unsigned
<1>4. CASE v.type \in IntegralTypes /\ Meant(v) = v.n
  <2>1. GetUllong(v) = {n} \cap (0 .. 2 * l + 1)
    BY <1>2, <1>3, <1>4 DEF GetUllong, Fitting, FloatTypes, IntegralTypes
  <2> QED  BY <1>2, <1>3, <1>4, <2>1 DEF Exactly
<1>5. CASE v.type \in FloatTypes /\ Meant(v) = Truncated(v.n)
  <2>1. GetUllong(v) = BelowBound(v, 0 .. 2 * l + 1)
    BY <1>3, <1>5 DEF GetUllong, FloatTypes, IntegralTypes
  <2>2. PICK a \in Int, b \in Int : a = 0 /\ b = 2 * l + 1 /\ a <= b /\ a <= 0 /\ b >= 0
    OBVIOUS
  <2>3. BelowBound(v, a .. b) \subseteq {Truncated(v.n)} /\ (Truncated(v.n) \notin a .. b => BelowBound(v, a .. b) = {})
    BY <1>2, <2>2, Halves
  <2> QED  BY <1>3, <1>5, <2>1, <2>2, <2>3 DEF Exactly
<1>6. CASE v.type = "char" /\ Meant(v) = v.n
  <2>1. GetUllong(v) = {n % Modulus(CharMax)}
    BY <1>2, <1>6 DEF GetUllong, FloatTypes, IntegralTypes
  <2>2. n \in -c - 1 .. c
    BY <1>1, <1>2, <1>6 DEF IsStored, RangeOf, Signed, Limits
  <2>3. ~(n < 0)
    BY <1>2, <1>6 DEF Reinterprets
  <2>4. PICK d \in Nat : d = 2 * c + 2 /\ d = Modulus(CharMax)
    BY <1>1 DEF Limits, Modulus
  <2>5. n \in 0 .. d - 1 /\ n \in 0 .. 2 * l + 1
    BY <1>1, <2>2, <2>3, <2>4
  <2>6. GetUllong(v) = {n}
    BY <2>1, <2>4, <2>5, Reduced
  <2> QED  BY <1>2, <1>3, <1>6, <2>5, <2>6 DEF Exactly
<1>7. CASE v.type = "bool" /\ Meant(v) = v.n
  <2>1. GetUllong(v) = {n}
    BY <1>2, <1>7 DEF GetUllong, FloatTypes, IntegralTypes
  <2>2. n \in {0, 1}
    BY <1>2, <1>7 DEF IsStored, RangeOf, FloatTypes, IntegralTypes
  <2>3. n \in 0 .. 2 * l + 1
    BY <1>1, <2>2
  <2> QED  BY <1>2, <1>3, <1>7, <2>1, <2>3 DEF Exactly
<1>8. CASE v.type = "str" /\ v.word = "num" /\ Meant(v) = v.n
  <2>1. GetUllong(v) = ParseUll(v)
    BY <1>1, <1>3, <1>8 DEF GetUllong, FloatTypes, IntegralTypes
  <2>2. /\ ParseLl(v) = {n} \cap (-l - 1 .. l)
        /\ n >= 0 => ParseUll(v) = {n} \cap (0 .. 2 * l + 1)
        /\ n \in -l - 1 .. -1 => ParseUll(v) = {n + 2 * l + 2}
    BY <1>1, <1>2, <1>8, Parsed DEF Limits
  <2>3. ~(n < 0)
    BY <1>2, <1>8 DEF Reinterprets
  <2>4. n >= 0
    BY <2>3
  <2> QED  BY <1>2, <1>3, <1>8, <2>1, <2>2, <2>4 DEF Exactly, FloatTypes
<1> QED  BY <1>4, <1>5, <1>6, <1>7, <1>8, NumberKinds

LEMMA CharExact ==
    ASSUME NEW v, IsStored(v), IsNumber(v), ~Reinterprets("char", v)
    PROVE  Exactly(GetChar(v), v, "char")
<1>1. PICK c \in Nat, i \in Nat, l \in Nat : Limits(c, i, l) /\ 1 <= c /\ c <= i /\ i <= l
  BY LimitsAre
<1>2. PICK n \in Int : n = v.n
  BY DEF IsStored
<1>3. RangeOf("char") = -c - 1 .. c /\ Signed(CharMax) = -c - 1 .. c
  BY <1>1 DEF RangeOf, Limits, Signed
<1>4. n \in -c - 1 .. c => AsChar(n) = n
  <2>1. PICK d \in Nat : d = 2 * c + 2 /\ d = Modulus(CharMax)
    BY <1>1 DEF Limits, Modulus
  <2>2. (n \in 0 .. d - 1 => n % d = n) /\ (n \in -d .. -1 => n % d = n + d)
    BY Reduced
  <2>3. AsChar(n) = IF n % d \in -c - 1 .. c THEN n % d ELSE (n % d) - d
    BY <1>3, <2>1 DEF AsChar, Narrowed
  <2>4. CASE n \in 0 .. c
    <3>1. n \in 0 .. d - 1 /\ n \in -c - 1 .. c
      BY <2>1, <2>4
    <3> QED  BY <2>2, <2>3, <3>1
  <2>5. CASE n \in -c - 1 .. -1
    <3>1. n \in -d .. -1 /\ n + d \notin -c - 1 .. c /\ (n + d) - d = n
      BY <2>1, <2>5
    <3> QED  BY <2>2, <2>3, <3>1
  <2> QED  BY <2>4, <2>5
<1>5. CASE v.type \in IntegralTypes \cup {"char", "bool"} /\ Meant(v) = v.n
  <2>1. GetChar(v) = {AsChar(n)}
    BY <1>2, <1>5 DEF GetChar, FloatTypes, IntegralTypes
  <2> QED  BY <1>2, <1>3, <1>4, <1>5, <2>1 DEF Exactly
<1>6. CASE v.type \in FloatTypes /\ Meant(v) = Truncated(v.n)
  <2>1. GetChar(v) = IF Truncated(n) \in -c - 1 .. c THEN {Truncated(n)} ELSE Signed(CharMax)
    BY <1>2, <1>3, <1>6 DEF GetChar, FloatTypes, IntegralTypes
  <2> QED  BY <1>2, <1>3, <1>6, <2>1 DEF Exactly
<1>7. CASE v.type = "str" /\ v.word = "num" /\ Meant(v) = v.n
  <2>1. GetChar(v) = {AsChar(m) : m \in ParseLl(v)}
    BY <1>7 DEF GetChar, FirstOf, FloatTypes, IntegralTypes
  <2>2. ParseLl(v) = {n} \cap (-l - 1 .. l)
    BY <1>1, <1>2, <1>7, Parsed DEF Limits
  <2>3. n \in -c - 1 .. c => n \in -l - 1 .. l
    BY <1>1
  <2> QED  BY <1>2, <1>3, <1>4, <1>7, <2>1, <2>2, <2>3 DEF Exactly, FloatTypes
<1> QED  BY <1>5, <1>6, <1>7, NumberKinds

\* dict_get_char() on a string of one character that is no digit.
LEMMA LetterExact ==
    ASSUME NEW v, IsLetter(v)
    PROVE  GetChar(v) = {v.n}
<1>1. v.type = "str" /\ v.word = "letter"
  BY DEF IsLetter
<1>2. ParseLl(v) = {}
  BY <1>1 DEF ParseLl
<1>3. {AsChar(n) : n \in ParseLl(v)} = {}
  BY <1>2
<1>4. GetChar(v) = FirstOf({AsChar(n) : n \in ParseLl(v)}, {v.n})
  BY <1>1 DEF GetChar, FloatTypes, IntegralTypes
<1> QED  BY <1>3, <1>4 DEF FirstOf

\* A number is read from a dictionary as itself or not at all, whatever two types,
\* signs and widths meet in dict_get_int() and its kin, for every size of the types in
\* which a long holds every unsigned int; and a letter as that letter.
THEOREM ReadsAlwaysExact == ReadSpec => []ReadsAreExact
<1> DEFINE Inv == stored \in StoredValues /\ ReadsAreExact
<1>1. ASSUME NEW v \in StoredValues, NEW g \in IntegralTypes \cup {"char"}, IsNumber(v), ~Reinterprets(g, v)
      PROVE  Exactly(Got(g, v), v, g)
  <2>1. IsStored(v)
    BY DictValuesAssumption
  <2>2. g \in {"int", "uint", "long", "ulong", "llong", "ullong", "char"}
    BY DEF IntegralTypes
  <2> QED  BY <1>1, <2>1, <2>2, IntExact, UintExact, LongExact, UlongExact, LlongExact, UllongExact, CharExact DEF Got
<1>2. ReadStart => Inv
  BY DEF ReadStart, ReadsAreExact, IntegralTypes
<1>3. ASSUME Inv, [ReadNext]_readVars PROVE Inv'
  <2>1. CASE \E g \in Getters, d \in ReadDefaults : ReadValue(g, d)
    <3>1. PICK g \in Getters, d \in ReadDefaults : ReadValue(g, d)
      BY <2>1
    <3>2. PICK r \in (IF Got(g, stored) = {} THEN {d} ELSE Got(g, stored)) : reading' = [getter |-> g, def |-> d, result |-> r]
      BY <3>1 DEF ReadValue
    <3>3. stored' = stored /\ stored \in StoredValues
      BY <1>3, <3>1 DEF ReadValue
    <3>4. ASSUME g \in IntegralTypes \cup {"char"}, IsNumber(stored), ~Reinterprets(g, stored)
          PROVE  /\ Meant(stored) \in RangeOf(g) /\ stored.type \notin FloatTypes \cup {"char"} => r = Meant(stored)
                 /\ Meant(stored) \in RangeOf(g) => r \in {Meant(stored), d}
                 /\ Meant(stored) \notin RangeOf(g) /\ g # "char" => r = d
      <4>1. PICK v, R : v = stored /\ R = Got(g, v)
        OBVIOUS
      <4>2. Exactly(R, v, g)
        BY <1>1, <3>3, <3>4, <4>1
      <4> QED  BY <3>2, <4>1, <4>2 DEF Exactly
    <3>5. reading'.getter = g /\ reading'.def = d /\ reading'.result = r
      BY <3>2
    <3>6. g = "char" /\ IsLetter(stored) => r = stored.n
      <4>1. g = "char" => Got(g, stored) = GetChar(stored)
        BY DEF Got
      <4> QED  BY <3>2, <4>1, LetterExact
    <3> QED  BY <3>3, <3>4, <3>5, <3>6 DEF ReadsAreExact
  <2>2. CASE stored' = stored /\ reading' = reading
    BY <1>3, <2>2 DEF ReadsAreExact
  <2>3. (\E k \in DOMAIN Texts : GetExp(k)) => stored' = stored /\ reading' = reading
    BY DEF GetExp
  <2>4. ExpandPass => stored' = stored /\ reading' = reading
    BY DEF ExpandPass
  <2> QED  BY <1>3, <2>1, <2>2, <2>3, <2>4 DEF ReadNext, readVars
<1>4. Inv => ReadsAreExact
  OBVIOUS
<1> QED  BY <1>2, <1>3, <1>4, PTL DEF ReadSpec
=============================================================================

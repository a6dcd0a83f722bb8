------------------------- MODULE ProgramNumbers ----------------------------
(***************************************************************************)
(* Facts about the natural numbers and the integers that the proofs about  *)
(* ThreadProgram and BulletinBoard rest on: induction and                  *)
(* recursion, and remainders.  The induction theorems of the library take  *)
(* an operator as a parameter, which the provers do not instantiate; here  *)
(* a set takes its place.                                                  *)
(***************************************************************************)
EXTENDS Integers, TLAPS, WellFoundedInduction

(* A set of natural numbers that is not empty has a least element.         *)
LEMMA LeastNat ==
  ASSUME NEW T, T \subseteq Nat, T # {}
  PROVE  \E m \in T : \A k \in T : m <= k
  <1> DEFINE R == OpToRel(<, Nat)
  <1>1. IsWellFoundedOn(R, Nat)
    BY NatLessThanWellFounded
  <1>2. \A j, k \in Nat : j < k => <<j, k>> \in R
    BY DEF OpToRel
  <1> HIDE DEF R
  <1>3. PICK m \in T : \A k \in T : <<k, m>> \notin R
    BY <1>1, WFMin
  <1>4. \A k \in T : ~(k < m) /\ k \in Nat /\ m \in Nat
    BY <1>2, <1>3, Zenon
  <1>5. \A k \in T : m <= k
    BY <1>4, SMT
  <1> QED
    BY <1>5

(* Induction: a set with 0 and with the successor of all its members.      *)
LEMMA NatSet ==
  ASSUME NEW T, 0 \in T, \A n \in Nat : n \in T => n + 1 \in T
  PROVE  Nat \subseteq T
  <1> SUFFICES ASSUME Nat \ T # {} PROVE FALSE
    OBVIOUS
  <1>1. PICK m \in Nat \ T : \A k \in Nat \ T : m <= k
    <2> DEFINE U == Nat \ T
    <2>1. U \subseteq Nat /\ U # {}
      OBVIOUS
    <2> HIDE DEF U
    <2>2. \E m \in U : \A k \in U : m <= k
      BY <2>1, LeastNat
    <2> QED
      BY <2>2 DEF U
  <1>2. m # 0 /\ m - 1 \in Nat /\ (m - 1) + 1 = m /\ ~(m <= m - 1)
    BY <1>1
  <1>3. m - 1 \in T
    BY <1>1, <1>2
  <1> QED
    BY <1>1, <1>2, <1>3

(* From a first value in S and a function that gives the next value, a     *)
(* function on the natural numbers is made.                                *)
RecursionOver(S) ==
  \A s0 \in S, H \in [Nat \X S -> S] :
    \E g \in [Nat -> S] : g[0] = s0 /\ \A n \in Nat : g[n + 1] = H[<<n, g[n]>>]

LEMMA Recursion ==
  ASSUME NEW S
  PROVE  RecursionOver(S)
  <1> SUFFICES ASSUME NEW s0 \in S, NEW H \in [Nat \X S -> S]
               PROVE  \E g \in [Nat -> S] : g[0] = s0 /\ \A n \in Nat : g[n + 1] = H[<<n, g[n]>>]
    BY DEF RecursionOver
  <1> DEFINE Part(f, n) == /\ f \in [0..n -> S] /\ f[0] = s0
                           /\ \A i \in 0..(n - 1) : f[i + 1] = H[<<i, f[i]>>]
             T == {n \in Nat : \E f : Part(f, n)}
  <1>1. Nat \subseteq T
    <2>1. 0 \in T
      <3>1. Part([i \in 0..0 |-> s0], 0)
        OBVIOUS
      <3> QED
        BY <3>1
    <2>2. ASSUME NEW n \in Nat, n \in T PROVE n + 1 \in T
      <3>1. PICK f : Part(f, n)
        BY <2>2
      <3> DEFINE h == [i \in 0..(n + 1) |-> IF i <= n THEN f[i] ELSE H[<<n, f[n]>>]]
      <3>2. f[n] \in S /\ H[<<n, f[n]>>] \in S
        BY <3>1
      <3>3. h \in [0..(n + 1) -> S] /\ h[0] = s0
        BY <3>1, <3>2
      <3>4. ASSUME NEW i \in 0..n PROVE h[i + 1] = H[<<i, h[i]>>]
        <4>1. CASE i = n
          BY <4>1
        <4>2. CASE i # n
          <5>1. i \in 0..(n - 1) /\ i + 1 \in 0..(n + 1) /\ i \in 0..(n + 1) /\ i + 1 <= n /\ i <= n
            BY <4>2
          <5>2. h[i + 1] = f[i + 1] /\ h[i] = f[i]
            BY <5>1
          <5> QED
            BY <3>1, <5>1, <5>2
        <4> QED
          BY <4>1, <4>2
      <3>5. Part(h, n + 1)
        <4>1. (n + 1) - 1 = n
          OBVIOUS
        <4> HIDE DEF h
        <4> QED
          BY <3>3, <3>4, <4>1
      <3> HIDE DEF Part, h
      <3>6. n + 1 \in Nat /\ \E k : Part(k, n + 1)
        BY <3>5
      <3> QED
        BY <3>6
    <2> HIDE DEF T
    <2> QED
      BY <2>1, <2>2, NatSet
  <1>2. ASSUME NEW m \in Nat, NEW n \in Nat, NEW f, NEW h, Part(f, m), Part(h, n)
        PROVE  \A i \in Nat : i <= m /\ i <= n => f[i] = h[i]
    <2> DEFINE U == {i \in Nat : i <= m /\ i <= n => f[i] = h[i]}
    <2>1. 0 \in U
      BY <1>2
    <2>2. ASSUME NEW i \in Nat, i \in U PROVE i + 1 \in U
      <3> SUFFICES ASSUME i + 1 <= m, i + 1 <= n PROVE f[i + 1] = h[i + 1]
        OBVIOUS
      <3>1. i \in 0..(m - 1) /\ i \in 0..(n - 1) /\ f[i] = h[i]
        BY <2>2
      <3> QED
        BY <1>2, <3>1
    <2>3. Nat \subseteq U
      <3> HIDE DEF U
      <3> QED
        BY <2>1, <2>2, NatSet
    <2> QED
      BY <2>3
  <1> DEFINE P(n) == CHOOSE f : Part(f, n)
             g == [n \in Nat |-> P(n)[n]]
  <1>3. \A n \in Nat : Part(P(n), n)
    <2>1. \A n \in Nat : \E f : Part(f, n)
      BY <1>1
    <2> HIDE DEF Part
    <2> QED
      BY <2>1, Zenon
  <1>4. \A n \in Nat : g[n] = P(n)[n] /\ g[n] \in S
    <2> HIDE DEF P
    <2> QED
      BY <1>3
  <1>5. ASSUME NEW n \in Nat PROVE g[n + 1] = H[<<n, g[n]>>]
    <2> HIDE DEF P, g
    <2>1. Part(P(n), n) /\ Part(P(n + 1), n + 1) /\ n + 1 \in Nat
      BY <1>3
    <2>2. P(n)[n] = P(n + 1)[n]
      <3>1. n <= n /\ n <= n + 1
        OBVIOUS
      <3> HIDE DEF Part
      <3> QED
        BY <1>2, <2>1, <3>1
    <2>3. P(n + 1)[n + 1] = H[<<n, P(n + 1)[n]>>]
      BY <2>1
    <2> QED
      BY <1>4, <2>1, <2>2, <2>3
  <1>6. g \in [Nat -> S] /\ g[0] = s0
    <2> HIDE DEF P
    <2>1. g[0] = s0
      BY <1>3
    <2> QED
      BY <1>4, <2>1
  <1> HIDE DEF g
  <1> QED
    BY <1>5, <1>6

-----------------------------------------------------------------------------
(* What \div and % are.                                                    *)
LEMMA DivMod ==
  ASSUME NEW n \in Int, NEW d \in Nat, d > 0
  PROVE  n % d \in 0..(d - 1) /\ n \div d \in Int /\ n % d = n - (n \div d) * d
  OBVIOUS

(* A number below the divisor is its own remainder.                       *)
LEMMA Remainder ==
  ASSUME NEW n \in Int, NEW d \in Nat, d > 0
  PROVE  n % d \in 0..(d - 1) /\ (n \in 0..(d - 1) => n % d = n)
  OBVIOUS

(* m and n differ by a multiple of d.                                      *)
Congruent(m, n, d) == \E k \in Int : m = k * d + n

(* Two remainders that are congruent are equal.                            *)
LEMMA RemaindersEqual ==
  ASSUME NEW d \in Nat, d > 0, NEW r \in 0..(d - 1), NEW s \in 0..(d - 1), Congruent(r, s, d)
  PROVE  r = s
  <1>0. PICK k \in Int : r = k * d + s
    BY DEF Congruent
  <1>1. CASE k >= 1
    <2>1. k * d >= d BY <1>1
    <2> QED BY <1>0, <2>1
  <1>2. CASE k <= -1
    <2>1. k * d <= -d
      <3>1. -k >= 1 BY <1>2
      <3>2. (-k) * d >= d BY <3>1
      <3>3. (-k) * d = -(k * d) OBVIOUS
      <3> QED BY <3>2, <3>3
    <2> QED BY <1>0, <2>1
  <1>3. CASE k = 0
    <2>1. k * d = 0 BY <1>3
    <2> QED BY <1>0, <2>1
  <1> QED BY <1>1, <1>2, <1>3

(* Products of a sum.                                                      *)
LEMMA Distributes ==
  \A k, l, d \in Int : /\ (k + l) * d = k * d + l * d /\ (k - l) * d = k * d - l * d
                       /\ k * d \in Int /\ l * d \in Int
  OBVIOUS

(* Congruence is kept by sums and products, ...                            *)
LEMMA CongruentSum ==
  ASSUME NEW d \in Int, NEW m \in Int, NEW n \in Int, NEW p \in Int, NEW q \in Int,
         Congruent(m, n, d), Congruent(p, q, d)
  PROVE  Congruent(m + p, n + q, d)
  <1>1. PICK k \in Int, l \in Int : m = k * d + n /\ p = l * d + q
    BY DEF Congruent
  <1>2. PICK j \in Int : j = k + l
    OBVIOUS
  <1>3. j * d = k * d + l * d /\ k * d \in Int /\ l * d \in Int
    BY <1>2, Distributes
  <1>4. m + p = j * d + (n + q)
    BY <1>1, <1>3
  <1> QED
    BY <1>4 DEF Congruent

LEMMA CongruentProduct ==
  ASSUME NEW d \in Int, NEW m \in Int, NEW n \in Int, NEW i \in Int, Congruent(m, n, d)
  PROVE  Congruent(m * i, n * i, d)
  <1>1. PICK k \in Int : m = k * d + n
    BY DEF Congruent
  <1>2. PICK j \in Int : j = k * i
    OBVIOUS
  <1>3. m * i = (k * d) * i + n * i
    BY <1>1, Distributes
  <1>4. (k * d) * i = j * d
    BY <1>2
  <1>5. m * i = j * d + n * i
    BY <1>3, <1>4
  <1> QED
    BY <1>5 DEF Congruent

(* ... a remainder is congruent to the number, ...                         *)
LEMMA RemainderCongruent ==
  ASSUME NEW n \in Int, NEW d \in Nat, d > 0
  PROVE  Congruent(n % d, n, d)
  <1>1. n % d \in Int /\ n \div d \in Int /\ n % d = n - (n \div d) * d
    BY DivMod
  <1>2. PICK k \in Int : k = -(n \div d)
    BY <1>1
  <1>3. PICK q \in Int : q = n \div d /\ k = -q
    BY <1>1, <1>2
  <1>4. k * d = -(q * d) /\ q * d \in Int
    BY <1>3
  <1>5. n % d = k * d + n
    BY <1>1, <1>3, <1>4
  <1> QED
    BY <1>5 DEF Congruent

(* ... and congruent numbers have the same remainder.                      *)
LEMMA SameRemainder ==
  ASSUME NEW d \in Nat, d > 0, NEW m \in Int, NEW n \in Int, Congruent(m, n, d)
  PROVE  m % d = n % d
  <1> DEFINE r == m % d
             s == n % d
  <1>1. r \in 0..(d - 1) /\ s \in 0..(d - 1)
    BY DivMod
  <1>2. Congruent(r, m, d) /\ Congruent(s, n, d)
    BY RemainderCongruent
  <1> HIDE DEF r, s
  <1>3. PICK j \in Int, k \in Int, l \in Int : r = j * d + m /\ s = k * d + n /\ m = l * d + n
    BY <1>2 DEF Congruent
  <1>4. PICK i \in Int : i = j + l
    OBVIOUS
  <1>5. PICK h \in Int : h = i - k
    OBVIOUS
  <1>6. /\ i * d = j * d + l * d /\ h * d = i * d - k * d
        /\ i * d \in Int /\ j * d \in Int /\ k * d \in Int /\ l * d \in Int
    BY <1>4, <1>5, Distributes
  <1>7. r = h * d + s
    BY <1>1, <1>3, <1>6
  <1>8. Congruent(r, s, d)
    BY <1>7 DEF Congruent
  <1> QED
    BY <1>1, <1>8, RemaindersEqual DEF r, s
=============================================================================

---------------------------- MODULE NaturalFacts ----------------------------
(***************************************************************************)
(* What the proofs need to know of natural numbers: induction, functions   *)
(* that are computed from their smaller values, and remainders.            *)
(*                                                                         *)
(* Induction is stated of sets instead of predicates: what has to be shown *)
(* of every number up to m is that it lies in a set.  All of it rests on   *)
(* the order of the naturals being well founded.                           *)
(***************************************************************************)
EXTENDS Integers, WellFoundedInduction, TLAPS

(* A set of naturals has a least element.                                  *)
LEMMA LeastOf ==
  ASSUME NEW T, T \subseteq Nat, T # {}
  PROVE  \E x \in T : \A y \in T : x <= y
<1> DEFINE R == OpToRel(<, Nat)
<1>1. IsWellFoundedOn(R, Nat)
  BY NatLessThanWellFounded
<1>2. \A x, y \in Nat : x < y => <<x, y>> \in R
  BY DEF OpToRel
<1> HIDE DEF R
<1>3. PICK x \in T : \A y \in T : ~(<<y, x>> \in R)
  BY <1>1, WFMin
<1>4. \A y \in T : ~(y < x)
  BY <1>2, <1>3
<1> QED BY <1>3, <1>4

(* Induction up to m: a number is in the set if all smaller ones are.      *)
LEMMA UpTo ==
  ASSUME NEW T, NEW m \in Nat,
         \A n \in 0 .. m : (\A k \in 0 .. n - 1 : k \in T) => n \in T
  PROVE  \A n \in 0 .. m : n \in T
<1> DEFINE B == {n \in 0 .. m : n \notin T}
<1> SUFFICES ASSUME B # {}
             PROVE  FALSE
  OBVIOUS
<1>1. B \subseteq Nat
  OBVIOUS
<1>2. PICK x \in B : \A y \in B : x <= y
  <2> HIDE DEF B
  <2> QED BY <1>1, LeastOf
<1>3. \A k \in 0 .. x - 1 : k \in T
  BY <1>2
<1> QED BY <1>2, <1>3

(* A function whose value at 0 is b and whose value at n is computed, by   *)
(* step, from its value at some smaller prev[n].                           *)
Computed(f, m, b, prev, step) ==
  f[0] = b /\ \A n \in 1 .. m : f[n] = step[<<n, f[prev[n]]>>]

(* There is such a function.                                               *)
LEMMA Computable ==
  ASSUME NEW V, NEW m \in Nat, NEW b \in V,
         NEW prev \in [1 .. m -> Nat], \A n \in 1 .. m : prev[n] < n,
         NEW step \in [(1 .. m) \X V -> V]
  PROVE  \E f \in [0 .. m -> V] : Computed(f, m, b, prev, step)
<1> DEFINE T == {k \in 0 .. m : \E f \in [0 .. k -> V] : Computed(f, k, b, prev, step)}
<1>1. ASSUME NEW n \in 0 .. m, \A k \in 0 .. n - 1 : k \in T
      PROVE  n \in T
  <2>1. CASE n = 0
    <3>1. [k \in 0 .. 0 |-> b] \in [0 .. 0 -> V]
      OBVIOUS
    <3>2. Computed([k \in 0 .. 0 |-> b], 0, b, prev, step)
      BY DEF Computed
    <3> QED BY <2>1, <3>1, <3>2
  <2>2. CASE n > 0
    <3>1. n - 1 \in T
      BY <1>1, <2>2
    <3>2. PICK g \in [0 .. n - 1 -> V] : Computed(g, n - 1, b, prev, step)
      BY <3>1
    <3>3. n \in 1 .. m /\ prev[n] \in 0 .. n - 1
      BY <2>2
    <3>4. g[prev[n]] \in V
      BY <3>2, <3>3
    <3>5. <<n, g[prev[n]]>> \in (1 .. m) \X V
      BY <3>3, <3>4
    <3>6. step[<<n, g[prev[n]]>>] \in V
      BY <3>5
    <3> DEFINE f == [k \in 0 .. n |-> IF k = n THEN step[<<n, g[prev[n]]>>] ELSE g[k]]
    <3>7. f \in [0 .. n -> V]
      BY <3>2, <3>6
    <3>8. \A k \in 0 .. n - 1 : f[k] = g[k]
      OBVIOUS
    <3>9. f[n] = step[<<n, f[prev[n]]>>]
      BY <3>3, <3>8
    <3>10. \A k \in 1 .. n - 1 : f[k] = step[<<k, f[prev[k]]>>]
      <4>1. \A k \in 1 .. n - 1 : k \in 1 .. m /\ prev[k] \in 0 .. n - 1
        OBVIOUS
      <4> QED BY <3>2, <3>8, <4>1 DEF Computed
    <3>11. f[0] = b
      BY <3>2, <3>8, <2>2 DEF Computed
    <3> HIDE DEF f
    <3>12. \A k \in 1 .. n : k = n \/ k \in 1 .. n - 1
      OBVIOUS
    <3>13. Computed(f, n, b, prev, step)
      BY <3>9, <3>10, <3>11, <3>12 DEF Computed
    <3> QED BY <3>7, <3>13
  <2> QED BY <2>1, <2>2
<1>2. \A n \in 0 .. m : n \in T
  <2> HIDE DEF T
  <2> QED BY <1>1, UpTo
<1> QED BY <1>2

-----------------------------------------------------------------------------
(* No multiple of d but 0 lies strictly between -d and d.                  *)
LEMMA NoMultipleBetween ==
  ASSUME NEW d \in Nat, d > 0, NEW k \in Int, d * k < d, -d < d * k
  PROVE  k = 0
<1>1. CASE k >= 1
  <2>1. d * k >= d
    BY <1>1
  <2> QED BY <2>1
<1>2. CASE k <= -1
  <2>1. d * k <= -d
    BY <1>2
  <2> QED BY <2>1
<1> QED BY <1>1, <1>2

(* A number has one quotient and one remainder.                            *)
LEMMA ModUnique ==
  ASSUME NEW d \in Nat, d > 0, NEW x \in Int, NEW q \in Int, NEW r \in 0 .. d - 1,
         x = d * q + r
  PROVE  x % d = r
<1> DEFINE k == x \div d
           s == x % d
<1>1. k \in Int /\ s \in 0 .. d - 1 /\ x = d * k + s
  BY Z3
<1> HIDE DEF k, s
<1>2. d * (q - k) = s - r
  BY <1>1, Z3
<1>3. d * (q - k) < d /\ -d < d * (q - k)
  BY <1>1, <1>2
<1>4. q - k = 0
  BY <1>1, <1>3, NoMultipleBetween
<1>5. q = k
  BY <1>1, <1>4
<1> QED BY <1>1, <1>5 DEF s

(* Remainders of d: they repeat after d, the next one follows the one      *)
(* before, and d numbers in a row have different ones.                     *)
LEMMA ModFacts ==
  ASSUME NEW d \in Nat, d > 0, NEW n \in Nat
  PROVE  /\ n % d \in 0 .. d - 1
         /\ n < d => n % d = n
         /\ (n + d) % d = n % d
         /\ ((n % d) + 1) % d = (n + 1) % d
         /\ \A m \in Nat : m <= n /\ n < m + d /\ m % d = n % d => m = n
<1> DEFINE k == n \div d
           s == n % d
<1>1. k \in Int /\ s \in 0 .. d - 1 /\ n = d * k + s
  BY Z3
<1> HIDE DEF k, s
<1>2. n < d => n % d = n
  <2>1. n = d * 0 + n
    OBVIOUS
  <2>2. n < d => n \in 0 .. d - 1
    OBVIOUS
  <2> QED BY <2>1, <2>2, ModUnique
<1>3. (n + d) % d = s
  <2>1. n + d = d * (k + 1) + s
    BY <1>1, Z3
  <2>2. k + 1 \in Int /\ n + d \in Int
    BY <1>1
  <2> QED BY <1>1, <2>1, <2>2, ModUnique
<1>4. (s + 1) % d = (n + 1) % d
  <2>1. CASE s + 1 < d
    <3>1. n + 1 = d * k + (s + 1) /\ s + 1 = d * 0 + (s + 1)
      BY <1>1
    <3>2. s + 1 \in 0 .. d - 1 /\ n + 1 \in Int
      BY <1>1, <2>1
    <3>3. (n + 1) % d = s + 1
      BY <1>1, <3>1, <3>2, ModUnique
    <3>4. (s + 1) % d = s + 1
      <4> DEFINE t == s + 1
      <4>1. t \in 0 .. d - 1 /\ t \in Int /\ t = d * 0 + t
        BY <3>2
      <4> HIDE DEF t
      <4>2. t % d = t
        BY <4>1, ModUnique
      <4> QED BY <4>2 DEF t
    <3> QED BY <3>3, <3>4
  <2>2. CASE s + 1 = d
    <3>1. n + 1 = d * (k + 1) + 0
      BY <1>1, <2>2, Z3
    <3>2. d = d * 1 + 0 /\ 0 \in 0 .. d - 1
      OBVIOUS
    <3>3. d % d = 0
      BY <3>2, ModUnique
    <3>4. (n + 1) % d = 0
      <4>1. k + 1 \in Int /\ n + 1 \in Int
        BY <1>1
      <4> QED BY <3>1, <3>2, <4>1, ModUnique
    <3> QED BY <2>2, <3>3, <3>4
  <2> QED BY <1>1, <2>1, <2>2
<1>5. ASSUME NEW m \in Nat, m <= n, n < m + d, m % d = s
      PROVE  m = n
  <2> DEFINE l == m \div d
  <2>1. l \in Int /\ m = d * l + s
    BY <1>5, Z3
  <2> HIDE DEF l
  <2>2. n - m = d * (k - l)
    BY <1>1, <2>1, Z3
  <2>3. k - l = 0
    <3>1. k - l \in Int /\ d * (k - l) < d /\ -d < d * (k - l)
      BY <1>1, <1>5, <2>1, <2>2
    <3> QED BY <3>1, NoMultipleBetween
  <2>4. k = l
    BY <1>1, <2>1, <2>3
  <2> QED BY <1>1, <2>1, <2>4
<1> QED BY <1>1, <1>2, <1>3, <1>4, <1>5 DEF s

(* The remainders repeat after d.                                          *)
LEMMA ModAgain ==
  ASSUME NEW d \in Nat, d > 0, NEW n \in Nat, NEW m, m = n + d
  PROVE  m % d = n % d
BY ModFacts
=============================================================================

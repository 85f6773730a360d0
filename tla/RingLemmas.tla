----------------------------- MODULE RingLemmas -----------------------------
(***************************************************************************)
(* Arithmetic of a ring indexed by seq % R, as the receive bitmap          *)
(* (receiver.hpp slot()), the registry (registry.hpp index_of()) and the   *)
(* dispatch marks (transfer.cpp) use it: which sequence numbers share a    *)
(* position, and where consecutive ones land.                              *)
(***************************************************************************)
EXTENDS Integers, WellFoundedInduction, TLAPS

(* Division with remainder. *)
LEMMA DivMod ==
    ASSUME NEW R \in Nat \ {0}, NEW s \in Nat
    PROVE  /\ s \div R \in Nat
           /\ s % R \in 0 .. (R - 1)
           /\ s = R * (s \div R) + (s % R)
    OBVIOUS

(* Multiples of R are R apart. *)
LEMMA MultipleGap ==
    ASSUME NEW R \in Nat \ {0}, NEW a \in Int, NEW b \in Int, a < b
    PROVE  R * a + R <= R * b
<1>1. a + 1 <= b
    OBVIOUS
<1>2. R * (a + 1) <= R * b
    BY <1>1
<1> QED
    BY <1>2

(* The remainder is determined by any decomposition with a small rest. *)
LEMMA ModUnique ==
    ASSUME NEW R \in Nat \ {0}, NEW s \in Nat, NEW a \in Int, NEW c \in 0 .. (R - 1),
           s = R * a + c
    PROVE  s % R = c
<1> DEFINE q == s \div R
           r == s % R
<1>1. q \in Nat /\ r \in 0 .. (R - 1) /\ s = R * q + r
    BY DivMod, Zenon
<1> HIDE DEF q, r
<1>2. CASE q < a
    <2>1. R * q + R <= R * a
        BY <1>1, <1>2, MultipleGap
    <2> QED
        BY <1>1, <2>1
<1>3. CASE a < q
    <2>1. R * a + R <= R * q
        BY <1>1, <1>3, MultipleGap
    <2> QED
        BY <1>1, <2>1
<1>4. CASE a = q
    <2>1. c = r
        BY <1>1, <1>4
    <2> QED
        BY <2>1 DEF r
<1> QED
    BY <1>1, <1>2, <1>3, <1>4

(* Two sequence numbers that share a position are at least a lap apart. *)
LEMMA SlotInjective ==
    ASSUME NEW R \in Nat \ {0}, NEW s \in Nat, NEW t \in Nat, s % R = t % R, s < t
    PROVE  s + R <= t
<1> DEFINE q == s \div R
           p == t \div R
           r == s % R
<1>1. q \in Nat /\ p \in Nat /\ r \in 0 .. (R - 1) /\ s = R * q + r /\ t = R * p + r
    BY DivMod, Zenon
<1> HIDE DEF q, p, r
<1>2. q < p
    <2> SUFFICES ASSUME p <= q PROVE FALSE
        BY <1>1
    <2>1. CASE p = q
        BY <1>1, <2>1
    <2>2. CASE p < q
        <3>1. R * p + R <= R * q
            BY <1>1, <2>2, MultipleGap
        <3> QED
            BY <1>1, <3>1
    <2> QED
        BY <1>1, <2>1, <2>2
<1>3. R * q + R <= R * p
    BY <1>1, <1>2, MultipleGap
<1> QED
    BY <1>1, <1>3

(* Within one lap, a position belongs to one sequence number. *)
LEMMA SlotSame ==
    ASSUME NEW R \in Nat \ {0}, NEW lo \in Nat,
           NEW s \in lo .. lo + R - 1, NEW t \in lo .. lo + R - 1, s % R = t % R
    PROVE  s = t
<1>1. s \in Nat /\ t \in Nat /\ s < t + R /\ t < s + R
    OBVIOUS
<1>2. s < t => s + R <= t
    BY <1>1, SlotInjective, Zenon
<1>3. t < s => t + R <= s
    BY <1>1, SlotInjective, Zenon
<1> QED
    BY <1>1, <1>2, <1>3

(* Going on k positions without passing the end of the ring. *)
LEMMA ModPlus ==
    ASSUME NEW R \in Nat \ {0}, NEW s \in Nat, NEW k \in Nat, (s % R) + k < R
    PROVE  (s + k) % R = (s % R) + k
<1> DEFINE q == s \div R
           r == s % R
<1>1. q \in Nat /\ r \in 0 .. (R - 1) /\ s = R * q + r
    BY DivMod, Zenon
<1>2. r + k \in 0 .. (R - 1) /\ s + k = R * q + (r + k)
    BY <1>1
<1> HIDE DEF q, r
<1>3. (s + k) % R = r + k
    BY <1>1, <1>2, ModUnique
<1> QED
    BY <1>3 DEF r

(* Going on k positions past the end of the ring, once. *)
LEMMA ModWrap ==
    ASSUME NEW R \in Nat \ {0}, NEW s \in Nat, NEW k \in Nat,
           R <= (s % R) + k, (s % R) + k < 2 * R
    PROVE  (s + k) % R = (s % R) + k - R
<1> DEFINE q == s \div R
           r == s % R
<1>1. q \in Nat /\ r \in 0 .. (R - 1) /\ s = R * q + r
    BY DivMod, Zenon
<1> DEFINE c == r + k - R
           a == q + 1
           n == s + k
<1>2. c \in 0 .. (R - 1) /\ a \in Int /\ n \in Nat /\ R * (q + 1) = R * q + R
    BY <1>1
<1>3. n = R * a + c
    BY <1>1, <1>2
<1> HIDE DEF c, a, n
<1>4. n % R = c
    BY <1>2, <1>3, ModUnique
<1> QED
    BY <1>4 DEF c, n

(* One lap from lo on visits every position. *)
LEMMA SlotCovers ==
    ASSUME NEW R \in Nat \ {0}, NEW lo \in Nat, NEW i \in 0 .. (R - 1)
    PROVE  \E s \in lo .. lo + R - 1 : s % R = i
<1> DEFINE r == lo % R
<1>1. r \in 0 .. (R - 1)
    BY DivMod
<1>2. CASE r <= i
    <2>1. i - r \in Nat /\ (lo % R) + (i - r) < R /\ (lo % R) + (i - r) = i
        BY <1>1, <1>2
    <2>2. (lo + (i - r)) % R = i
        BY <2>1, ModPlus, Zenon
    <2>3. lo + (i - r) \in lo .. lo + R - 1
        BY <1>1, <1>2
    <2> QED
        BY <2>2, <2>3
<1>3. CASE i < r
    <2>1. /\ i + R - r \in Nat
          /\ R <= (lo % R) + (i + R - r)
          /\ (lo % R) + (i + R - r) < 2 * R
          /\ (lo % R) + (i + R - r) - R = i
        BY <1>1, <1>3
    <2>2. (lo + (i + R - r)) % R = i
        BY <2>1, ModWrap, Zenon
    <2>3. lo + (i + R - r) \in lo .. lo + R - 1
        BY <1>1, <1>3
    <2> QED
        BY <2>2, <2>3
<1> QED
    BY <1>1, <1>2, <1>3

-----------------------------------------------------------------------------
(* The ends of a set of numbers. *)

(* A non-empty set of natural numbers has a least element, *)
LEMMA LeastNat ==
    ASSUME NEW T \in SUBSET Nat, T # {}
    PROVE  \E x \in T : \A y \in T : x <= y
<1> DEFINE R == OpToRel(<, Nat)
<1>1. IsWellFoundedOn(R, Nat)
    BY NatLessThanWellFounded, Zenon
<1>2. \A x, y \in Nat : x < y => <<x, y>> \in R
    BY DEF OpToRel
<1> HIDE DEF R
<1>3. PICK x \in T : \A y \in T : ~ (<<y, x>> \in R)
    BY <1>1, WFMin, Zenon
<1>4. ASSUME NEW y \in T
      PROVE  x <= y
    <2>1. x \in Nat /\ y \in Nat
        OBVIOUS
    <2>2. ~ (y < x)
        BY <1>2, <1>3, <2>1, Zenon
    <2> QED
        BY <2>1, <2>2
<1> QED
    BY <1>4

(* and if it is bounded, a greatest one. *)
LEMMA GreatestBelow ==
    ASSUME NEW m \in Nat, NEW S \in SUBSET (0 .. m), S # {}
    PROVE  \E x \in S : \A y \in S : x >= y
<1> DEFINE T == {m - y : y \in S}
<1>1. \A y \in S : y \in Int /\ 0 <= y /\ y <= m
    OBVIOUS
<1>2. \A y \in S : m - y \in Nat /\ m - y \in T
    BY <1>1
<1>3. \A t \in T : \E y \in S : t = m - y
    BY Zenon
<1> HIDE DEF T
<1>4. T \in SUBSET Nat /\ T # {}
    BY <1>2, <1>3, Zenon
<1>5. PICK x \in T : \A y \in T : x <= y
    BY <1>4, LeastNat
<1>6. PICK s \in S : x = m - s
    BY <1>3, <1>5
<1>7. ASSUME NEW y \in S
      PROVE  s >= y
    <2>1. m - s <= m - y
        BY <1>2, <1>5, <1>6
    <2> QED
        BY <1>1, <2>1
<1> QED
    BY <1>7

(* n different numbers below n are all of them. *)
LEMMA PigeonHole ==
    ASSUME NEW n \in Nat, NEW f \in [1 .. n -> 0 .. n - 1],
           \A i, j \in 1 .. n : f[i] = f[j] => i = j
    PROVE  \A y \in 0 .. n - 1 : \E i \in 1 .. n : f[i] = y
<1> DEFINE Misses(m, g) ==
               /\ \A i, j \in 1 .. m : g[i] = g[j] => i = j
               /\ \E y \in 0 .. m - 1 : \A i \in 1 .. m : g[i] # y
           T == {m \in Nat : \E g \in [1 .. m -> 0 .. m - 1] : Misses(m, g)}
<1> SUFFICES ASSUME T # {}
             PROVE  FALSE
    BY Zenon
<1>1. PICK m \in T : \A k \in T : m <= k
    BY LeastNat
<1>2. PICK g \in [1 .. m -> 0 .. m - 1] : Misses(m, g)
    BY <1>1
<1>3. PICK y \in 0 .. m - 1 : \A i \in 1 .. m : g[i] # y
    BY <1>2
<1>4. m \in Nat /\ m > 0 /\ m - 1 \in Nat /\ m \in 1 .. m /\ m - 1 \in 0 .. m - 1
    BY <1>1, <1>3
<1> DEFINE p == m - 1
           swap == [i \in 1 .. p |-> IF g[i] = p THEN g[m] ELSE g[i]]
<1>5. \A i \in 1 .. p : i \in 1 .. m /\ i # m
    BY <1>4
<1>6. \A i, j \in 1 .. m : g[i] = g[j] => i = j
    BY <1>2
<1>7. swap \in [1 .. p -> 0 .. p - 1]
    <2> SUFFICES ASSUME NEW i \in 1 .. p
                 PROVE  swap[i] \in 0 .. p - 1
        OBVIOUS
    <2>1. g[i] \in 0 .. m - 1 /\ g[m] \in 0 .. m - 1 /\ g[i] # g[m]
        BY <1>4, <1>5, <1>6
    <2>2. swap[i] = IF g[i] = p THEN g[m] ELSE g[i]
        OBVIOUS
    <2>3. swap[i] \in 0 .. m - 1 /\ swap[i] # p
        BY <2>1, <2>2
    <2>4. \A z \in 0 .. m - 1 : z # p => z \in 0 .. p - 1
        BY <1>4
    <2> QED
        BY <2>3, <2>4, Zenon
<1>8. ASSUME NEW i \in 1 .. p, NEW j \in 1 .. p, swap[i] = swap[j]
      PROVE  i = j
    <2>1. /\ swap[i] = IF g[i] = p THEN g[m] ELSE g[i]
          /\ swap[j] = IF g[j] = p THEN g[m] ELSE g[j]
        OBVIOUS
    <2>2. {i, j, m} \subseteq 1 .. m /\ i # m /\ j # m
        BY <1>4, <1>5
    <2> HIDE DEF swap, p
    <2> QED
        BY <1>6, <1>8, <2>1, <2>2
<1>9. ~ Misses(p, swap)
    <2>1. p \notin T
        <3> HIDE DEF T
        <3> QED
            BY <1>1, <1>4
    <2> QED
        BY <1>4, <1>7, <2>1
<1>10. \A z \in 0 .. p - 1 : \E i \in 1 .. p : swap[i] = z
    BY <1>8, <1>9
<1>11. CASE y = p
    <2>1. \A i \in 1 .. p : g[i] # p
        BY <1>3, <1>5, <1>11
    <2>2. g[m] \in 0 .. p - 1
        <3>1. g[m] \in 0 .. m - 1 /\ g[m] # p
            BY <1>3, <1>4, <1>11
        <3> QED
            BY <1>4, <3>1
    <2>3. PICK i \in 1 .. p : swap[i] = g[m]
        BY <1>10, <2>2
    <2>4. g[i] = g[m]
        BY <2>1, <2>3
    <2> QED
        BY <1>4, <1>5, <1>6, <2>4
<1>12. CASE y # p
    <2>1. y \in 0 .. p - 1
        BY <1>4, <1>12
    <2>2. PICK i \in 1 .. p : swap[i] = y
        BY <1>10, <2>1
    <2>3. g[i] = y \/ g[m] = y
        BY <2>2
    <2> QED
        BY <1>3, <1>4, <1>5, <2>3
<1> QED
    BY <1>11, <1>12

=============================================================================

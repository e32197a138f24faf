--------------------------- MODULE RateLimiterProofs --------------------------
(***************************************************************************)
(* What every delay of module RateLimiter satisfies, for all constants     *)
(* that satisfy Parameters.                                                *)
(*                                                                         *)
(* The library's theorems on induction and recursion over Nat take an      *)
(* operator, which no prover here can instantiate.  Induction is done with *)
(* a set instead, from the least element of what is not in it, and         *)
(* recursion with a function that is iterated.                             *)
(***************************************************************************)
EXTENDS RateLimiter, WellFoundedInduction, TLAPS

LEMMA Induction ==
    ASSUME NEW S, 0 \in S, \A n \in Nat : n \in S => n + 1 \in S
    PROVE  Nat \subseteq S
<1> DEFINE T == Nat \ S
           R == OpToRel(<, Nat)
<1>1. SUFFICES ASSUME T # {}
               PROVE  FALSE
  OBVIOUS
<1>2. \A x, y \in Nat : y < x => <<y, x>> \in R
  BY DEF OpToRel
<1>3. \E x \in T : \A y \in T : ~ (<<y, x>> \in R)
  <2>1. IsWellFoundedOn(R, Nat) /\ T \subseteq Nat
    BY NatLessThanWellFounded
  <2> HIDE DEF T, R
  <2> QED
    BY <1>1, <2>1, WFMin
<1>4. PICK x \in T : \A y \in T : ~ (<<y, x>> \in R)
  BY <1>3
<1> HIDE DEF R
<1>5. x # 0 /\ x - 1 \in Nat /\ x - 1 < x /\ (x - 1) + 1 = x
  OBVIOUS
<1>6. x - 1 \in S
  BY <1>2, <1>4, <1>5
<1> QED
  BY <1>5, <1>6

(* The first n + 1 values of a, step[a], step[step[a]], ...                 *)
FirstIterates(n, a, step, S) ==
    {g \in [0 .. n -> S] : g[0] = a /\ \A i \in 0 .. n - 1 : g[i + 1] = step[g[i]]}

LEMMA IteratesExist ==
    ASSUME NEW S, NEW a \in S, NEW step \in [S -> S]
    PROVE  \A n \in Nat : FirstIterates(n, a, step, S) # {}
<1> DEFINE P == {n \in Nat : FirstIterates(n, a, step, S) # {}}
<1>1. 0 \in P
  <2>1. [i \in 0 .. 0 |-> a] \in FirstIterates(0, a, step, S)
    BY DEF FirstIterates
  <2> QED
    BY <2>1
<1>2. ASSUME NEW n \in Nat, n \in P
      PROVE  n + 1 \in P
  <2>1. PICK g : g \in FirstIterates(n, a, step, S)
    BY <1>2
  <2>2. g \in [0 .. n -> S] /\ g[0] = a /\ \A i \in 0 .. n - 1 : g[i + 1] = step[g[i]]
    BY <2>1 DEF FirstIterates
  <2> DEFINE h == [i \in 0 .. n + 1 |-> IF i = n + 1 THEN step[g[n]] ELSE g[i]]
  <2>3. h \in [0 .. n + 1 -> S] /\ h[0] = a
    BY <2>2
  <2>4. \A i \in 0 .. (n + 1) - 1 : h[i + 1] = step[h[i]]
    BY <2>2
  <2>5. h \in FirstIterates(n + 1, a, step, S)
    BY <2>3, <2>4 DEF FirstIterates
  <2> QED
    BY <2>5
<1> HIDE DEF P
<1>3. Nat \subseteq P
  BY <1>1, <1>2, Induction
<1> QED
  BY <1>3 DEF P

LEMMA IteratesAgree ==
    ASSUME NEW S, NEW a \in S, NEW step \in [S -> S],
           NEW m \in Nat, NEW k \in Nat,
           NEW g \in FirstIterates(m, a, step, S), NEW h \in FirstIterates(k, a, step, S)
    PROVE  \A n \in Nat : n <= m /\ n <= k => g[n] = h[n]
<1> DEFINE P == {n \in Nat : n <= m /\ n <= k => g[n] = h[n]}
<1>1. 0 \in P
  BY DEF FirstIterates
<1>2. ASSUME NEW n \in Nat, n \in P
      PROVE  n + 1 \in P
  BY <1>2 DEF FirstIterates
<1> HIDE DEF P
<1>3. Nat \subseteq P
  BY <1>1, <1>2, Induction
<1> QED
  BY <1>3 DEF P

Iterates(f, a, step) == f[0] = a /\ \A n \in Nat \ {0} : f[n] = step[f[n - 1]]

LEMMA Recursion ==
    ASSUME NEW S, NEW a \in S, NEW step \in [S -> S]
    PROVE  \E f \in [Nat -> S] : Iterates(f, a, step)
<1> DEFINE it(n) == CHOOSE g : g \in FirstIterates(n, a, step, S)
           f == [n \in Nat |-> it(n)[n]]
<1>1. \A n \in Nat : it(n) \in FirstIterates(n, a, step, S)
  BY IteratesExist
<1> HIDE DEF it
<1>2. f \in [Nat -> S] /\ f[0] = a
  BY <1>1 DEF FirstIterates
<1>3. ASSUME NEW n \in Nat, n # 0
      PROVE  f[n] = step[f[n - 1]]
  <2>1. n - 1 \in Nat /\ n - 1 <= n /\ n - 1 \in 0 .. n - 1 /\ (n - 1) + 1 = n
    BY <1>3
  <2>2. it(n)[n] = step[it(n)[n - 1]]
    BY <1>1, <2>1 DEF FirstIterates
  <2>3. it(n)[n - 1] = it(n - 1)[n - 1]
    BY <1>1, <2>1, IteratesAgree
  <2> QED
    BY <2>1, <2>2, <2>3
<1> HIDE DEF f
<1> QED
  BY <1>2, <1>3 DEF Iterates
-------------------------------------------------------------------------------
(* The recursive functions of RateLimiter.                                  *)

LEMMA DoubledValues ==
    ASSUME Parameters
    PROVE  /\ Doubled \in [Nat -> Nat] /\ Doubled[0] = Base
           /\ \A n \in Nat : Doubled[n + 1] = 2 * Doubled[n]
<1>1. PICK step \in [Nat -> Nat] : \A x \in Nat : step[x] = 2 * x
  <2>1. [x \in Nat |-> 2 * x] \in [Nat -> Nat]
    OBVIOUS
  <2> QED
    BY <2>1
<1>2. Base \in Nat
  BY DEF Parameters
<1>3. PICK f \in [Nat -> Nat] : Iterates(f, Base, step)
  BY <1>1, <1>2, Recursion
<1>4. \A n \in Nat : f[n] = IF n = 0 THEN Base ELSE 2 * f[n - 1]
  BY <1>1, <1>3 DEF Iterates
<1>5. f = [n \in Nat |-> IF n = 0 THEN Base ELSE 2 * f[n - 1]]
  <2> DEFINE g == [n \in Nat |-> IF n = 0 THEN Base ELSE 2 * f[n - 1]]
  <2>1. g = [n \in Nat |-> g[n]] /\ f = [n \in Nat |-> f[n]] /\ \A n \in Nat : f[n] = g[n]
    BY <1>4
  <2> HIDE DEF g
  <2>2. f = g
    BY <2>1
  <2> QED
    BY <2>2 DEF g
<1>6. Doubled = [n \in Nat |-> IF n = 0 THEN Base ELSE 2 * Doubled[n - 1]]
  BY <1>5, Zenon DEF Doubled
<1>7. \A n \in Nat : Doubled[n] = IF n = 0 THEN Base ELSE 2 * Doubled[n - 1]
  BY <1>6
<1>8. Doubled[0] = Base /\ \A n \in Nat : Doubled[n + 1] = 2 * Doubled[n]
  <2>1. ASSUME NEW n \in Nat
        PROVE  Doubled[n + 1] = 2 * Doubled[n]
    <3>1. n + 1 \in Nat /\ n + 1 # 0 /\ (n + 1) - 1 = n
      OBVIOUS
    <3> QED
      BY <1>7, <3>1
  <2> QED
    BY <1>7, <2>1
<1> DEFINE P == {n \in Nat : Doubled[n] \in Nat}
<1>9. Nat \subseteq P
  <2>1. 0 \in P /\ \A n \in Nat : n \in P => n + 1 \in P
    BY <1>2, <1>8
  <2> HIDE DEF P
  <2> QED
    BY <2>1, Induction
<1> QED
  BY <1>6, <1>8, <1>9

LEMMA ShiftedValues ==
    ASSUME Parameters
    PROVE  /\ Shifted \in [Nat -> Int] /\ Shifted[0] = Base
           /\ \A n \in Nat : Shifted[n + 1] = Wrap(2 * Shifted[n])
<1>1. Base \in Int /\ \A x \in Int : Wrap(x) \in Int
  <2>1. Base \in Int /\ MaxInt \in Int
    BY DEF Parameters
  <2> QED
    BY <2>1 DEF Wrap
<1>2. PICK step \in [Int -> Int] : \A x \in Int : step[x] = Wrap(2 * x)
  <2>1. [x \in Int |-> Wrap(2 * x)] \in [Int -> Int]
    BY <1>1
  <2> QED
    BY <2>1
<1>3. PICK f \in [Nat -> Int] : Iterates(f, Base, step)
  BY <1>1, <1>2, Recursion
<1>4. \A n \in Nat : f[n] = IF n = 0 THEN Base ELSE Wrap(2 * f[n - 1])
  BY <1>2, <1>3 DEF Iterates
<1>5. f = [n \in Nat |-> IF n = 0 THEN Base ELSE Wrap(2 * f[n - 1])]
  <2> DEFINE g == [n \in Nat |-> IF n = 0 THEN Base ELSE Wrap(2 * f[n - 1])]
  <2>1. g = [n \in Nat |-> g[n]] /\ f = [n \in Nat |-> f[n]] /\ \A n \in Nat : f[n] = g[n]
    BY <1>4
  <2> HIDE DEF g
  <2>2. f = g
    BY <2>1
  <2> QED
    BY <2>2 DEF g
<1>6. Shifted = [n \in Nat |-> IF n = 0 THEN Base ELSE Wrap(2 * Shifted[n - 1])]
  BY <1>5, Zenon DEF Shifted
<1>7. \A n \in Nat : Shifted[n] = IF n = 0 THEN Base ELSE Wrap(2 * Shifted[n - 1])
  BY <1>6
<1>8. Shifted[0] = Base /\ \A n \in Nat : Shifted[n + 1] = Wrap(2 * Shifted[n])
  <2>1. ASSUME NEW n \in Nat
        PROVE  Shifted[n + 1] = Wrap(2 * Shifted[n])
    <3>1. n + 1 \in Nat /\ n + 1 # 0 /\ (n + 1) - 1 = n
      OBVIOUS
    <3> QED
      BY <1>7, <3>1
  <2> QED
    BY <1>7, <2>1
<1> DEFINE P == {n \in Nat : Shifted[n] \in Int}
<1>9. Nat \subseteq P
  <2>1. 0 \in P /\ \A n \in Nat : n \in P => n + 1 \in P
    BY <1>1, <1>8
  <2> HIDE DEF P
  <2> QED
    BY <2>1, Induction
<1> QED
  BY <1>6, <1>8, <1>9
-------------------------------------------------------------------------------
(* The shift and its guards.                                                *)

LEMMA DoubledGrows ==
    ASSUME Parameters, NEW n \in Nat
    PROVE  /\ Doubled[n] \in Nat \ {0} /\ Doubled[n + 1] = 2 * Doubled[n]
           /\ \A m \in Nat : n <= m => Doubled[n] <= Doubled[m]
<1>1. \A m \in Nat : Doubled[m] \in Nat /\ Doubled[m + 1] = 2 * Doubled[m]
  BY DoubledValues
<1> DEFINE P == {m \in Nat : Doubled[m] # 0}
           Q == {m \in Nat : n <= m => Doubled[n] <= Doubled[m]}
<1>2. Nat \subseteq P
  <2>1. 0 \in P
    BY DoubledValues DEF Parameters
  <2>2. \A m \in Nat : m \in P => m + 1 \in P
    BY <1>1
  <2> HIDE DEF P
  <2> QED
    BY <2>1, <2>2, Induction
<1>3. Nat \subseteq Q
  <2>1. 0 \in Q
    BY <1>1
  <2>2. ASSUME NEW m \in Nat, m \in Q
        PROVE  m + 1 \in Q
    <3>1. CASE n <= m
      BY <1>1, <2>2, <3>1
    <3>2. CASE ~(n <= m)
      <4>1. n <= m + 1 => n = m + 1
        BY <3>2
      <4> QED
        BY <1>1, <4>1
    <3> QED
      BY <3>1, <3>2
  <2> HIDE DEF Q
  <2> QED
    BY <2>1, <2>2, Induction
<1> QED
  BY <1>1, <1>2, <1>3

(* Up to the cap nothing is shifted out.                                    *)
LEMMA ShiftIsExact ==
    ASSUME Parameters, Doubled[ShiftCap] <= MaxInt
    PROVE  \A n \in Nat : n <= ShiftCap => Shifted[n] = Doubled[n]
<1> DEFINE P == {n \in Nat : n <= ShiftCap => Shifted[n] = Doubled[n]}
<1>1. 0 \in P
  BY DoubledValues, ShiftedValues
<1>2. ASSUME NEW n \in Nat, n \in P
      PROVE  n + 1 \in P
  <2> SUFFICES ASSUME n + 1 <= ShiftCap
               PROVE  Shifted[n + 1] = Doubled[n + 1]
    OBVIOUS
  <2>1. n <= ShiftCap /\ n + 1 \in Nat /\ ShiftCap \in Nat /\ MaxInt \in Nat
    BY DEF Parameters
  <2>2. Shifted[n] = Doubled[n]
    BY <1>2, <2>1
  <2>3. /\ Doubled[n + 1] \in Nat /\ Doubled[n + 1] = 2 * Doubled[n]
        /\ Doubled[n + 1] <= Doubled[ShiftCap] /\ Doubled[ShiftCap] \in Nat
    BY <2>1, DoubledGrows
  <2>4. Doubled[n + 1] <= MaxInt
    BY <2>1, <2>3
  <2>5. Wrap(Doubled[n + 1]) = Doubled[n + 1]
    BY <2>1, <2>3, <2>4 DEF Wrap
  <2> QED
    BY <2>2, <2>3, <2>5, ShiftedValues
<1> HIDE DEF P
<1>3. Nat \subseteq P
  BY <1>1, <1>2, Induction
<1> QED
  BY <1>3 DEF P

(* Whatever the shift overflows to, when returns a positive delay that is    *)
(* at most the maximum (queue.go:48-65): enqueueAfter starts a timer for it  *)
(* and never takes its branch for d <= 0.                                    *)
THEOREM DelayBounds ==
    ASSUME Parameters, NEW n \in Nat
    PROVE  Delay(n) \in 1 .. MaxDelay
<1>1. Shifted[n] \in Int /\ MaxDelay \in Nat \ {0}
  BY ShiftedValues DEF Parameters
<1> QED
  BY <1>1 DEF Delay

LEMMA DelayIsMeant ==
    ASSUME Parameters, CapFits, NEW n \in Nat
    PROVE  Delay(n) = Meant(n)
<1>1. /\ ShiftCap \in Nat /\ MaxDelay \in Nat /\ MaxInt \in Nat
      /\ Doubled[ShiftCap] <= MaxInt /\ MaxDelay <= Doubled[ShiftCap]
      /\ Doubled[n] \in Nat \ {0} /\ Doubled[ShiftCap] \in Nat
  BY DoubledGrows DEF CapFits, Parameters
<1>2. CASE n <= ShiftCap
  <2>1. Shifted[n] = Doubled[n]
    BY <1>1, <1>2, ShiftIsExact
  <2> QED
    BY <1>1, <1>2, <2>1 DEF Delay, Meant
<1>3. CASE ~(n <= ShiftCap)
  <2>1. Doubled[ShiftCap] <= Doubled[n]
    BY <1>1, <1>3, DoubledGrows
  <2> QED
    BY <1>1, <1>3, <2>1 DEF Delay, Meant
<1> QED
  BY <1>2, <1>3

(* A key that fails once more never waits less.                             *)
LEMMA DelayGrows ==
    ASSUME Parameters, CapFits, NEW n \in Nat
    PROVE  Delay(n + 1) >= Delay(n)
<1>1. MaxDelay \in Nat /\ Doubled[n] \in Nat /\ Doubled[n + 1] = 2 * Doubled[n]
  BY DoubledGrows DEF Parameters
<1>2. Delay(n) = Meant(n) /\ Delay(n + 1) = Meant(n + 1)
  BY DelayIsMeant
<1> QED
  BY <1>1, <1>2 DEF Meant

(* The delay of every failure is base doubled once per failure and capped:   *)
(* the shift loses no bit below its cap, and is past the maximum at it       *)
(* (queue.go:55-65).                                                         *)
THEOREM DelaysAsMeant ==
    ASSUME Parameters, CapFits
    PROVE  DelayAsMeant
<1>1. \A n \in 0 .. ShiftCap + 5 : n \in Nat
  BY DEF Parameters
<1> QED
  BY <1>1, DelayIsMeant DEF DelayAsMeant

(* A call that counts or forgets touches one key only, and only forgetting   *)
(* shortens its delay.                                                      *)
LEMMA OneItem ==
    ASSUME Parameters, CapFits, TypeOK, NEW i \in Keys, When(i) \/ Forget(i)
    PROVE  BackoffStep
<1> SUFFICES ASSUME NEW k \in Keys, fails'[k] # fails[k]
             PROVE  /\ \A j \in Keys \ {k} : fails'[j] = fails[j]
                    /\ fails'[k] = 0 \/ Delay(fails'[k]) >= Delay(fails[k])
  BY DEF BackoffStep
<1>1. k = i
  BY DEF TypeOK, When, Forget
<1>2. CASE Forget(i)
  BY <1>1, <1>2 DEF TypeOK, Forget
<1>3. CASE When(i)
  <2>1. fails'[k] = fails[k] + 1 /\ \A j \in Keys \ {k} : fails'[j] = fails[j]
    BY <1>1, <1>3 DEF TypeOK, When
  <2>2. fails[k] \in Nat
    BY DEF TypeOK, Parameters
  <2> QED
    BY <2>1, <2>2, DelayGrows
<1> QED
  BY <1>2, <1>3
===============================================================================

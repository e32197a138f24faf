----------------------------- MODULE RateLimiter ------------------------------
(***************************************************************************)
(* exponentialRateLimiter of core/reconcile/queue.go: one failure count    *)
(* per key, and the delay a key that failed n times is given before its    *)
(* next attempt.  The delay is computed in Go's signed integers, so the    *)
(* shift is modelled with its wrap-around past MaxInt.                     *)
(***************************************************************************)
EXTENDS Integers

CONSTANTS
    Keys,
    Base,       \* backoffBase, in the clock's smallest unit
    MaxDelay,   \* backoffMax
    ShiftCap,   \* the exponent past which the shift is not computed (20)
    MaxInt,     \* the largest time.Duration (2^63 - 1)
    MaxFails    \* bound on the failure count of a key

\* What the constants may be (assumed where the module is instantiated).
Parameters ==
    /\ Base \in Nat \ {0}
    /\ MaxInt \in Nat /\ MaxDelay \in Base .. MaxInt
    /\ ShiftCap \in Nat
    /\ MaxFails \in Nat

VARIABLE fails   \* fails[k]: failures of k since the last forget

\* A failure count is never negative (forget resets, nothing decrements).
TypeOK == fails \in [Keys -> 0 .. MaxFails]

Init == fails = [k \in Keys |-> 0]

\* What is left of x, the double of a Duration, in two's complement.
Wrap(x) ==
    IF x > MaxInt THEN x - 2 * (MaxInt + 1)
    ELSE IF x < -MaxInt - 1 THEN x + 2 * (MaxInt + 1) ELSE x

\* r.base << n, one bit after the other.
Shifted[n \in Nat] == IF n = 0 THEN Base ELSE Wrap(2 * Shifted[n - 1])

\* A slip: the failure is counted before the delay is computed.
DelayAfterCount(n) ==
    LET backoff == Shifted[n + 1]
    IN  IF n > ShiftCap \/ backoff <= 0 \/ backoff > MaxDelay
        THEN MaxDelay
        ELSE backoff

Delay(n) ==
    LET backoff == Shifted[n]
    IN  IF n > ShiftCap \/ backoff <= 0 \/ backoff > MaxDelay
        THEN MaxDelay
        ELSE backoff

\* when(key) returns Delay(fails[key]) and counts the failure.
When(k) ==
    /\ fails[k] < MaxFails
    /\ fails' = [fails EXCEPT ![k] = @ + 1]

\* Slips: a success takes back one failure, or everybody's.
ForgetOne(k) == fails' = [fails EXCEPT ![k] = @ - 1]
ForgetAll(k) == fails' = [j \in Keys |-> 0]

Forget(k) == fails' = [fails EXCEPT ![k] = 0]
-------------------------------------------------------------------------------
\* The delay that is meant, base times 2^failures, capped at max
\* (queue.go:30-31), in unbounded integers.
Doubled[n \in Nat] == IF n = 0 THEN Base ELSE 2 * Doubled[n - 1]
Meant(n) == IF Doubled[n] <= MaxDelay THEN Doubled[n] ELSE MaxDelay

\* "Anything past ~20 doublings is well beyond max" (queue.go:55-56), and up to
\* there a Duration has the bits: so it is with 5ms, 1000s and 63 bits
\* (reconciler.go:30-31).
CapFits == Doubled[ShiftCap] \in MaxDelay .. MaxInt

\* The shift, its overflow guard and its cap compute the capped doubling
\* for every number of failures (queue.go:48-65): no wrapped, zero or negative
\* delay comes out, and the cap on the exponent never cuts a delay that was
\* still growing.
DelayAsMeant == \A n \in 0 .. ShiftCap + 5 : Delay(n) = Meant(n)

BackoffStep ==
    \A k \in Keys :
        fails'[k] # fails[k] =>
            /\ \A j \in Keys \ {k} : fails'[j] = fails[j]
            /\ fails'[k] = 0 \/ Delay(fails'[k]) >= Delay(fails[k])

\* Backoff is per item (queue.go:19-21): one call changes one key's count, so
\* a failing key never lengthens another key's delay, and between two forgets
\* a key's delay never shrinks.
PerItemBackoff == [][BackoffStep]_fails
===============================================================================

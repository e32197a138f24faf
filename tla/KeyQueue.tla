------------------------------- MODULE KeyQueue -------------------------------
(***************************************************************************)
(* What the work queue of core/reconcile promises to the code that uses it *)
(* (queue.go, the two "load-bearing properties" of its header): a set of   *)
(* keys that still owe a reconcile, and at most one worker per key.  There *)
(* is no order, no condition variable and no timer here; module WorkQueue  *)
(* has them and implements this one, and module Reconciler is written      *)
(* against this one.                                                       *)
(***************************************************************************)
CONSTANTS
    Keys,      \* the resource keys (reconciler.go, resourceKey)
    Workers,   \* the goroutines of the worker pool
    NoKey      \* what a worker between two reconciles holds

VARIABLES
    pending,   \* the keys that owe a reconcile
    held,      \* held[w] is the key worker w is reconciling, or NoKey
    closed     \* TRUE once the queue refuses new keys

vars == <<pending, held, closed>>

TypeOK ==
    /\ pending \subseteq Keys
    /\ held \in [Workers -> Keys \cup {NoKey}]
    /\ closed \in BOOLEAN

Init ==
    /\ pending = {}
    /\ held = [w \in Workers |-> NoKey]
    /\ closed = FALSE

InFlight == {held[w] : w \in Workers} \ {NoKey}

\* Asking for a reconcile of k; asking twice is asking once.
Add(k) ==
    /\ ~closed
    /\ pending' = pending \cup {k}
    /\ UNCHANGED <<held, closed>>

\* A slip: a key another worker holds is handed out too.
TakeAny(w, k) ==
    /\ held[w] = NoKey
    /\ k \in pending
    /\ pending' = pending \ {k}
    /\ held' = [held EXCEPT ![w] = k]
    /\ UNCHANGED closed

\* An idle worker starts on a key nobody holds, and the debt is paid by
\* this reconcile: whatever is asked from now on is a new debt.
Take(w, k) ==
    /\ held[w] = NoKey
    /\ k \in pending \ InFlight
    /\ pending' = pending \ {k}
    /\ held' = [held EXCEPT ![w] = k]
    /\ UNCHANGED closed

Release(w) ==
    /\ held[w] # NoKey
    /\ held' = [held EXCEPT ![w] = NoKey]
    /\ UNCHANGED <<pending, closed>>

Close ==
    /\ closed' = TRUE
    /\ UNCHANGED <<pending, held>>

Next ==
    \/ \E k \in Keys : Add(k)
    \/ \E w \in Workers, k \in Keys : Take(w, k)
    \/ \E w \in Workers : Release(w)
    \/ Close

\* No debt is forgotten, not even one that shutdown finds unpaid, as long as
\* every reconcile returns.
Fairness ==
    /\ \A w \in Workers : WF_vars(Release(w))
    /\ \A k \in Keys : SF_vars(\E w \in Workers : Take(w, k))

SafetySpec == Init /\ [][Next]_vars
Spec == SafetySpec /\ Fairness
===============================================================================

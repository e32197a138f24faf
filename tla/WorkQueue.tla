------------------------------- MODULE WorkQueue ------------------------------
(***************************************************************************)
(* workQueue of core/reconcile/queue.go with the pool of workers that      *)
(* drains it (worker and process of reconciler.go).  An action is one      *)
(* critical section of q.mu or of the limiter's lock.  What a reconcile    *)
(* does is left out: it ends in one of the outcomes process knows.         *)
(*                                                                         *)
(* A timer of time.AfterFunc is counted per key.  Its delay is not         *)
(* modelled, only that it fires later: both requeue delays are positive    *)
(* constants and the limiter's are positive by theorem DelayBounds of      *)
(* RateLimiterProofs, so enqueueAfter never takes its d <= 0 branch.       *)
(***************************************************************************)
EXTENDS Naturals, FiniteSets, SequencesExt

CONSTANTS
    Keys, Workers, NoKey,
    Base, MaxDelay, ShiftCap, MaxInt, MaxFails,   \* of module RateLimiter
    MaxTimers   \* bound on the timers of one sort that a key has pending

VARIABLES
    ready,         \* q.ready
    dirty,         \* q.dirty
    processing,    \* q.processing
    shuttingDown,  \* q.shuttingDown
    fails,         \* q.limiter
    delayed,       \* delayed[k]: pending timers of a plain enqueueAfter
    backoff,       \* backoff[k]: pending timers of an enqueueRateLimited
    pc,            \* pc[w]: where worker w is
    held           \* held[w]: the key get returned to w, NoKey if it has none

limiter == INSTANCE RateLimiter

ASSUME WorkQueueAssumption ==
    /\ NoKey \notin Keys
    /\ IsFiniteSet(Workers) /\ Workers # {}
    /\ MaxTimers \in Nat
    /\ limiter!Parameters

queue   == <<ready, dirty, processing, shuttingDown>>
timers  == <<delayed, backoff>>
threads == <<pc, held>>
vars    == <<queue, fails, timers, threads>>

Locations == {"get", "wait", "busy", "parked", "finishing", "exited"}

\* Types; the timers of a key and its failures stay within their bounds.
TypeOK ==
    /\ ready \in Seq(Keys)
    /\ dirty \subseteq Keys
    /\ processing \subseteq Keys
    /\ shuttingDown \in BOOLEAN
    /\ limiter!TypeOK
    /\ delayed \in [Keys -> 0 .. MaxTimers]
    /\ backoff \in [Keys -> 0 .. MaxTimers]
    /\ pc \in [Workers -> Locations]
    /\ held \in [Workers -> Keys \cup {NoKey}]

Init ==
    /\ ready = <<>>
    /\ dirty = {}
    /\ processing = {}
    /\ shuttingDown = FALSE
    /\ limiter!Init
    /\ delayed = [k \in Keys |-> 0]
    /\ backoff = [k \in Keys |-> 0]
    /\ pc = [w \in Workers |-> "get"]
    /\ held = [w \in Workers |-> NoKey]
-------------------------------------------------------------------------------
(* The queue's critical sections.  A goroutine in cond.Wait is at "wait";  *)
(* woken, it is back at "get", where it needs the lock to look again.      *)

Waiters(p) == {w \in Workers : p[w] = "wait"}
Awake(p)   == {w \in Workers : p[w] = "get"}

\* cond.Signal: the values pc may take when it is p; nobody waits, nobody wakes.
Signalled(p) ==
    IF Waiters(p) = {} THEN {p}
    ELSE {[p EXCEPT ![w] = "get"] : w \in Waiters(p)}

\* A slip: nobody is woken.
MakeReadySilently(k, p) ==
    /\ ready' = Append(ready, k)
    /\ pc' = p

\* The tail of enqueue and of done: k becomes ready and one waiter is woken.
MakeReady(k, p) ==
    /\ ready' = Append(ready, k)
    /\ pc' \in Signalled(p)

\* A slip: the check for a key that is already dirty is left out.
enqueueTwice(k) ==
    /\ IF shuttingDown
       THEN UNCHANGED <<ready, dirty, pc>>
       ELSE /\ dirty' = dirty \cup {k}
            /\ IF k \in processing
               THEN UNCHANGED <<ready, pc>>
               ELSE MakeReady(k, pc)
    /\ UNCHANGED <<processing, shuttingDown, held>>

\* A slip: a key that a worker has is put in line all the same.
enqueueRunning(k) ==
    /\ IF shuttingDown \/ k \in dirty
       THEN UNCHANGED <<ready, dirty, pc>>
       ELSE dirty' = dirty \cup {k} /\ MakeReady(k, pc)
    /\ UNCHANGED <<processing, shuttingDown, held>>

\* A slip: a key that a worker has is dropped instead of marked.
enqueueUnlessRunning(k) ==
    /\ IF shuttingDown \/ k \in dirty \cup processing
       THEN UNCHANGED <<ready, dirty, pc>>
       ELSE dirty' = dirty \cup {k} /\ MakeReady(k, pc)
    /\ UNCHANGED <<processing, shuttingDown, held>>

enqueue(k) ==
    /\ IF shuttingDown \/ k \in dirty
       THEN UNCHANGED <<ready, dirty, pc>>
       ELSE /\ dirty' = dirty \cup {k}
            /\ IF k \in processing
               THEN UNCHANGED <<ready, pc>>
               ELSE MakeReady(k, pc)
    /\ UNCHANGED <<processing, shuttingDown, held>>

\* resync enqueues one key of the listing (resyncLoop, on a tick or a nudge).
Resync(k) == enqueue(k) /\ UNCHANGED <<fails, timers>>

FireDelayed(k) ==
    /\ delayed[k] > 0
    /\ delayed' = [delayed EXCEPT ![k] = @ - 1]
    /\ enqueue(k)
    /\ UNCHANGED <<fails, backoff>>

FireBackoff(k) ==
    /\ backoff[k] > 0
    /\ backoff' = [backoff EXCEPT ![k] = @ - 1]
    /\ enqueue(k)
    /\ UNCHANGED <<fails, delayed>>

\* A slip: the newest ready key is taken.
GetNewestKey(w) ==
    /\ pc[w] = "get"
    /\ ready # <<>>
    /\ ready' = Front(ready)
    /\ processing' = processing \cup {Last(ready)}
    /\ dirty' = dirty \ {Last(ready)}
    /\ held' = [held EXCEPT ![w] = Last(ready)]
    /\ pc' = [pc EXCEPT ![w] = "busy"]
    /\ UNCHANGED <<shuttingDown, fails, timers>>

\* The three ways through get once it has the lock.
GetKey(w) ==
    /\ pc[w] = "get"
    /\ ready # <<>>
    /\ ready' = Tail(ready)
    /\ processing' = processing \cup {Head(ready)}
    /\ dirty' = dirty \ {Head(ready)}
    /\ held' = [held EXCEPT ![w] = Head(ready)]
    /\ pc' = [pc EXCEPT ![w] = "busy"]
    /\ UNCHANGED <<shuttingDown, fails, timers>>

GetWait(w) ==
    /\ pc[w] = "get"
    /\ ready = <<>> /\ ~shuttingDown
    /\ pc' = [pc EXCEPT ![w] = "wait"]
    /\ UNCHANGED <<queue, fails, timers, held>>

\* A slip: the shutdown flag is looked at before the ready keys.
GetExitAtOnce(w) ==
    /\ pc[w] = "get"
    /\ shuttingDown
    /\ pc' = [pc EXCEPT ![w] = "exited"]
    /\ UNCHANGED <<queue, fails, timers, held>>

GetExit(w) ==
    /\ pc[w] = "get"
    /\ ready = <<>> /\ shuttingDown
    /\ pc' = [pc EXCEPT ![w] = "exited"]
    /\ UNCHANGED <<queue, fails, timers, held>>

\* reconcile waits on a Reference or on a removal and asks for another look.
RequeueAfter(w) ==
    /\ pc[w] = "busy"
    /\ delayed[held[w]] < MaxTimers
    /\ delayed' = [delayed EXCEPT ![held[w]] = @ + 1]
    /\ pc' = [pc EXCEPT ![w] = "parked"]
    /\ UNCHANGED <<queue, fails, backoff, held>>

\* process ends without an error, or finds the resource gone: forget.
Succeed(w) ==
    /\ pc[w] \in {"busy", "parked"}
    /\ limiter!Forget(held[w])
    /\ pc' = [pc EXCEPT ![w] = "finishing"]
    /\ UNCHANGED <<queue, timers, held>>

\* process ends with an error: enqueueRateLimited.
Fail(w) ==
    /\ pc[w] = "busy"
    /\ backoff[held[w]] < MaxTimers
    /\ limiter!When(held[w])
    /\ backoff' = [backoff EXCEPT ![held[w]] = @ + 1]
    /\ pc' = [pc EXCEPT ![w] = "finishing"]
    /\ UNCHANGED <<queue, delayed, held>>

\* A slip: done does not look whether the key became dirty meanwhile.
doneOnly(w) ==
    /\ pc[w] = "finishing"
    /\ processing' = processing \ {held[w]}
    /\ pc' = [pc EXCEPT ![w] = "get"]
    /\ held' = [held EXCEPT ![w] = NoKey]
    /\ UNCHANGED <<ready, dirty, shuttingDown, fails, timers>>

\* The deferred done of process; the worker loops to get.
done(w) ==
    /\ pc[w] = "finishing"
    /\ processing' = processing \ {held[w]}
    /\ LET p == [pc EXCEPT ![w] = "get"]
       IN  IF held[w] \in dirty
           THEN MakeReady(held[w], p)
           ELSE pc' = p /\ UNCHANGED ready
    /\ held' = [held EXCEPT ![w] = NoKey]
    /\ UNCHANGED <<dirty, shuttingDown, fails, timers>>

\* A slip: the waiting workers are not woken.
shutDownQuietly ==
    /\ ~shuttingDown
    /\ shuttingDown' = TRUE
    /\ UNCHANGED <<ready, dirty, processing, fails, timers, threads>>

\* Run calls it once, when its context is cancelled; Broadcast wakes everyone.
shutDown ==
    /\ ~shuttingDown
    /\ shuttingDown' = TRUE
    /\ pc' = [w \in Workers |-> IF pc[w] = "wait" THEN "get" ELSE pc[w]]
    /\ UNCHANGED <<ready, dirty, processing, fails, timers, held>>

get(w) == GetKey(w) \/ GetWait(w) \/ GetExit(w)

process(w) == RequeueAfter(w) \/ Succeed(w) \/ Fail(w)

worker(w) == get(w) \/ process(w) \/ done(w)

Next ==
    \/ \E k \in Keys : Resync(k) \/ FireDelayed(k) \/ FireBackoff(k)
    \/ \E w \in Workers : worker(w)
    \/ shutDown

SafetySpec == Init /\ [][Next]_vars

\* A worker that is not blocked in cond.Wait runs: q.mu is released at the end
\* of every critical section, and a reconcile returns.  Nothing makes the
\* resync, a timer or the shutdown happen.
Spec == SafetySpec /\ \A w \in Workers : WF_vars(worker(w))
-------------------------------------------------------------------------------
\* The three containers agree: a key is ready exactly when it is dirty and no
\* worker has it, and it is ready once.  A key marked dirty while it is
\* processed is out of ready until done, which is what keeps a second worker
\* off it (enqueue's early return, done's re-add).
ReadyIsDirtyIdle ==
    /\ ToSet(ready) = dirty \ processing
    /\ IsInjective(ready)

\* A key is processing exactly while one worker, and only one, has it between
\* get and done: "the same key is never held by two workers at once"
\* (queue.go:12-14), and no key stays processing with no one to release it.
OneWorkerPerKey ==
    /\ processing = {held[w] : w \in Workers} \ {NoKey}
    /\ \A v, w \in Workers : v # w /\ held[v] = held[w] => held[v] = NoKey

\* No wake-up is lost: while a worker sleeps in cond.Wait, every ready key has
\* a worker of its own that is awake and on its way to the lock.  enqueue and
\* done signal once per key they append, and a woken worker may find that
\* another one was faster, so the count is what must not fall behind.
NoLostWakeup ==
    Waiters(pc) # {} => Len(ready) <= Cardinality(Awake(pc))

\* A failure is never dropped: while a key's failure count is not reset, the
\* key owes a reconcile, is in one, or has a backoff timer running, until
\* shutdown turns the timers into no-ops (enqueueRateLimited, shutDown).
FailureIsRetried ==
    \A k \in Keys :
        fails[k] > 0 /\ ~shuttingDown =>
            k \in dirty \cup processing \/ backoff[k] > 0

\* Nothing accepted before the shutdown is abandoned: when the last worker has
\* exited, no key is dirty or processing, also not one that was marked dirty
\* while its worker was in it and the other workers had already left.
DrainedAtExit ==
    (\A w \in Workers : pc[w] = "exited") => dirty = {} /\ processing = {}

\* What makes the invariants above inductive: where a worker has a key, that
\* nobody sleeps or leaves at the wrong side of the shutdown, and that a
\* failure is already provided for when done lets go of its key.
Phases ==
    \A w \in Workers :
        /\ held[w] # NoKey <=> pc[w] \in {"busy", "parked", "finishing"}
        /\ pc[w] = "wait" => ~shuttingDown
        /\ pc[w] = "exited" => shuttingDown
        /\ pc[w] = "finishing" /\ fails[held[w]] > 0 /\ ~shuttingDown =>
              held[w] \in dirty \/ backoff[held[w]] > 0

NoneLeftReady == (\A w \in Workers : pc[w] = "exited") => ready = <<>>

\* The inductive invariant of WorkQueueProofs; a reachable state of the queue
\* satisfies all of it.
IInv ==
    /\ TypeOK
    /\ ReadyIsDirtyIdle
    /\ OneWorkerPerKey
    /\ NoLostWakeup
    /\ FailureIsRetried
    /\ Phases
    /\ NoneLeftReady

\* The queue, its condition variable and its timers do what KeyQueue promises,
\* fairness included: every dirty key is in the end taken.
Abstract == INSTANCE KeyQueue WITH pending <- dirty, closed <- shuttingDown
ImplementsKeyQueue == Abstract!Spec

\* After shutDown every worker leaves: none sleeps on, and none is kept busy by
\* keys that are re-added for ever (Run waits for them, reconciler.go:116).
ShutdownEnds == shuttingDown ~> \A w \in Workers : pc[w] = "exited"

\* The limiter's own properties, with the queue calling it.
DelayAsMeant == limiter!DelayAsMeant
PerItemBackoff == limiter!PerItemBackoff

\* "A single `time.AfterFunc` per key" (workqueue-backoff-patterns.md:123): a
\* key does not have a second re-add under way while one is.
OneTimerPerKey == \A k \in Keys : delayed[k] + backoff[k] <= 1
===============================================================================

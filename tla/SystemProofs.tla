------------------------------ MODULE SystemProofs -----------------------------
(***************************************************************************)
(* What holds of System, whatever its constants: the queue's invariant     *)
(* survives its use by the reconciler and the restarts, and every step is  *)
(* a step of Reconciler over KeyQueue, or none.  With the theorems of      *)
(* ReconcilerProofs the reconciler is therefore correct on the queue as    *)
(* it is written.                                                          *)
(***************************************************************************)
EXTENDS System, WorkQueueProofs

(* The local variables of one worker are written; it stays in process.      *)
GoesOn(w) ==
    /\ HasJobs'
    /\ job'[w].at # "idle"
    /\ \A v \in Workers \ {w} : job'[v] = job[v]

LEMMA GotoGoes ==
    ASSUME HasJobs, NEW w \in Workers, NEW s, s # "idle", reconciler!Goto(w, s)
    PROVE  GoesOn(w) /\ job'[w].at = s
  BY DEF HasJobs, GoesOn, reconciler!Goto

LEMMA ReportGoes ==
    ASSUME HasJobs, NEW w \in Workers, NEW phase, NEW observed, NEW out,
           reconciler!ReportNext(w, phase, observed, out)
    PROVE  GoesOn(w)
  BY DEF HasJobs, GoesOn, reconciler!ReportNext

LEMMA FinishGoes ==
    ASSUME HasJobs, NEW w \in Workers, NEW out, reconciler!FinishNext(w, out)
    PROVE  /\ GoesOn(w)
           /\ job'[w].at = IF out = "ok" THEN "done" ELSE "requeue"
  BY DEF HasJobs, GoesOn, reconciler!FinishNext, reconciler!Idle

(* Between two calls to the queue a worker is neither idle nor about to     *)
(* call done, and stays in process.                                         *)
LEMMA CallGoes ==
    ASSUME HasJobs, NEW w \in Workers, Call(w)
    PROVE  GoesOn(w) /\ job[w].at \notin {"idle", "done"}
<1> USE GotoGoes, ReportGoes, FinishGoes
<1>1. CASE reconciler!Fetch(w)
  <2>1. ASSUME NEW res, NEW at, at # "idle",
               job' = [job EXCEPT ![w].res = res, ![w].at = at]
        PROVE  GoesOn(w)
    BY <2>1 DEF HasJobs, GoesOn
  <2>2. reconciler!Path(held[w], items[held[w]]) # "idle"
    BY DEF reconciler!Path
  <2> QED
    BY <1>1, <2>1, <2>2 DEF reconciler!Fetch, reconciler!At, reconciler!key
<1>2. CASE reconciler!Resolve(w)
  <2>1. ASSUME NEW vals, job' = [job EXCEPT ![w].vals = vals], job[w].at = "resolve"
        PROVE  GoesOn(w)
    BY <2>1 DEF HasJobs, GoesOn
  <2> QED
    BY <1>2, <2>1 DEF reconciler!Resolve, reconciler!At
<1>3. CASE reconciler!NoProvider(w)
  BY <1>3 DEF reconciler!NoProvider, reconciler!At
<1>4. ASSUME reconciler!Verdict(w) PROVE GoesOn(w)
  BY <1>4 DEF reconciler!Verdict
<1>5. CASE reconciler!Observe(w)
  BY <1>4, <1>5 DEF reconciler!Observe, reconciler!At
<1>6. CASE reconciler!Create(w)
  BY <1>6 DEF reconciler!Create, reconciler!At
<1>7. CASE reconciler!Teardown(w)
  BY <1>7 DEF reconciler!Teardown, reconciler!At
<1>8. CASE reconciler!Reobserve(w)
  BY <1>4, <1>8 DEF reconciler!Reobserve, reconciler!At
<1>9. CASE reconciler!Report(w)
  BY <1>9 DEF reconciler!Report, reconciler!At
<1>10. CASE reconciler!DelObserve(w)
  BY <1>10 DEF reconciler!DelObserve, reconciler!At
<1>11. CASE reconciler!DelDelete(w)
  BY <1>11 DEF reconciler!DelDelete, reconciler!At
<1>12. CASE reconciler!RemoveFromStore(w)
  BY <1>12 DEF reconciler!RemoveFromStore, reconciler!At
<1> QED
  BY <1>1, <1>2, <1>3, <1>5, <1>6, <1>7, <1>8, <1>9, <1>10, <1>11, <1>12 DEF Call
-------------------------------------------------------------------------------
(* To the queue, every step is one of its own or a restart.                 *)
LEMMA QueueStep ==
    ASSUME IInv, [SystemNext]_system
    PROVE  [Next]_vars \/ Restart
<1>1. ASSUME NEW w \in Workers,
             Take(w) \/ Idles(w) \/ Requeue(w) \/ Forget(w) \/ Done(w)
      PROVE  Next
  BY <1>1 DEF Take, Idles, Requeue, Forget, Done, Next, worker, get, process
<1>2. ASSUME NEW k \in Keys, Enqueue(k)
      PROVE  Next
  BY <1>2 DEF Enqueue, Next
<1>3. ASSUME Cancel PROVE Next
  BY <1>3 DEF Cancel, Next
<1>4. ASSUME UNCHANGED system PROVE UNCHANGED vars
  BY <1>4 DEF system
<1> QED
  BY <1>1, <1>2, <1>3, <1>4 DEF SystemNext, Call, Outside

LEMMA RestartBegins == Restart => Init'
  BY DEF Restart, Init, limiter!Init

LEMMA QueueKept == IInv /\ [SystemNext]_system => IInv'
<1>1. Init' => IInv'
  BY InitEstablishes, PTL
<1> QED
  BY <1>1, QueueStep, RestartBegins, StepPreserves

(* Where a worker is in the queue and where it is in process move together. *)
LEMMA InStepKept == SystemInv /\ [SystemNext]_system => HasJobs' /\ InStep'
<1> SUFFICES ASSUME SystemInv, [SystemNext]_system
             PROVE  HasJobs' /\ InStep'
  OBVIOUS
<1> USE DEF SystemInv
<1>1. /\ pc \in [Workers -> Locations]
      /\ \A w \in Workers :
            held[w] # NoKey <=> pc[w] \in {"busy", "parked", "finishing"}
  BY DEF IInv, TypeOK, Phases
<1>2. ASSUME NEW w \in Workers, GoesOn(w),
             pc'[w] \notin {"get", "wait", "exited"},
             pc'[w] \in {"parked", "finishing"} => job'[w].at = "done",
             \A v \in Workers \ {w} : pc'[v] = pc[v]
      PROVE  HasJobs' /\ InStep'
  BY <1>2 DEF GoesOn, InStep
<1>3. ASSUME NEW w \in Workers, Take(w)
      PROVE  HasJobs' /\ InStep'
  BY <1>1, <1>2, <1>3, GotoGoes DEF Take, GetKey
<1>4. ASSUME NEW w \in Workers, Call(w)
      PROVE  HasJobs' /\ InStep'
  BY <1>1, <1>2, <1>4, CallGoes DEF Call, vars, threads, InStep, Locations
<1>5. ASSUME NEW w \in Workers, Requeue(w)
      PROVE  HasJobs' /\ InStep'
  BY <1>1, <1>2, <1>5, FinishGoes DEF Requeue, RequeueAfter, Fail
<1>6. ASSUME UNCHANGED job,
             \A w \in Workers :
                 /\ pc'[w] \in {"get", "wait", "exited"} <=> pc[w] \in {"get", "wait", "exited"}
                 /\ pc'[w] \in {"parked", "finishing"} =>
                       pc[w] \in {"parked", "finishing"} \/ job[w].at = "done"
      PROVE  HasJobs' /\ InStep'
  BY <1>6 DEF HasJobs, InStep
<1>7. ASSUME NEW w \in Workers, Idles(w) \/ Forget(w)
      PROVE  HasJobs' /\ InStep'
  BY <1>1, <1>6, <1>7 DEF Idles, Forget, GetWait, GetExit, Succeed, reconciler!At
<1>8. ASSUME NEW p, p \in [Workers -> Locations], pc' \in Signalled(p)
      PROVE  \A w \in Workers : pc'[w] = p[w] \/ (p[w] = "wait" /\ pc'[w] = "get")
  BY <1>8 DEF Signalled, Waiters
<1>9. ASSUME NEW w \in Workers, Done(w)
      PROVE  HasJobs' /\ InStep'
  <2> DEFINE p == [pc EXCEPT ![w] = "get"]
  <2>1. p \in [Workers -> Locations]
    BY <1>1 DEF Locations
  <2>2. \A v \in Workers : pc'[v] = p[v] \/ (p[v] = "wait" /\ pc'[v] = "get")
    BY <1>8, <1>9, <2>1 DEF Done, done, MakeReady
  <2>3. HasJobs' /\ job'[w].at = "idle" /\ \A v \in Workers \ {w} : job'[v] = job[v]
    BY <1>9 DEF Done, HasJobs, reconciler!Idle
  <2> QED
    BY <1>1, <2>2, <2>3 DEF InStep
<1>10. ASSUME NEW k \in Keys, Enqueue(k)
       PROVE  HasJobs' /\ InStep'
  <2>1. pc' = pc \/ pc' \in Signalled(pc)
    BY <1>10 DEF Enqueue, Resync, FireDelayed, FireBackoff, enqueue, MakeReady
  <2> QED
    BY <1>1, <1>6, <1>8, <1>10, <2>1 DEF Enqueue
<1>11. CASE Cancel
  BY <1>1, <1>6, <1>11 DEF Cancel, shutDown
<1>12. CASE Restart
  BY <1>12 DEF Restart, HasJobs, InStep, reconciler!Idle
<1>13. ASSUME UNCHANGED threads, UNCHANGED job
       PROVE  HasJobs' /\ InStep'
  BY <1>6, <1>13 DEF threads
<1>14. ASSUME NEW k \in Keys, Outside(k)
       PROVE  HasJobs' /\ InStep'
  <2>1. UNCHANGED job
    BY <1>14 DEF Outside, reconciler!ClientDelete, reconciler!ClientPut,
                 reconciler!Drift, reconciler!Write
  <2> QED
    BY <1>13, <1>14, <2>1 DEF Outside, vars
<1> QED
  BY <1>3, <1>4, <1>5, <1>7, <1>9, <1>10, <1>11, <1>12, <1>13, <1>14
     DEF SystemNext, system, vars

LEMMA InStepFirst == SystemInit => SystemInv
<1>1. SystemInit => IInv
  BY InitEstablishes DEF SystemInit
<1>2. ASSUME SystemInit, NEW w \in Workers
      PROVE  job[w].at = "idle" /\ "at" \in DOMAIN job[w] /\ pc[w] = "get"
  BY <1>2 DEF SystemInit, Init, reconciler!Idle
<1>3. SystemInit => HasJobs
  BY <1>2 DEF SystemInit, HasJobs
<1>4. SystemInit => InStep
  BY <1>2 DEF InStep
<1> QED
  BY <1>1, <1>3, <1>4 DEF SystemInv

(* The queue and process stay in step, and all that WorkQueueProofs says of *)
(* a state of the queue holds of it under the reconciler, also after the    *)
(* process was restarted.                                                   *)
THEOREM SystemInvariance == SystemSpec => []SystemInv
<1>1. SystemInv /\ [SystemNext]_system => SystemInv'
  BY QueueKept, InStepKept DEF SystemInv
<1> QED
  BY <1>1, InStepFirst, PTL DEF SystemSpec
-------------------------------------------------------------------------------
(* The queue's methods as Reconciler sees them.                             *)
LEMMA EnqueueIsAdd ==
    ASSUME NEW k \in Keys, enqueue(k)
    PROVE  reconciler!enqueue(k)
<1>1. CASE shuttingDown
  BY <1>1 DEF enqueue, reconciler!enqueue, reconciler!queue
<1>2. CASE ~shuttingDown
  BY <1>2 DEF enqueue, MakeReady, reconciler!enqueue, reconciler!Q!Add
<1> QED
  BY <1>1, <1>2

(* get returns a key that owes a reconcile and that no other worker has.    *)
LEMMA TakeIsTake ==
    ASSUME SystemInv, NEW w \in Workers, Take(w)
    PROVE  Head(ready) \in Keys /\ reconciler!Take(w, Head(ready))
<1>1. Head(ready) \in Keys /\ Head(ready) \in ToSet(ready)
  BY TailDistinct DEF Take, GetKey, SystemInv, IInv, TypeOK, ReadyIsDirtyIdle
<1>2. Head(ready) \in dirty \ reconciler!Q!InFlight
  BY <1>1 DEF SystemInv, IInv, ReadyIsDirtyIdle, OneWorkerPerKey, reconciler!Q!InFlight
<1>3. held[w] = NoKey
  BY DEF Take, GetKey, SystemInv, IInv, Phases
<1>4. reconciler!Q!Take(w, Head(ready))
  BY <1>2, <1>3 DEF Take, GetKey, reconciler!Q!Take
<1> QED
  BY <1>1, <1>4 DEF Take, GetKey, world, timers, Armed, reconciler!Take, reconciler!world

(* Both kinds of requeue leave the key with a timer.                        *)
LEMMA RequeueIsRequeue ==
    ASSUME SystemInv, NEW w \in Workers, Requeue(w)
    PROVE  reconciler!Requeue(w)
<1>1. /\ delayed \in [Keys -> Nat] /\ backoff \in [Keys -> Nat]
      /\ held[w] \in Keys
  BY WorkQueueAssumption
     DEF WorkQueueAssumption, SystemInv, IInv, TypeOK, Phases, Requeue, RequeueAfter, Fail
<1>2. Armed' = Armed \cup {held[w]}
  BY <1>1 DEF Requeue, RequeueAfter, Fail, Armed
<1> QED
  BY <1>2 DEF Requeue, RequeueAfter, Fail, queue, world, reconciler!Requeue,
              reconciler!key, reconciler!queue, reconciler!world

LEMMA DoneIsDone ==
    ASSUME SystemInv, NEW w \in Workers, Done(w)
    PROVE  reconciler!Done(w)
<1>1. job[w].at = "done" /\ held[w] # NoKey
  BY DEF Done, done, SystemInv, IInv, Phases, InStep
<1> QED
  BY <1>1 DEF Done, done, timers, world, Armed, reconciler!Done, reconciler!At,
              reconciler!Q!Release, reconciler!world

(* resync and the timers that fire.                                         *)
LEMMA EnqueueIsEnqueue ==
    ASSUME SystemInv, NEW k \in Keys, Enqueue(k)
    PROVE  reconciler!Resync(k) \/ reconciler!Fire(k)
<1>1. CASE items[k] # Absent /\ Resync(k)
  BY <1>1, EnqueueIsAdd
     DEF Enqueue, Resync, timers, world, Armed, reconciler!Resync, reconciler!store!Has,
         reconciler!world
<1>2. CASE FireDelayed(k) \/ FireBackoff(k)
  <2>1. /\ delayed \in [Keys -> Nat] /\ backoff \in [Keys -> Nat]
    BY WorkQueueAssumption DEF WorkQueueAssumption, SystemInv, IInv, TypeOK
  <2>2. k \in Armed /\ Armed' \in {Armed, Armed \ {k}}
    BY <1>2, <2>1 DEF FireDelayed, FireBackoff, Armed
  <2>3. reconciler!enqueue(k)
    BY <1>2, EnqueueIsAdd DEF FireDelayed, FireBackoff
  <2> QED
    BY <2>2, <2>3 DEF Enqueue, world, reconciler!Fire, reconciler!world
<1> QED
  BY <1>1, <1>2 DEF Enqueue

LEMMA RestartIsRestart == Restart => reconciler!Restart
<1>1. Restart => Armed' = {}
  BY DEF Restart, Armed
<1> QED
  BY <1>1 DEF Restart, reconciler!Restart

LEMMA StepIsStep == SystemInv /\ [SystemNext]_system => [reconciler!Next]_reconciler!vars
<1> SUFFICES ASSUME SystemInv, [SystemNext]_system
             PROVE  reconciler!Next \/ UNCHANGED reconciler!vars
  OBVIOUS
<1>1. ASSUME NEW w \in Workers, Take(w) PROVE reconciler!Next
  BY <1>1, TakeIsTake DEF reconciler!Next
<1>2. ASSUME NEW w \in Workers, Idles(w) \/ Forget(w)
      PROVE  UNCHANGED reconciler!vars
  BY <1>2 DEF Idles, Forget, GetWait, GetExit, Succeed, queue, timers, world, Armed,
              reconciler!vars, reconciler!queue, reconciler!world
<1>3. ASSUME NEW w \in Workers, Call(w) PROVE reconciler!Next
  BY <1>3 DEF Call, reconciler!Next, reconciler!Step
<1>4. ASSUME NEW w \in Workers, Requeue(w) \/ Done(w) PROVE reconciler!Next
  BY <1>4, RequeueIsRequeue, DoneIsDone DEF reconciler!Next, reconciler!Step
<1>5. ASSUME NEW k \in Keys, Enqueue(k) PROVE reconciler!Next
  BY <1>5, EnqueueIsEnqueue DEF reconciler!Next
<1>6. ASSUME NEW k \in Keys, Outside(k) PROVE reconciler!Next
  BY <1>6 DEF Outside, reconciler!Next
<1>7. ASSUME Cancel PROVE reconciler!Next
  <2>1. reconciler!Cancel
    BY <1>7 DEF Cancel, shutDown, timers, threads, world, Armed, reconciler!Cancel,
                reconciler!Q!Close, reconciler!world
  <2> QED
    BY <2>1 DEF reconciler!Next
<1>8. ASSUME Restart PROVE reconciler!Next
  BY <1>8, RestartIsRestart DEF reconciler!Next
<1>9. ASSUME UNCHANGED system PROVE UNCHANGED reconciler!vars
  BY <1>9 DEF system, vars, queue, timers, threads, world, Armed, reconciler!vars,
              reconciler!queue, reconciler!world
<1> QED
  BY <1>1, <1>2, <1>3, <1>4, <1>5, <1>6, <1>7, <1>8, <1>9 DEF SystemNext

LEMMA FirstIsFirst == SystemInit => reconciler!Init
<1>1. SystemInit => Armed = {}
  BY DEF SystemInit, Init, Armed
<1> QED
  BY <1>1 DEF SystemInit, Init, reconciler!Init, reconciler!Q!Init, reconciler!store!Init,
              reconciler!substrate!Init

(* The reconciler over the queue as it is written, with its FIFO, condition *)
(* variable, two sorts of timer and limiter, does nothing that the          *)
(* reconciler over KeyQueue cannot do.                                      *)
THEOREM Composition == SystemSpec => ImplementsReconciler
  BY FirstIsFirst, StepIsStep, SystemInvariance, PTL
  DEF SystemSpec, ImplementsReconciler, reconciler!SafetySpec
-------------------------------------------------------------------------------
(* What is proved of the reconciler, carried over to this queue.  First,    *)
(* ReconcilerProofs speaks of the same reconciler.                          *)
proofs == INSTANCE ReconcilerProofs
    WITH Resources <- Keys, pending <- dirty, closed <- shuttingDown, timers <- Armed

LEMMA SameProvider ==
    /\ \A r : reconciler!substrate!Deletable(r) <=> proofs!substrate!Deletable(r)
    /\ \A r, want, needs :
          reconciler!substrate!Creatable(r, want, needs)
              <=> proofs!substrate!Creatable(r, want, needs)
    /\ \A r, want, needs, id :
          reconciler!substrate!Create(r, want, needs, id)
              <=> proofs!substrate!Create(r, want, needs, id)
    /\ \A r : reconciler!substrate!Attached(r) <=> proofs!substrate!Attached(r)
<1> USE DEF reconciler!substrate!Exists, proofs!substrate!Exists,
            reconciler!substrate!Ready, proofs!substrate!Ready,
            reconciler!substrate!Make, proofs!substrate!Make
<1>1. ASSUME NEW r
      PROVE  reconciler!substrate!Attached(r) <=> proofs!substrate!Attached(r)
  BY DEF reconciler!substrate!Attached, proofs!substrate!Attached,
         reconciler!substrate!ToSet, proofs!substrate!ToSet
<1>2. ASSUME NEW r
      PROVE  reconciler!substrate!Deletable(r) <=> proofs!substrate!Deletable(r)
  BY <1>1 DEF reconciler!substrate!Deletable, proofs!substrate!Deletable
<1>3. ASSUME NEW r, NEW want, NEW needs
      PROVE  reconciler!substrate!Creatable(r, want, needs)
                 <=> proofs!substrate!Creatable(r, want, needs)
  BY DEF reconciler!substrate!Creatable, proofs!substrate!Creatable
<1>4. ASSUME NEW r, NEW want, NEW needs, NEW id
      PROVE  reconciler!substrate!Create(r, want, needs, id)
                 <=> proofs!substrate!Create(r, want, needs, id)
  BY <1>3 DEF reconciler!substrate!Create, proofs!substrate!Create
<1> QED
  BY <1>1, <1>2, <1>3, <1>4


LEMMA SameIds == reconciler!NewIds = proofs!NewIds
<1>1. reconciler!Remembered = proofs!Remembered
  BY DEF reconciler!Remembered, proofs!Remembered, reconciler!ToSet, proofs!ToSet,
         reconciler!store!Has, proofs!store!Has, reconciler!substrate!Exists,
         proofs!substrate!Exists
<1> QED
  BY <1>1 DEF reconciler!NewIds, proofs!NewIds

LEMMA SameReconciler ==
    /\ reconciler!Init => proofs!Init
    /\ [reconciler!Next]_reconciler!vars => [proofs!Next]_proofs!vars
<1> USE SameProvider, SameIds
<1> USE DEF reconciler!queue, proofs!queue, reconciler!world, proofs!world,
            reconciler!NoStatus, proofs!NoStatus, reconciler!NoSnapshot,
            proofs!NoSnapshot, reconciler!Snapshot, proofs!Snapshot,
            reconciler!Idle, proofs!Idle, reconciler!key, proofs!key,
            reconciler!Want, proofs!Want, reconciler!Needs, proofs!Needs,
            reconciler!At, proofs!At, reconciler!Goto, proofs!Goto,
            reconciler!ReportNext, proofs!ReportNext, reconciler!FinishNext,
            proofs!FinishNext, reconciler!Fault, proofs!Fault, reconciler!Path,
            proofs!Path, reconciler!NextRef, proofs!NextRef, reconciler!AllResolved,
            proofs!AllResolved, reconciler!Lookup, proofs!Lookup,
            reconciler!Verdict, proofs!Verdict, reconciler!enqueue, proofs!enqueue,
            reconciler!Write, proofs!Write, reconciler!Q!InFlight,
            proofs!Q!InFlight, reconciler!Q!Add, proofs!Q!Add, reconciler!Q!Take,
            proofs!Q!Take, reconciler!Q!Release, proofs!Q!Release,
            reconciler!Q!Close, proofs!Q!Close, reconciler!store!Has,
            proofs!store!Has, reconciler!store!IsReady, proofs!store!IsReady,
            reconciler!store!Put, proofs!store!Put, reconciler!store!UpdateStatus,
            proofs!store!UpdateStatus, reconciler!store!MarkForDeletion,
            proofs!store!MarkForDeletion, reconciler!store!Delete,
            proofs!store!Delete, reconciler!substrate!Exists,
            proofs!substrate!Exists, reconciler!substrate!UpToDate,
            proofs!substrate!UpToDate, reconciler!substrate!Ready,
            proofs!substrate!Ready, reconciler!substrate!Make,
            proofs!substrate!Make, reconciler!substrate!CreateFaults,
            proofs!substrate!CreateFaults, reconciler!substrate!Delete,
            proofs!substrate!Delete, reconciler!substrate!DeleteFaults,
            proofs!substrate!DeleteFaults
<1>1. ASSUME NEW w, reconciler!Fetch(w) PROVE proofs!Fetch(w)
  BY <1>1 DEF reconciler!Fetch, proofs!Fetch
<1>2. ASSUME NEW w, reconciler!Resolve(w) PROVE proofs!Resolve(w)
  BY <1>2 DEF reconciler!Resolve, proofs!Resolve
<1>3. ASSUME NEW w, reconciler!NoProvider(w) PROVE proofs!NoProvider(w)
  BY <1>3 DEF reconciler!NoProvider, proofs!NoProvider
<1>4. ASSUME NEW w, reconciler!Observe(w) PROVE proofs!Observe(w)
  BY <1>4 DEF reconciler!Observe, proofs!Observe
<1>5. ASSUME NEW w, reconciler!Create(w) PROVE proofs!Create(w)
  BY <1>5 DEF reconciler!Create, proofs!Create
<1>6. ASSUME NEW w, reconciler!Teardown(w) PROVE proofs!Teardown(w)
  BY <1>6 DEF reconciler!Teardown, proofs!Teardown
<1>7. ASSUME NEW w, reconciler!Reobserve(w) PROVE proofs!Reobserve(w)
  BY <1>7 DEF reconciler!Reobserve, proofs!Reobserve
<1>8. ASSUME NEW w, reconciler!Report(w) PROVE proofs!Report(w)
  BY <1>8 DEF reconciler!Report, proofs!Report
<1>9. ASSUME NEW w, reconciler!DelObserve(w) PROVE proofs!DelObserve(w)
  BY <1>9 DEF reconciler!DelObserve, proofs!DelObserve
<1>10. ASSUME NEW w, reconciler!DelDelete(w) PROVE proofs!DelDelete(w)
  BY <1>10 DEF reconciler!DelDelete, proofs!DelDelete
<1>11. ASSUME NEW w, reconciler!RemoveFromStore(w) PROVE proofs!RemoveFromStore(w)
  BY <1>11 DEF reconciler!RemoveFromStore, proofs!RemoveFromStore
<1>12. ASSUME NEW w, reconciler!Requeue(w) PROVE proofs!Requeue(w)
  BY <1>12 DEF reconciler!Requeue, proofs!Requeue
<1>13. ASSUME NEW w, reconciler!Done(w) PROVE proofs!Done(w)
  BY <1>13 DEF reconciler!Done, proofs!Done
<1>14. ASSUME NEW w, reconciler!Step(w) PROVE proofs!Step(w)
  BY <1>1, <1>2, <1>3, <1>4, <1>5, <1>6, <1>7, <1>8, <1>9, <1>10, <1>11, <1>12, <1>13, <1>14 DEF reconciler!Step, proofs!Step
<1>15. ASSUME NEW w, NEW k, reconciler!Take(w, k) PROVE proofs!Take(w, k)
  BY <1>15 DEF reconciler!Take, proofs!Take
<1>16. ASSUME NEW k, reconciler!Resync(k) PROVE proofs!Resync(k)
  BY <1>16 DEF reconciler!Resync, proofs!Resync
<1>17. ASSUME NEW k, reconciler!Fire(k) PROVE proofs!Fire(k)
  BY <1>17 DEF reconciler!Fire, proofs!Fire
<1>18. ASSUME NEW k, reconciler!ClientDelete(k) PROVE proofs!ClientDelete(k)
  BY <1>18 DEF reconciler!ClientDelete, proofs!ClientDelete
<1>19. ASSUME NEW k, reconciler!Drift(k) PROVE proofs!Drift(k)
  BY <1>19 DEF reconciler!Drift, proofs!Drift, reconciler!substrate!Drift, proofs!substrate!Drift
<1>20. ASSUME NEW k, NEW m, reconciler!ClientPut(k, m) PROVE proofs!ClientPut(k, m)
  BY <1>20 DEF reconciler!ClientPut, proofs!ClientPut
<1>21. ASSUME reconciler!Cancel PROVE proofs!Cancel
  BY <1>21 DEF reconciler!Cancel, proofs!Cancel
<1>22. ASSUME reconciler!Restart PROVE proofs!Restart
  BY <1>22 DEF reconciler!Restart, proofs!Restart
<1>23. reconciler!Init => proofs!Init
  BY DEF reconciler!Init, proofs!Init, reconciler!Q!Init, proofs!Q!Init,
         reconciler!store!Init, proofs!store!Init, reconciler!substrate!Init, proofs!substrate!Init
<1>24. reconciler!Next => proofs!Next
  BY <1>14, <1>15, <1>16, <1>17, <1>18, <1>19, <1>20, <1>21, <1>22
     DEF reconciler!Next, proofs!Next
<1>25. UNCHANGED reconciler!vars => UNCHANGED proofs!vars
  BY DEF reconciler!vars, proofs!vars
<1> QED
  BY <1>23, <1>24, <1>25

LEMMA SameAssumption == reconciler!ReconcilerAssumption => proofs!ReconcilerAssumption
  BY DEF reconciler!ReconcilerAssumption, proofs!ReconcilerAssumption,
         reconciler!store!Items, proofs!store!Items, reconciler!store!Manifests,
         proofs!store!Manifests, reconciler!store!Statuses, proofs!store!Statuses,
         reconciler!store!Phases, proofs!store!Phases, reconciler!store!References,
         proofs!store!References, reconciler!substrate!Objects,
         proofs!substrate!Objects, reconciler!substrate!Wanted,
         proofs!substrate!Wanted

LEMMA SameSpec ==
    ASSUME reconciler!ReconcilerAssumption
    PROVE  proofs!ReconcilerAssumption /\ (SystemSpec => proofs!SafetySpec)
<1>1. SystemSpec => proofs!SafetySpec
  BY Composition, SameReconciler, PTL
  DEF ImplementsReconciler, reconciler!SafetySpec, proofs!SafetySpec
<1> QED
  BY <1>1, SameAssumption

(* On the queue as it is written, too, a worker's copy and the Store speak  *)
(* of the same incarnation (a part of IInv), a resource goes only when a    *)
(* client asked and leaves no object behind, and nothing but a restart      *)
(* makes an orphan.                                                         *)
THEOREM CorrectOnTheQueue ==
    ASSUME reconciler!ReconcilerAssumption
    PROVE  SystemSpec => /\ []proofs!IInv
                         /\ proofs!RemovalIsAsked
                         /\ proofs!OnlyRestartOrphans
<1>1. proofs!SafetySpec => []proofs!IInv
  BY SameSpec, proofs!Invariance
<1>2. proofs!SafetySpec => proofs!RemovalIsAsked
  BY SameSpec, proofs!OnlyAskedRemovals
<1>3. proofs!SafetySpec => proofs!OnlyRestartOrphans
  BY SameSpec, proofs!OrphansByRestart
<1> QED
  BY <1>1, <1>2, <1>3, SameSpec, PTL

(* And without crashes there are no orphans; as long as the Store takes     *)
(* every status, a Ready status names the object that is there.             *)
THEOREM TrueOnTheQueue ==
    ASSUME reconciler!ReconcilerAssumption
    PROVE  /\ "crash" \notin FaultKinds => (SystemSpec => []proofs!NoOrphans)
           /\ "store" \notin FaultKinds => (SystemSpec => []proofs!StatusNamesTheObject)
<1>1. ASSUME "crash" \notin FaultKinds PROVE SystemSpec => []proofs!NoOrphans
  <2>1. proofs!SafetySpec => []proofs!NoOrphans
    BY <1>1, SameSpec, proofs!NothingOrphaned
  <2> QED
    BY <2>1, SameSpec, PTL
<1>2. ASSUME "store" \notin FaultKinds
      PROVE  SystemSpec => []proofs!StatusNamesTheObject
  <2>1. proofs!SafetySpec => []proofs!StatusNamesTheObject
    BY <1>2, SameSpec, proofs!StatusNamesIt
  <2> QED
    BY <2>1, SameSpec, PTL
<1> QED
  BY <1>1, <1>2
===============================================================================

--------------------------------- MODULE System --------------------------------
(***************************************************************************)
(* The reconciler on the queue as it is written: the calls that module     *)
(* Reconciler makes to the Store and to the providers, and module          *)
(* WorkQueue, with its FIFO, condition variable, limiter and timers, in    *)
(* the place of KeyQueue.  It implements Reconciler.                       *)
(*                                                                         *)
(* A step is a step of one of the two, or of both where one calls the      *)
(* other: reconcile and process decide by their outcome (job[w].out) what  *)
(* WorkQueue leaves open.  What the queue does is never constrained by     *)
(* what KeyQueue promises of it.                                           *)
(***************************************************************************)
EXTENDS WorkQueue

CONSTANTS
    Networks, Managed, Fields, IdField, Bases, BadBases, Ids, NoId, Absent,
    NoObj, Offers, FaultKinds, MaxFaults, MaxWrites, MayCancel   \* of Reconciler

VARIABLES items, objs, job, faults, writes   \* of Reconciler

\* The keys with a re-add under way.
Armed == {k \in Keys : delayed[k] > 0 \/ backoff[k] > 0}

reconciler == INSTANCE Reconciler
    WITH Resources <- Keys, pending <- dirty, closed <- shuttingDown, timers <- Armed

world  == <<items, objs, faults, writes>>
system == <<vars, world, job>>

SystemInit ==
    /\ Init
    /\ items = [k \in Keys |-> Absent]
    /\ objs = [k \in Keys |-> NoObj]
    /\ job = [w \in Workers |-> reconciler!Idle]
    /\ faults = 0 /\ writes = 0
-------------------------------------------------------------------------------
\* worker: get, and process starts on what it returns.
Take(w) == GetKey(w) /\ reconciler!Goto(w, "fetch") /\ UNCHANGED world
Idles(w) == (GetWait(w) \/ GetExit(w)) /\ UNCHANGED <<world, job>>

\* process up to its last call to the Store or a provider.
Call(w) ==
    /\ UNCHANGED vars
    /\ \/ reconciler!Fetch(w) \/ reconciler!Resolve(w) \/ reconciler!NoProvider(w)
       \/ reconciler!Observe(w) \/ reconciler!Create(w) \/ reconciler!Teardown(w)
       \/ reconciler!Reobserve(w) \/ reconciler!Report(w) \/ reconciler!DelObserve(w)
       \/ reconciler!DelDelete(w) \/ reconciler!RemoveFromStore(w)

\* How it ends: enqueueAfter and forget, enqueueRateLimited, or forget; then done.
Requeue(w) ==
    /\ reconciler!At(w, "requeue")
    /\ IF job[w].out = "requeue" THEN RequeueAfter(w) ELSE Fail(w)
    /\ reconciler!FinishNext(w, "ok")
    /\ UNCHANGED world

Forget(w) == reconciler!At(w, "done") /\ Succeed(w) /\ UNCHANGED <<world, job>>

Done(w) ==
    /\ done(w)
    /\ job' = [job EXCEPT ![w] = reconciler!Idle]
    /\ UNCHANGED world

\* resync, for one key of its List, and the timers.
Enqueue(k) ==
    /\ (items[k] # Absent /\ Resync(k)) \/ FireDelayed(k) \/ FireBackoff(k)
    /\ UNCHANGED <<world, job>>

\* Clients and the outside world.
Outside(k) ==
    /\ UNCHANGED vars
    /\ \/ reconciler!ClientDelete(k) \/ reconciler!Drift(k)
       \/ \E m \in Offers[k] : reconciler!ClientPut(k, m)

Cancel == MayCancel /\ shutDown /\ UNCHANGED <<world, job>>

\* The process ends, in whatever way, and another one starts over its objects.
Restart ==
    /\ reconciler!Fault("crash")
    /\ ready' = <<>> /\ dirty' = {} /\ processing' = {} /\ shuttingDown' = FALSE
    /\ fails' = [k \in Keys |-> 0]
    /\ delayed' = [k \in Keys |-> 0] /\ backoff' = [k \in Keys |-> 0]
    /\ pc' = [w \in Workers |-> "get"] /\ held' = [w \in Workers |-> NoKey]
    /\ items' = [k \in Keys |-> Absent]
    /\ job' = [w \in Workers |-> reconciler!Idle]
    /\ UNCHANGED objs

SystemNext ==
    \/ \E w \in Workers :
          Take(w) \/ Idles(w) \/ Call(w) \/ Requeue(w) \/ Forget(w) \/ Done(w)
    \/ \E k \in Keys : Enqueue(k) \/ Outside(k)
    \/ Cancel \/ Restart

SystemSpec == SystemInit /\ [][SystemNext]_system
-------------------------------------------------------------------------------
\* Where a worker is in the queue agrees with where it is in process: it runs
\* between get and done, and past the last requeue or forget it only has to
\* call done.
HasJobs == DOMAIN job = Workers /\ \A w \in Workers : "at" \in DOMAIN job[w]

InStep ==
    \A w \in Workers :
        /\ pc[w] \in {"get", "wait", "exited"} <=> job[w].at = "idle"
        /\ pc[w] \in {"parked", "finishing"} => job[w].at = "done"

\* The inductive invariant of SystemProofs.
SystemInv == IInv /\ HasJobs /\ InStep

\* What the reconciler does on this queue is what it does on KeyQueue.
ImplementsReconciler == reconciler!SafetySpec
===============================================================================

# A TLA+ development of setpoint

setpoint is a small control plane in Go: clients PUT desired state (a Spec), a
pool of workers observes Docker through providers and converges it, and reports
what it saw as Status. This directory holds a model of the part that decides,
TLC runs over small instances of it, and TLAPS proofs for any instance.

## Inventory

| part | state | operations | talks to |
|---|---|---|---|
| work queue (`core/reconcile/queue.go`) | `ready` (FIFO), `dirty`, `processing`, `shuttingDown`, timers of `time.AfterFunc` | `enqueue`, `enqueueAfter`, `enqueueRateLimited`, `forget`, `get`, `done`, `shutDown` | workers (a condition variable), timers, the resync |
| rate limiter (same file) | a failure count per key | `when`, `forget` | the queue |
| reconciler (`core/reconcile/reconciler.go`) | none but the queue and the local variables of each `process` | `Run`, `resyncLoop`, `worker`, `process`, `reconcile`, `resolveReferences`, `converge`, `reconcileDeletion`, `setStatus`, `removeFromStore`, `Nudge` | queue, Store, providers |
| store (`core/store`, `core/api`) | a map from kind/name to resource, under a lock | `Put`, `Get`, `List`, `UpdateStatus`, `MarkForDeletion`, `Delete` | server, reconciler |
| providers (`core/provider`, `providers/docker`) | none; the Substrate is Docker's containers and networks that carry the ownership labels | `Observe`, `Create`, `Update`, `Delete` | Docker |
| REST server (`core/server`) | none | PUT, DELETE, GET, list | Store, `Nudge` |
| setpointd (`cmd/setpointd`) | the process | start, signal, shutdown | everything |
| cpctl, demo script | none | REST calls | server |

What is hard. Two workers, the resync, timers, HTTP handlers and Docker all act
between any two calls of a reconcile. A worker reads the resource once and uses
the copy afterwards; statuses are written, and resources removed, by key. The
queue promises that a key is in one worker at a time and that nothing asked for
is forgotten, with one `Signal` per key and a shutdown that must drain. Docker
calls fail, half succeed or succeed without an answer, objects drift at any
time, and so does the process die: its Store and queue are memory, the objects
stay. A write reaches a worker through a channel of capacity one and a listing
that may be older than the write, and `main` ends the process under everybody.
Deletion and reference resolution are spread over several reconciles of
several resources. `PROJECT.json` lists these hazards by line.

What makes each part correct:

- queue: one worker per key, no lost key, wake-up or failure, workers leave
  after shutdown and nothing accepted is abandoned;
- limiter: delays double per failure, saturate, and never wrap;
- reconciler, store, providers together: no object outlives its resource, a
  resource goes only when asked, statuses tell the truth about the object that
  dependents are given, and everything stored comes to rest as its Spec says;
- providers: their Docker calls, whatever fails or happens in between, add up to
  methods with one effect and an honest result, on nobody else's objects;
- server, resync and setpointd: every accepted write is seen without the
  ticker, and the process ends promptly when told.

## Modules

| module | what it is |
|---|---|
| `KeyQueue` | what the queue promises: a set of keys that owe a reconcile, one worker per key, every debt paid |
| `RateLimiter` | the per-key exponential backoff |
| `WorkQueue` | the queue as written, with its FIFO, condition variable, timers and workers; implements `KeyQueue` |
| `Store`, `Provider` | the map of resources; the Substrate and the provider calls |
| `Reconciler` | `process` and all it calls, over `KeyQueue`, `Store` and `Provider`, with resync, timers, clients, faults, drift and restarts |
| `System` | `Reconciler` over `WorkQueue` instead of `KeyQueue`; implements `Reconciler` |
| `Daemon` | `setpointd`: handlers, the nudge channel, the resync loop and its listing, workers, signal, shutdown and the end of the process, over `KeyQueue` |
| `Docker` | the Docker calls inside the providers' methods; implements the contract of `Provider` |
| `RateLimiterProofs`, `WorkQueueProofs`, `ReconcilerProofs`, `SystemProofs`, `DockerProofs`, `DaemonProofs` | the theorems about each and their proofs |
| `MCWorkQueue`, `MCReconciler`, `MCSystem`, `MCDaemon`, `MCDocker` | instances for TLC |

`WorkQueue` instantiates `RateLimiter`, and `Reconciler` and `Daemon` compose the others by INSTANCE. They use `KeyQueue` rather than
`WorkQueue`: the refinement `WorkQueue => KeyQueue` is model-checked with
fairness and its safety half is proved, so the queue's inner steps need not be
interleaved with theirs. That this is enough is not left to the argument:
`System` does interleave them, and is proved to implement `Reconciler`. In the same way `Reconciler` has each provider method as one
step of `Provider`, and `Docker` shows that the calls it is made of come to that.
`Reconciler` and `Daemon` look at the same code from two sides: `Reconciler` has
everything a worker does, and a resync that may enqueue any stored key at any
time; `Daemon` has the resync as it is, with what precedes it, and of a worker
only what it reads, removes and releases.

A few definitions have a comment that starts with "A slip". They are not used
by any specification. Each is the definition after it with a mistake that the
code could plausibly have, for instance `done` that does not look at `dirty`;
`PROJECT.json` pairs it with the property that notices.

### From the code to the model

*Queue.* `ready`, `dirty`, `processing` and `shuttingDown` are variables of the
same names, and an action is one critical section of `q.mu`. `pc[w]` says where
a worker is: at the lock of `get`, in `cond.Wait`, in `process`, before the
deferred `done`, or gone. `Signal` moves any one waiter to the lock, where
another worker may overtake it; `Broadcast` moves all. Timers are counted per
key and fire at any later time. What a reconcile does is reduced to the ways it
ends: forget, requeue and forget, or a counted failure.

*Limiter.* `Shifted[n]` is Go's signed shift, one bit after the other, each with
the wrap-around past `MaxInt`; `Doubled[n]` is the doubling without it, which
the comments mean. Durations are units of the instance.

*Reconciler.* One action is one call of a worker to the queue, the Store or a
provider: `Fetch`, `Resolve` (one per reference), `Observe`, `Create`,
`Teardown` (the Delete inside Update), `Reobserve`, `Report` (`setStatus`),
`DelObserve`, `DelDelete`, `RemoveFromStore`, `Requeue`, `Done`. What the worker does
between two calls is local to it and is part of the first of them; `job[w]` holds its local
variables. `Requeue` is `enqueueAfter` or `enqueueRateLimited`; `forget` is a step of
the limiter, which is not here. The timers of a key are one member
of `timers`: when one fires the key may stay there, because it may have another.

*Reconciler and queue, in `System`.* The state is that of `WorkQueue` and, of
`Reconciler`, the Store, the Substrate and the workers' local variables. Where
one calls the other both move: `Take` is `get` returning a key, `Requeue` starts
the timer that `job[w].out` calls for, `Forget` resets the limiter and `Done` is the
deferred `done`. `Call` is any call to the Store or a provider, `Idles` is `get` going
to sleep or seeing the shutdown, `Enqueue` the resync or a timer. `Reconciler`'s
`pending` is `dirty`, its `closed` is `shuttingDown`, and its `timers` are the keys with a
timer of either sort (`Armed`). `Restart` begins the queue anew with the process.

*Data.* A Spec is a model value (`base`) and the list of the references in it;
what a provider is given is the base with the values substituted, and the
spec-hash is that record itself, so it is taken to be injective. An object's
details are its identity (`containerId`, `networkId`): the providers also report
image and state, or driver, which are abstracted away, so no reference to them is
modelled, and a field other than `IdField` stands for one that the target's
provider does not set. Identities are numbers. A new object
gets the least one that nothing remembers (`NewIds`), so that
a long run does not need infinitely many; the model never confuses an old
identity with a new one, as Docker does not. `Status.Ready` is phase
"Ready", because `converge` sets them together and `UpdateStatus` replaces the whole
Status. `createdAt` is the number of the write, which tells incarnations apart.

*Docker.* A container is `up` or not; a network is up while it exists. Removing
a network that a running container joins is refused. A container whose network
is gone is created and not started. Faults, each bounded by `MaxFaults`:
`call` (the call fails and does nothing), `reply` (it is carried out and its
answer is lost), `start` (a container is created and not started), `store` (a
Store call fails; `Memory` never does, the Store interface may), `vanish` and
`stop` (drift), `unplug` (the containers of a network are disconnected and the
network is removed, as the demo script does), `crash` (`Restart`: the process
dies or is stopped, and a new one starts with an empty Store and queue over the
objects that are there). After cancellation provider calls may fail any number of times
whose kinds the instance has, since their context is cancelled.
`Reconciler.Cancel` is the cancellation of the context and the queue's `shutDown` in one
step; the bridge between them is a goroutine of its own in `Daemon` only. Calls that
fail between the two are among the bounded faults here, and the theorems hold
for any bound.

*Server, in `Reconciler`.* A PUT or DELETE is the Store call of its handler. The
nudge is not a step: it only makes the resync run sooner, and the resync may run
at any time there.

*Server and resync, in `Daemon`.* `req[h]` is a handler's goroutine: it reads the
request (which may never come), refuses it or makes its one Store call, and
then nudges. `nudge` is the channel of capacity one; a send into the full channel
changes nothing. The loop's position is `loop`: about to list, working through
`todo` (the copy that `List` returned), in the select, or returned. When the
select has several cases ready, any of them may be chosen, as in Go. A worker
reads its resource at `Fetch` and may remove it later if it read the mark, by key
and whatever is there by then. `unread` is a history variable. `Memory.List`
cannot fail, so `List` does not. The timers' re-adds are left out: they only add
keys, which a tick may do at any time.

*setpointd, in `Daemon`.* A signal cancels the context, upon which three
goroutines go on independently: the bridge that shuts the queue down (`Bridge`),
the call of `Shutdown` (`Shutdown`), and the loop's select (`LoopReturns`).
`ListenAndServe` returns once `Shutdown` has been called, not when it is done,
and `main` returns with it (`ServeReturns`); it may also fail while it serves
(`ServeFails`). Either ends every goroutine and the memory.

*Docker calls, in `Docker`.* `names[r]` is what the daemon has under
`setpoint-<name>`: nothing, an object with the ownership labels, or an object of
somebody else. A resource has one method under way at most (`call[r]`, by
`OneWorkerPerKey`), and two resources' methods interleave call by call. `Converge` is
Observe followed by nothing, Create or Update; `BeginDelete` is the Delete of
`reconcileDeletion`. `ContainerRemove` of what is gone is an error and
`NetworkRemove` of it is not, as in the code. `Crash` may come after any call.
The refinement hides foreign objects and a container between its create and its
start. `ImplementsProvider` says when a method's effect shows and with which
results: a method that ends does what one of `Provider`'s forms of it does, at that
moment, and between methods only drift changes an object.

## Runs

Deadlock checking is off except in `docker`: a queue that has shut down stops, and
so do a process that has exited and a system whose clients have nothing more to
write and whose Store is empty.

| run | instance | shows |
|---|---|---|
| `work_queue` | 2 workers, 2 keys, 1 timer of each sort and 2 failures per key, 16-bit durations | the queue's invariants and the inductive invariant; `KeyQueue` implemented with fairness; every worker leaves after shutdown; the delay is the saturating doubling also where the shift wraps (up to 25 failures), per key |
| `work_queue_timers` | `System`: a container that may have a Spec that cannot be created or a reference that never resolves, 2 workers, 2 timers of each sort, 2 writes, 1 of `call`, `store`, `vanish`, `crash` | **violation**: a key that fails or waits collects timers |
| `reconciler_safety` | a network, a container on it, 2 workers, 3 writes, 1 of `reply`, `start`, `vanish`, `stop`, `unplug`, cancellation | no orphans, asked removal, snapshots of the current incarnation, truthful statuses, and what their proofs rest on (`IInv`, `NameKnown`) |
| `reconciler_settles` | the pair with two container Specs, 1 worker, 3 writes, 1 of `call`, `reply`, `store`, `vanish`, `unplug`, `crash` | everything comes to rest; deletions complete; only a restart leaves an orphan |
| `reconciler_corners` | a container and a kind without provider, 2 workers, 2 writes, 1 of `store`, `crash` | the same where creation or resolution cannot succeed |
| `reconciler_ring_closed` | 2 containers, 3 writes | **violation**: a cycle closed by an update never stalls |
| `reconciler_killed` | 1 container, 1 of `start`, `stop` | **violation**: a stopped container stays stopped |
| `reconciler_net_update` | a network with two Specs and its container | **violation**: a network in use cannot be updated, and both are stuck |
| `reconciler_write_lost` | 1 container, 3 writes | **violation**: a PUT between read and removal is dropped |
| `daemon` | 2 handlers, 1 worker, 2 keys, 3 requests (PUT and DELETE of one, PUT of the other), signal, failure to serve | no accepted write is overlooked, each is reconciled without the ticker, and the process exits |
| `daemon_exit` | the same with 1 request | **violation**: `main` returns while a worker is in a reconcile |
| `docker` | a network with two drivers, a container that joins any network there has been or has a bad image, 5 identities, 2 failed calls or lost answers, any number of crashes, drift and foreign objects | the Docker calls implement `Provider`; foreign objects are untouched; the inductive invariant |

Why the bounds suffice. A timer of each sort makes a key with two timers, and
two failures a second retry while the first one's consequences last. The queue's hazards need a key in a worker, a second
worker to steal or to sleep, and a second key to be overtaken. Three
writes make PUT-DELETE-PUT of one key, both creations in either order and one
update or deletion, and two creations and a deletion. One fault at any call is
enough to reach every error path; eight identities are more than the pair, the
two workers' copies and two statuses can remember. (If identities ran out, no
Create could happen. They do not: when a worker creates, its object is gone and
it has no status on its way, so what remembers an identity is at most the value
resolved for the container, the status the other worker is about to store, the two stored
statuses, the other resource's object and the value that object was given: six.
That `NewIds` is never empty is not a property of a run.)
`reconciler_safety` has no `call` fault, with which it is near the time it
may take; after cancellation it has lost answers and failed starts only, while the theorems
allow every fault. Liveness runs use no symmetry. `reconciler_settles` has one worker
because the second multiplies its states beyond a useful size; two workers are in
the safety run and in `reconciler_corners`. A restart needs one write before it
and one after, which is what two and three writes give.

A dropped nudge needs a pending one and a second handler; a stale listing needs a
write between `List` and the last enqueue; both need two handlers and at
most two more requests than the one that started the listing, and a key that
comes, goes and comes again needs three. A second worker changes nothing
there, since a key is in one worker at a time. In `docker` a network and a container are the two
sorts of objects and the only dependency; a resource has one method under way,
so two resources give every pair of calls that concern the same object; and
five identities let the container refer to networks that are gone.

`EventuallySettled` demands, for good: an unmarked resource whose references
resolve has an up-to-date running object and a Ready Status naming it, or an
Error if its Spec cannot be created or its kind has no provider; one whose
references do not resolve is Pending; a marked one is gone, unless it is a
network that running containers hold. `stop` and `start` faults are kept out of
these two runs because of the finding of `reconciler_killed`, and updates of
a network and cycles because of the findings of `reconciler_net_update` and
`reconciler_ring_closed`.

### Fairness

- Queue: weak fairness of each `worker(w)`. A goroutine that is not blocked is
  scheduled, `q.mu` is held for a few statements, a reconcile returns. A worker
  in `cond.Wait` is not enabled, so nothing assumes that it wakes by itself.
- Reconciler: weak fairness of each worker's next call; of the resync of each
  key (the ticker of `resyncLoop`); of each started timer; strong fairness of
  "some worker takes k", which `work_queue` establishes for the queue as written. No
  fairness for clients, faults, drift, restarts or cancellation.
- Daemon: weak fairness of a handler's nudge, which is non-blocking code, of the
  resync loop's own steps, of a worker's, of the goroutine that calls
  `Shutdown` and of `main` after that; strong fairness of "some worker takes k" as
  above. None for the ticker, so `WriteIsReconciled` shows that the nudge is
  enough; none for clients, who may leave a request unfinished, and none for
  signals.
- Docker: safety only.

## Findings

Each is a run that TLC refutes; `PROJECT.json` quotes what the repository says.

1. `reconciler_killed`: `converge` has no case for an object that exists, is up
   to date and does not run, so `docker kill`, or a start that failed, is never
   repaired, although the README demonstrates it.
2. `reconciler_net_update`: changing the Spec of a network with a container
   attached leaves both stuck.
3. `reconciler_ring_closed`: closing a cycle by updating a Ready resource makes
   the two replace each other for ever, although ADR-0012 says cycles stall.
4. `work_queue_timers`: a timer per call, which nothing stops or merges: the
   resync and nudges run a key whose timer is pending, and when that attempt
   fails or waits too, the key has two timers. The run ends there. That each of
   them starts a successor if its attempt fails or waits, so that a key that keeps
   failing is tried more often than its backoff says, is read from the code.
5. `reconciler_write_lost`: a PUT on a resource that is being removed gets the
   "durable" 202 and is dropped.
6. `daemon_exit`: `main` does not wait for `Run`, so the worker pool is not
   drained at SIGTERM.

## Proofs

Every safety invariant and every action property of the passing runs is a
theorem; what they assume is said here.

| module | theorems | hypotheses |
|---|---|---|
| `RateLimiterProofs` | `DelayBounds`; `DelaysAsMeant` | `Parameters`; the second `CapFits` |
| `WorkQueueProofs` | `Invariance`, `TypeCorrect`, `ReadyAgrees`, `Exclusion`, `WakeupsSuffice`, `RetryAhead`, `ExitMeansDrained`, `Implementation`; `DelaysAsMeant`, `BackoffPerItem` | `WorkQueueAssumption`; the last two `CapFits` |
| `ReconcilerProofs` | `Invariance`, `TypeCorrect`, `CopiesAreCurrent`, `OrphansByRestart`, `OnlyAskedRemovals`; `NothingOrphaned`; `NamesKnown`, `StatusNamesIt` | `ReconcilerAssumption`; `NothingOrphaned` no `crash`; the last two no `store` fault |
| `SystemProofs` | `SystemInvariance`, `Composition`; `CorrectOnTheQueue`; `TrueOnTheQueue` | `WorkQueueAssumption`; the last two also `ReconcilerAssumption`; `TrueOnTheQueue` no `crash`, or no `store` fault, as above |
| `DockerProofs` | `Invariance`, `TypeCorrect`, `ForeignLeftAlone`, `ProviderPromise` | `DockerAssumption` |
| `DaemonProofs` | `TypeCorrect`, `NoWriteOverlooked` | `DaemonAssumption` |

The four named assumptions say how the constants are typed and that what stands
for "none" is not one of the things it stands in for; the queue's also that its
pool is finite and not empty. TLC evaluates them in every run.

*Limiter.* `DelayBounds`: for any number of failures and any constants that
satisfy `Parameters`, the delay is in `1..MaxDelay`, whatever the shift came to.
`WorkQueue` relies on it to leave out `enqueueAfter`'s branch for a delay that is
not positive. `DelaysAsMeant`: the delay is the doubling, capped. Its hypothesis
`CapFits` says that the doubling reaches the maximum at the cap on the exponent
and still fits a Duration there. That is so in the code: 5ms doubled 20 times is
some 5243s, above the maximum of 1000s and far below `2^63` ns. The 16-bit
instance of `work_queue` does not satisfy `CapFits`: it is chosen so that
the shift wraps below the cap, which no value in the code makes it do, and TLC
finds the guard on `backoff` to catch it there too. Doubling and shift are recursive
functions. That they have the values their equations say (`DoubledValues`,
`ShiftedValues`) is proved from scratch in `Induction` and `Recursion`, which
speak of sets and functions where the library's theorems take operators.
`WorkQueueProofs` carries both results to the queue: `BackoffPerItem` adds that
each step of the queue is one `When`, one `Forget`, or neither.

*Queue.* None of the invariants is inductive alone, hence `IInv`. That a key
stays off a second worker needs `ready` to be exactly the dirty idle keys,
which `done` keeps only if its worker really has the key. `FailureIsRetried`
needs to know (`Phases`) that a worker past its failure still has a timer or a
dirty mark when `done` takes the key out of `processing`. `DrainedAtExit` needs
that no key is ready once all workers have left, which holds because a worker
that does `done` is awake afterwards. `NoLostWakeup` is an inequality of
cardinalities: an append adds one to the left, and `Signal` either adds an
awake worker to the right or finds nobody asleep; `get` takes one from both.
`Implementation` is `SafetySpec => Abstract!SafetySpec`, step by step.

*Reconciler.* `IInv` is the types, that no two workers share a key
(`Exclusive`), that a worker between Fetch and its last call has a copy and no
other worker has (`HasSnapshot`), that the copy and the Store agree on the
incarnation and the mark (`SnapshotCurrent`), that only owned kinds have objects
and reach providers (`OnlyManaged`), and that the removal path has a marked
copy and ends with the object gone (`RemovesClean`). They need each other:
`SnapshotCurrent` survives another worker's `RemoveFromStore` only because that
worker has another key; `RemovesClean` survives the other worker's
`Create` for the same reason; and the removal itself is of a marked resource
because the copy's mark is still the Store's. The proof splits `IInv` by worker
(`ByWorker`): a step of `w` has to re-establish its own part (`WorkerOK(w)`),
and leaves the others' alone because it writes only under its key
(`WorkerStep`); a client's or the outside world's step keeps what is under
every key steady (`Steady`): it removes no resource and makes no object.

`OrphansByRestart` and `OnlyAskedRemovals` then concern two calls, Create and
RemoveFromStore (`OnlyCreateMakes`, `OnlyRemoveDrops`). Both except `Restart`, which
forgets every resource and leaves its object, as the repository's README says of
the in-memory Store. `NothingOrphaned` follows where there is no `crash` among the
faults; the other faults are unrestricted.

`StatusNamesIt` follows from `NameKnown` (`NamesKnown`), which says when a Ready status may name a
former object (between a Create and its report) and that a Ready about to be
reported is true. It is inductive with `IInv`: a Create changes the identity only
under a worker that has yet to observe and report it, and no other worker has the
key meanwhile. It assumes no `store` fault, since
`setStatus` only logs a status that the Store did not take and the old one
stays; `Memory` never fails so. Crashes are allowed there.

*System.* `SystemInvariance` proves `SystemInv`: the queue's `IInv`, and that a worker's place in the
queue agrees with its place in `process` (`InStep`), without which `Done` could be
taken by a worker that is still in a call. The first half is `StepPreserves` of
`WorkQueueProofs` again, because to the queue every step is one of its own or a
restart (`QueueStep`). `Composition` then maps the steps one by one. `get` returning
a key is `Take` because a ready key is dirty and in no other worker
(`ReadyIsDirtyIdle`, `OneWorkerPerKey`); `done` is a release whether or not it makes
the key ready again; an `enqueue` that finds the key dirty still adds what
is there already; `Idles` and `Forget` are stutters. Nothing is assumed of the
Store, the providers or the clients, since `Reconciler`'s calls are taken as they
are. With it the theorems of `ReconcilerProofs` hold on the queue as it is
written: `CorrectOnTheQueue` and `TrueOnTheQueue` restate them for `System`. They
cite `ReconcilerProofs` through an instance, and the lemmas that begin with "Same"
only say that the two instances of `Reconciler` have the same steps.

*Docker.* `IInv` says that while a method is between two calls nobody else makes
an object of ours under its name, so that what it finds is what it listed or
made (`LooksUpItsOwn`), that a container waits for its start as it was made
(`StartsItsOwn`), and that a method that may still Create has its Spec
(`HasWant`). `ForeignLeftAlone` follows from the calls' guards with it: by the time of a
remove or a start the name may be a stranger's, and the identity tells.
`ProviderPromise` is the refinement of `Provider`. There is one lemma per call:
a call that is not the method's last and shows no effect is a stutter (`observe`,
`list`, the create of a container, which `Visible` hides until it is started); the one
that shows it is the step of `Provider` with the result the method will return.
A lost answer is the same effect with the error, a crash is a fault
of the method under way, and a network that is gone when it is to be removed is a
Delete of what is absent. The invariant is needed where a call acts on an object
that was looked up before: without `LooksUpItsOwn`, the remove could find the
listed network gone and return nil with another one of ours there.

*Daemon.* `DaemonProofs` proves for any keys, handlers, workers and requests
(`DaemonAssumption`) that `TypeOK` (`TypeCorrect`) and `NothingOverlooked`
(`NoWriteOverlooked`) hold in every state of the daemon. `NothingOverlooked` is
inductive with the types and one more fact, `UnreadStored`: a write that no
reconcile has read is of a stored resource. Without that, `List` could take a
listing that misses the write and turn the last nudge into nothing. The proof
follows a write from hand to hand: the handler's nudge, the channel, the loop
about to list, the listing, the queue, the worker that has yet to read. `Steps`
puts `Next` as one disjunction, and there is one lemma per group of steps for
each of the three conjuncts.

Only model-checked: what is under fairness (`ImplementsKeyQueue`'s
fairness half, `ShutdownEnds`, `EventuallySettled`, `DeletionCompletes`,
`WriteIsReconciled`, `ExitsPromptly`), because it needs ENABLED, which the prover
does not have; and the delays of instances outside `CapFits`.

## Not modelled

JSON and YAML, the details of validation, reads in the server, logging and
messages, `Metadata` other than the mark and the incarnation, `cpctl` and the
demo script: no state of the system depends on them. Substitution in the text of
a Spec is a tuple of values. Real time: a timer fires later, not after a delay,
so how many timers a key can collect is not said, only that it is more than
one. A Docker call that takes effect late, after its error was reported or after
a restart: a lost answer is of a call that is already carried out. A failing or persistent Store: `Memory` neither fails nor outlives the
process (ADR-0004); the `store` fault stands for what the interface allows. Two
owned objects of one resource: the name is the same, so Docker refuses the
second. A container that is disconnected from a network that stays: the
fingerprint does not see it, and nothing in the code looks.

## Plan

What was planned is done: the queue first, then the daemon, the reconciler and
the providers, and at last `System`, which joins the first and the third. Two joins
are still arguments on paper: `Docker` in the place of `Provider` under the
reconciler, and `WorkQueue` under `Daemon`. Liveness of `System` is not checked: the
bound on the failures of a key would stop the worker of one that never succeeds.

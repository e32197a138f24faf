------------------------------- MODULE Reconciler -----------------------------
(***************************************************************************)
(* core/reconcile/reconciler.go: the resync loop and the pool of workers   *)
(* that converge the stored resources, over the work queue as KeyQueue     *)
(* specifies it, the Store and the Substrate.  One action is one call of a *)
(* worker to the queue, the Store or a provider, so that clients, other    *)
(* workers and the outside world act between any two of them.              *)
(*                                                                         *)
(* What fails is bounded by MaxFaults, what clients write by MaxWrites.    *)
(***************************************************************************)
EXTENDS Naturals, Sequences, SequencesExt

CONSTANTS
    Resources, Networks, Managed,   \* Managed: a provider owns their kind
    Workers, NoKey,
    Fields, IdField,   \* IdField is the field that holds an object's identity
    Bases, BadBases,
    Ids, NoId, Absent, NoObj,
    Offers,            \* Offers[r]: the manifests clients may PUT for r
    FaultKinds,        \* of "call", "reply", "start", "store"; "vanish", "stop",
                       \* "unplug"; "crash"
    MaxFaults, MaxWrites,
    MayCancel          \* whether the context of Run may be cancelled

VARIABLES
    pending, held,   \* the queue: keys that owe a reconcile, keys in a reconcile
    closed,          \* the context of Run is cancelled and the queue shut down
    items,           \* the Store
    objs,            \* the Substrate
    job,             \* job[w]: the local variables of worker w in process
    timers,          \* keys with a delayed re-add pending
    faults, writes   \* how many there have been

Q         == INSTANCE KeyQueue WITH Keys <- Resources
store     == INSTANCE Store
substrate == INSTANCE Provider

ASSUME ReconcilerAssumption ==
    /\ Networks \subseteq Managed /\ Managed \subseteq Resources
    /\ IdField \in Fields /\ NoId \notin Ids /\ NoKey \notin Resources
    /\ Absent \notin store!Items /\ NoObj \notin substrate!Objects
    /\ \A r \in Resources : Offers[r] \subseteq store!Manifests
    /\ MaxFaults \in Nat /\ MaxWrites \in Nat /\ MayCancel \in BOOLEAN

queue == <<pending, held, closed>>
world == <<faults, writes>>
vars  == <<queue, items, objs, job, timers, world>>
-------------------------------------------------------------------------------
(* A worker's job.  "at" is the call it makes next; "res" its copy of the  *)
(* resource and "vals" the references resolved so far; "status" what it    *)
(* will report and "out" how process will end.                             *)

Steps == {"idle", "fetch", "resolve", "create", "teardown", "reobserve",
          "report", "delObserve", "delDelete", "remove", "requeue", "done"}
Outcomes == {"", "ok", "requeue", "error"}

NoStatus   == [phase |-> "", observed |-> NoId]
NoSnapshot == [base |-> NoId, refs |-> <<>>, marked |-> FALSE, createdAt |-> 0]
Snapshots  == [base : Bases, refs : Seq(store!References), marked : BOOLEAN,
               createdAt : Nat]
Snapshot(i) == [base |-> i.base, refs |-> i.refs, marked |-> i.marked,
                createdAt |-> i.createdAt]

Idle == [at |-> "idle", res |-> NoSnapshot, vals |-> <<>>, status |-> NoStatus,
         out |-> ""]

key(w) == held[w]
Want(j) == [base |-> j.res.base, vals |-> j.vals]
Needs(j) == {j.vals[i] : i \in {n \in DOMAIN j.vals : j.res.refs[n].target \in Networks}}

\* The least identity nothing remembers, in place of the substrate's next new
\* one.  (There is one as long as Ids is large enough.)
Remembered ==
    UNION {ToSet(job[w].vals) \cup {job[w].status.observed} : w \in Workers}
    \cup {items[r].status.observed : r \in {s \in Resources : store!Has(s)}}
    \cup UNION {{objs[r].id} \cup ToSet(objs[r].spec.vals) :
                    r \in {s \in Resources : substrate!Exists(s)}}
NewIds == {i \in Ids \ Remembered : \A k \in Ids \ Remembered : i <= k}

Jobs == [at : Steps, res : Snapshots \cup {NoSnapshot}, vals : Seq(Ids),
         status : store!Statuses, out : Outcomes]

\* Types; a worker has a key exactly while it is in process, and has resolved
\* no more references than its snapshot has.
TypeOK ==
    /\ Q!TypeOK /\ store!TypeOK /\ substrate!TypeOK
    /\ job \in [Workers -> Jobs]
    /\ \A w \in Workers :
          /\ job[w].at = "idle" <=> held[w] = NoKey
          /\ Len(job[w].vals) <= Len(job[w].res.refs)
    /\ timers \subseteq Resources
    /\ faults \in 0 .. MaxFaults /\ writes \in 0 .. MaxWrites

Init ==
    /\ Q!Init /\ store!Init /\ substrate!Init
    /\ job = [w \in Workers |-> Idle]
    /\ timers = {}
    /\ faults = 0 /\ writes = 0

At(w, s) == job[w].at = s
Goto(w, s) == job' = [job EXCEPT ![w].at = s]

\* setStatus comes next, then the end of process; a local variable that is
\* not read again is cleared.
ReportNext(w, phase, observed, out) ==
    job' = [job EXCEPT ![w].at = "report", ![w].out = out, ![w].vals = <<>>,
                       ![w].status = [phase |-> phase, observed |-> observed]]

FinishNext(w, out) ==
    job' = [job EXCEPT ![w] =
        [Idle EXCEPT !.at = IF out = "ok" THEN "done" ELSE "requeue", !.out = out]]

\* A call fails, or the world changes, on account of a fault of this kind.
\* A provider call whose context is cancelled may always fail.
Fault(kind) ==
    /\ kind \in FaultKinds
    /\ \/ faults < MaxFaults /\ faults' = faults + 1
       \/ closed /\ kind \in {"call", "reply", "start"} /\ UNCHANGED faults
    /\ UNCHANGED writes
-------------------------------------------------------------------------------
(* process and reconcile.                                                  *)

\* worker: get returns a key and process starts on it.
Take(w, k) ==
    /\ Q!Take(w, k)
    /\ Goto(w, "fetch")
    /\ UNCHANGED <<items, objs, timers, world>>

\* A slip: reconcileDeletion is left to the kinds that have a provider.
PathIfManaged(k, i) == IF i.marked /\ k \in Managed THEN "delObserve" ELSE "resolve"

\* reconcile: the removal path or the convergence path.
Path(k, i) ==
    IF ~i.marked THEN "resolve" ELSE IF k \in Managed THEN "delObserve" ELSE "remove"

\* process: store.Get; a resource that has vanished is forgotten.
Fetch(w) ==
    /\ At(w, "fetch")
    /\ \/ /\ ~store!Has(key(w))
          /\ FinishNext(w, "ok")
          /\ UNCHANGED world
       \/ /\ store!Has(key(w))
          /\ job' = [job EXCEPT ![w].res = Snapshot(items[key(w)]),
                                ![w].at = Path(key(w), items[key(w)])]
          /\ UNCHANGED world
       \/ Fault("store") /\ FinishNext(w, "error")
    /\ UNCHANGED <<queue, items, objs, timers>>

NextRef(w) == job[w].res.refs[Len(job[w].vals) + 1]
AllResolved(w) == Len(job[w].vals) = Len(job[w].res.refs)

\* The value of a reference, NoId if it is unresolvable now: the target is
\* missing, is not Ready, or does not set the field.
Lookup(ref) ==
    IF store!IsReady(ref.target) /\ ref.field = IdField
    THEN items[ref.target].status.observed ELSE NoId

\* resolveReferences, one store.Get: the next reference in name order.
Resolve(w) ==
    /\ At(w, "resolve") /\ ~AllResolved(w)
    /\ \/ /\ Lookup(NextRef(w)) # NoId
          /\ job' = [job EXCEPT ![w].vals = Append(@, Lookup(NextRef(w)))]
          /\ UNCHANGED world
       \/ /\ Lookup(NextRef(w)) = NoId
          /\ ReportNext(w, "Pending", NoId, "requeue")
          /\ UNCHANGED world
       \/ Fault("store") /\ ReportNext(w, "Error", NoId, "error")
    /\ UNCHANGED <<queue, items, objs, timers>>

\* A slip: nothing is reported for a kind without a provider.
NoProviderNoStatus(w) ==
    /\ At(w, "resolve") /\ AllResolved(w)
    /\ key(w) \notin Managed
    /\ FinishNext(w, "ok")
    /\ UNCHANGED <<queue, items, objs, timers, world>>

\* converge of a kind without a provider: an Error that is not retried.
NoProvider(w) ==
    /\ At(w, "resolve") /\ AllResolved(w)
    /\ key(w) \notin Managed
    /\ ReportNext(w, "Error", NoId, "ok")
    /\ UNCHANGED <<queue, items, objs, timers, world>>

\* The end of converge: what the last observation says of the object.
Verdict(w) ==
    IF ~substrate!Exists(key(w)) THEN ReportNext(w, "Creating", NoId, "ok")
    ELSE ReportNext(w,
             IF substrate!Ready(key(w)) /\ substrate!UpToDate(key(w), Want(job[w]))
             THEN "Ready" ELSE "Creating",
             objs[key(w)].id, "ok")

\* converge: the first Observe, and the switch on it.
Observe(w) ==
    /\ At(w, "resolve") /\ AllResolved(w)
    /\ key(w) \in Managed
    /\ \/ ~substrate!Exists(key(w)) /\ Goto(w, "create") /\ UNCHANGED world
       \/ /\ substrate!Exists(key(w))
          /\ ~substrate!UpToDate(key(w), Want(job[w]))
          /\ Goto(w, "teardown")
          /\ UNCHANGED world
       \/ substrate!UpToDate(key(w), Want(job[w])) /\ Verdict(w) /\ UNCHANGED world
       \/ Fault("call") /\ ReportNext(w, "Error", NoId, "error")
    /\ UNCHANGED <<queue, items, objs, timers>>

\* Create, called by converge or as the second half of Update.
Create(w) ==
    /\ At(w, "create")
    /\ \E id \in NewIds :
       LET want == Want(job[w])  needs == Needs(job[w])
       IN  \/ /\ substrate!Create(key(w), want, needs, id)
              /\ IF substrate!Creatable(key(w), want, needs)
                 THEN Goto(w, "reobserve")
                 ELSE ReportNext(w, "Error", NoId, "error")
              /\ UNCHANGED world
           \/ \E fault \in {"call", "reply", "start"} :
                  /\ Fault(fault)
                  /\ substrate!CreateFaults(key(w), want, needs, id, fault)
                  /\ ReportNext(w, "Error", NoId, "error")
    /\ UNCHANGED <<queue, items, timers>>

\* Update: its first half, the Delete of the object that is out of date.
Teardown(w) ==
    /\ At(w, "teardown")
    /\ \/ /\ substrate!Delete(key(w))
          /\ IF substrate!Deletable(key(w))
             THEN Goto(w, "create")
             ELSE ReportNext(w, "Error", NoId, "error")
          /\ UNCHANGED world
       \/ \E fault \in {"call", "reply"} :
              /\ Fault(fault)
              /\ substrate!DeleteFaults(key(w), fault)
              /\ ReportNext(w, "Error", NoId, "error")
    /\ UNCHANGED <<queue, items, timers>>

\* The Observe after a Create or an Update.
Reobserve(w) ==
    /\ At(w, "reobserve")
    /\ \/ Verdict(w) /\ UNCHANGED world
       \/ Fault("call") /\ ReportNext(w, "Creating", NoId, "error")
    /\ UNCHANGED <<queue, items, objs, timers>>

\* setStatus: ErrNotFound is ignored, any other error is only logged.
Report(w) ==
    /\ At(w, "report")
    /\ \/ store!UpdateStatus(key(w), job[w].status) /\ UNCHANGED world
       \/ Fault("store") /\ UNCHANGED items
    /\ FinishNext(w, job[w].out)
    /\ UNCHANGED <<queue, objs, timers>>

\* A slip: an existing object is removed by Update, not by Delete.
DelObserveByUpdate(w) ==
    /\ At(w, "delObserve")
    /\ Goto(w, IF substrate!Exists(key(w)) THEN "teardown" ELSE "remove")
    /\ UNCHANGED <<queue, items, objs, timers, world>>

\* reconcileDeletion.
DelObserve(w) ==
    /\ At(w, "delObserve")
    /\ \/ Goto(w, IF substrate!Exists(key(w)) THEN "delDelete" ELSE "remove")
          /\ UNCHANGED world
       \/ Fault("call") /\ ReportNext(w, "Deleting", NoId, "error")
    /\ UNCHANGED <<queue, items, objs, timers>>

\* A slip: once Delete is called the resource goes, whatever Delete returned.
DelDeleteOnce(w) ==
    /\ At(w, "delDelete")
    /\ \/ substrate!Delete(key(w)) /\ UNCHANGED world
       \/ Fault("call") /\ UNCHANGED objs
    /\ Goto(w, "remove")
    /\ UNCHANGED <<queue, items, timers>>

DelDelete(w) ==
    /\ At(w, "delDelete")
    /\ \/ /\ substrate!Delete(key(w))
          /\ ReportNext(w, "Deleting", NoId,
                        IF substrate!Deletable(key(w)) THEN "requeue" ELSE "error")
          /\ UNCHANGED world
       \/ \E fault \in {"call", "reply"} :
              /\ Fault(fault)
              /\ substrate!DeleteFaults(key(w), fault)
              /\ ReportNext(w, "Deleting", NoId, "error")
    /\ UNCHANGED <<queue, items, timers>>

\* removeFromStore; ErrNotFound is success.
RemoveFromStore(w) ==
    /\ At(w, "remove")
    /\ \/ store!Delete(key(w)) /\ FinishNext(w, "ok") /\ UNCHANGED world
       \/ Fault("store") /\ FinishNext(w, "error") /\ UNCHANGED items
    /\ UNCHANGED <<queue, objs, timers>>

\* enqueueAfter or enqueueRateLimited.  The timers of a key are counted as one.
Requeue(w) ==
    /\ At(w, "requeue")
    /\ timers' = timers \cup {key(w)}
    /\ FinishNext(w, "ok")
    /\ UNCHANGED <<queue, items, objs, world>>

\* A slip: the key is released and its worker goes on with it.
DoneAgain(w) ==
    /\ At(w, "done")
    /\ Q!Release(w)
    /\ Goto(w, "fetch")
    /\ UNCHANGED <<items, objs, timers, world>>

\* The deferred done of process.
Done(w) ==
    /\ At(w, "done")
    /\ Q!Release(w)
    /\ job' = [job EXCEPT ![w] = Idle]
    /\ UNCHANGED <<items, objs, timers, world>>

Step(w) ==
    \/ Fetch(w) \/ Resolve(w) \/ NoProvider(w) \/ Observe(w) \/ Create(w)
    \/ Teardown(w) \/ Reobserve(w) \/ Report(w) \/ DelObserve(w) \/ DelDelete(w)
    \/ RemoveFromStore(w) \/ Requeue(w) \/ Done(w)
-------------------------------------------------------------------------------
(* The resync loop, the timers, the clients, the outside world.            *)

\* After the shutdown a re-add is a no-op.
enqueue(k) == IF closed THEN UNCHANGED queue ELSE Q!Add(k)

\* resync, on the first pass, a tick or a nudge, for one key of its List.  (A
\* key whose resource went between the two calls finds in Fetch what the timer
\* of a resource that went finds there.)
Resync(k) ==
    /\ store!Has(k)
    /\ enqueue(k)
    /\ UNCHANGED <<items, objs, job, timers, world>>

\* The key may have another timer.
Fire(k) ==
    /\ k \in timers
    /\ enqueue(k)
    /\ timers' \in {timers, timers \ {k}}
    /\ UNCHANGED <<items, objs, job, world>>

Write ==
    /\ writes < MaxWrites
    /\ writes' = writes + 1
    /\ UNCHANGED <<queue, objs, job, timers, faults>>

\* Server.put and Server.delete, up to the nudge.
ClientPut(r, m) == Write /\ store!Put(r, m, writes)
ClientDelete(r) == Write /\ store!Has(r) /\ store!MarkForDeletion(r)

Drift(r) ==
    /\ \E fault \in {"vanish", "stop", "unplug"} :
          Fault(fault) /\ substrate!Drift(r, fault)
    /\ UNCHANGED <<queue, items, job, timers>>

\* Run: the context is cancelled and the queue shut down.
Cancel ==
    /\ MayCancel /\ ~closed
    /\ Q!Close
    /\ UNCHANGED <<items, objs, job, timers, world>>

\* setpointd crashes, or is told to stop, and is started again: the Store and
\* the queue were its memory, the objects stay and are known by their labels.
Restart ==
    /\ Fault("crash")
    /\ pending' = {} /\ held' = [w \in Workers |-> NoKey] /\ closed' = FALSE
    /\ items' = [r \in Resources |-> Absent]
    /\ job' = [w \in Workers |-> Idle] /\ timers' = {}
    /\ UNCHANGED objs

Next ==
    \/ \E w \in Workers : Step(w) \/ \E k \in Resources : Take(w, k)
    \/ Cancel \/ Restart
    \/ \E k \in Resources : Resync(k) \/ Fire(k) \/ ClientDelete(k) \/ Drift(k)
    \/ \E r \in Resources : \E m \in Offers[r] : ClientPut(r, m)

SafetySpec == Init /\ [][Next]_vars

\* Reconciles return, every dirty key is in the end taken (theorem and run of
\* WorkQueue), the ticker ticks and started timers fire.  Nobody has to write
\* and nothing has to fail.
Fairness ==
    /\ \A w \in Workers : WF_vars(Step(w))
    /\ \A k \in Resources : SF_vars(\E w \in Workers : Take(w, k))
    /\ \A k \in Resources : WF_vars(Resync(k)) /\ WF_vars(Fire(k))

Spec == SafetySpec /\ Fairness
-------------------------------------------------------------------------------
InFlight == {held[w] : w \in Workers} \ {NoKey}
Working(w) == job[w].at \notin {"idle", "fetch", "requeue", "done"}

\* No Substrate object outlives its resource, and none is created for a
\* resource that is gone: reconcileDeletion looks at the Substrate in one call
\* and removes the resource in another, with clients, drift and the other
\* worker in between.
Orphan(r) == ~store!Has(r) /\ substrate!Exists(r)
NoOrphans == \A r \in Resources : ~Orphan(r)

\* The end of the process takes the Store along and leaves orphans ("desired
\* state does not survive a restart yet", README:88); nothing else makes one,
\* whatever fails and whatever an earlier process left.
OnlyRestartOrphans == [][Restart \/ \A r \in Resources : Orphan(r)' => Orphan(r)]_vars

\* Otherwise a resource leaves the Store only when a client asked for it, and
\* with no object left behind; a PUT between the deletion's steps changes neither.
RemovalIsAsked ==
    [][Restart \/ \A r \in Resources :
          store!Has(r) /\ ~store!Has(r)' =>
              store!Marked(r) /\ ~substrate!Exists(r)]_vars

\* While a worker is in a reconcile, its copy and the Store speak of the same
\* incarnation of the resource (a status is never written to a resource that
\* was deleted and created again meanwhile), and what it tears down for good
\* is still marked.
SnapshotCurrent ==
    \A w \in Workers :
        Working(w) =>
            /\ store!Has(key(w))
            /\ items[key(w)].createdAt = job[w].res.createdAt
            /\ job[w].res.marked => store!Marked(key(w))

\* A dependent that resolves a reference gets the identity of the object that
\* is there: between reconciles of r, a Ready status names r's object, unless
\* that has vanished since.  Holds as long as the Store takes every status
\* (setStatus only logs a failure).
StatusNames(r) ==
    store!IsReady(r) /\ substrate!Exists(r) => items[r].status.observed = objs[r].id
StatusNamesTheObject == \A r \in Resources \ InFlight : StatusNames(r)

\* What makes the invariants above inductive.  No two workers share a key; a
\* worker between Fetch and its last call has a resource to work on, any other
\* has nothing left of the last one.
Exclusive == \A v, w \in Workers : held[v] = held[w] /\ held[v] # NoKey => v = w
HasSnapshot ==
    \A w \in Workers :
        IF Working(w) THEN job[w].res \in Snapshots ELSE job[w].vals = <<>>

\* Only what a provider owns has an object, and only a provider is called.
ProviderSteps == {"create", "teardown", "reobserve", "delObserve", "delDelete"}
OnlyManaged ==
    /\ \A w \in Workers : job[w].at \in ProviderSteps => key(w) \in Managed
    /\ \A r \in Resources \ Managed : ~substrate!Exists(r)

\* The removal path is taken for a marked copy, and ends when the object is gone.
RemovesClean ==
    \A w \in Workers :
        /\ job[w].at \in {"delObserve", "delDelete", "remove"} => job[w].res.marked
        /\ At(w, "remove") => ~substrate!Exists(key(w))

IInv ==
    /\ TypeOK /\ Exclusive /\ HasSnapshot /\ SnapshotCurrent
    /\ OnlyManaged /\ RemovesClean

\* What makes StatusNamesTheObject inductive: only between a Create and its
\* report does a Ready status of the last reconcile name another object than
\* the one that is there, and a Ready that is about to be reported names it.
NameKnown ==
    /\ \A r \in Resources :
          (\A w \in Workers : key(w) = r => job[w].at \notin {"reobserve", "report"})
              => StatusNames(r)
    /\ \A w \in Workers :
          At(w, "report") /\ job[w].status.phase = "Ready" /\ substrate!Exists(key(w)) =>
              job[w].status.observed = objs[key(w)].id

\* Once writes and faults stop, everything stored comes to rest where it
\* should be and stays there: see Settled.  The clients' writes, stale reads of
\* a dependency, lost answers and drift at any step are all repaired.
Resolvable(r) == \A i \in DOMAIN items[r].refs : Lookup(items[r].refs[i]) # NoId
WantNow(r) ==
    [base |-> items[r].base,
     vals |-> [i \in DOMAIN items[r].refs |-> Lookup(items[r].refs[i])]]

Settled(r) ==
    \/ ~store!Has(r)
    \/ store!Marked(r) /\ substrate!Attached(r)
    \/ /\ store!Has(r) /\ ~store!Marked(r) /\ ~Resolvable(r)
       /\ items[r].status.phase = "Pending"
    \/ /\ store!Has(r) /\ ~store!Marked(r) /\ Resolvable(r)
       /\ IF r \notin Managed \/ items[r].base \in BadBases
          THEN items[r].status.phase = "Error"
          ELSE /\ substrate!Ready(r) /\ objs[r].spec = WantNow(r)
               /\ items[r].status = [phase |-> "Ready", observed |-> objs[r].id]

EventuallySettled == <>[](\A r \in Resources : Settled(r))

\* A DELETE is carried out: the resource goes, unless it is a network that
\* running containers hold on to (network.go:106-110).
DeletionCompletes ==
    \A r \in Resources :
        store!Marked(r) ~> ~store!Has(r) \/ substrate!Attached(r)

\* Cyclic references stall: "a cycle is just resources that are mutually
\* unresolvable, so they stall as mutually not-Ready" (ADR-0012).
RefersTo(r, s) == store!Has(r) /\ \E i \in DOMAIN items[r].refs : items[r].refs[i].target = s
OnCycle(r) == RefersTo(r, r) \/ \E s \in Resources : RefersTo(r, s) /\ RefersTo(s, r)
CyclesStall == <>[](\A r \in Resources : OnCycle(r) => ~store!IsReady(r))

\* What the README shows with docker kill ("back to Ready shortly", README:37)
\* and what the provider contract says of a Create that failed half way ("every
\* method can be retried", provider.go:30): a stopped container of a resource
\* that is wanted runs again.
StoppedComesBack ==
    \A r \in Resources :
        store!Has(r) /\ substrate!Exists(r) /\ ~substrate!Ready(r) ~>
            substrate!Ready(r) \/ ~store!Has(r) \/ store!Marked(r)

\* "The write is durable" (server.go:133): what removeFromStore drops is what
\* the worker read, not something a client has put there since.
NoWriteLost ==
    [][\A w \in Workers :
          At(w, "remove") /\ store!Has(key(w)) /\ ~store!Has(key(w))' =>
              job[w].res = Snapshot(items[key(w)])]_vars
===============================================================================

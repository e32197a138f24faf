---------------------------- MODULE ReconcilerProofs ---------------------------
(***************************************************************************)
(* What holds of Reconciler for any resources, workers, manifests, faults  *)
(* and bounds: IInv is inductive, hence the types, SnapshotCurrent,        *)
(* RemovalIsAsked and OnlyRestartOrphans; and for the faults that leave    *)
(* them alone, NoOrphans and StatusNamesTheObject.                         *)
(***************************************************************************)
EXTENDS Reconciler, TLAPS

(* The part of IInv that speaks of one worker.                              *)
WorkerOK(w) ==
    /\ job[w].at = "idle" <=> held[w] = NoKey
    /\ Len(job[w].vals) <= Len(job[w].res.refs)
    /\ Working(w) =>
          /\ job[w].res \in Snapshots
          /\ store!Has(key(w))
          /\ items[key(w)].createdAt = job[w].res.createdAt
          /\ job[w].res.marked => store!Marked(key(w))
    /\ ~Working(w) => job[w].vals = <<>>
    /\ job[w].at \in ProviderSteps => key(w) \in Managed
    /\ job[w].at \in {"delObserve", "delDelete", "remove"} => job[w].res.marked
    /\ At(w, "remove") => ~substrate!Exists(key(w))

(* The rest of it.                                                          *)
SharedOK ==
    /\ Q!TypeOK /\ store!TypeOK /\ substrate!TypeOK
    /\ job \in [Workers -> Jobs]
    /\ timers \subseteq Resources
    /\ faults \in 0 .. MaxFaults /\ writes \in 0 .. MaxWrites
    /\ Exclusive
    /\ \A r \in Resources \ Managed : ~substrate!Exists(r)

LEMMA ByWorker == IInv <=> SharedOK /\ \A w \in Workers : WorkerOK(w)
  BY DEF IInv, TypeOK, HasSnapshot, SnapshotCurrent, OnlyManaged, RemovesClean,
         SharedOK, WorkerOK

LEMMA ByWorkerNext == (SharedOK /\ \A w \in Workers : WorkerOK(w))' => IInv'
  BY DEF IInv, TypeOK, HasSnapshot, SnapshotCurrent, OnlyManaged, RemovesClean,
         SharedOK, WorkerOK

(* What a step may do under a key in use: the resource stays, of the same     *)
(* creation time and marked if it was, and no object appears.               *)
Steady(r) ==
    /\ store!Has(r) =>
          /\ store!Has(r)'
          /\ items'[r].createdAt = items[r].createdAt
          /\ store!Marked(r) => store!Marked(r)'
    /\ substrate!Exists(r)' => substrate!Exists(r)

LEMMA WorkerKept ==
    ASSUME NEW v \in Workers, WorkerOK(v), job'[v] = job[v], held'[v] = held[v],
           held[v] # NoKey => Steady(held[v])
    PROVE  WorkerOK(v)'
<1>1. WorkerOK(v) /\ (job[v].at = "idle" <=> held[v] = NoKey)
  BY DEF WorkerOK
<1>2. CASE held[v] = NoKey
  BY <1>1, <1>2 DEF WorkerOK, Working, At, ProviderSteps, key
<1>3. CASE held[v] # NoKey
  BY <1>1, <1>3 DEF WorkerOK, Working, At, ProviderSteps, key, Steady
<1> QED
  BY <1>2, <1>3

(* A worker with a key in its hands leaves the other workers alone as long  *)
(* as it leaves what is under other keys alone: no two hold the same.       *)
OnlyUnderKey(w) ==
    /\ \A v \in Workers \ {w} : job'[v] = job[v]
    /\ \A r \in Resources \ {key(w)} : items'[r] = items[r] /\ objs'[r] = objs[r]

LEMMA WorkerStep ==
    ASSUME IInv, NEW w \in Workers, held[w] # NoKey, UNCHANGED queue,
           OnlyUnderKey(w), WorkerOK(w)',
           store!TypeOK', substrate!TypeOK', job' \in [Workers -> Jobs],
           timers' \subseteq Resources, faults' \in 0 .. MaxFaults,
           writes' \in 0 .. MaxWrites,
           substrate!Exists(key(w))' => key(w) \in Managed
    PROVE  IInv'
<1>1. SharedOK /\ \A v \in Workers : WorkerOK(v)
  BY ByWorker
<1>2. Q!TypeOK' /\ Exclusive' /\ key(w) \in Resources
  BY <1>1 DEF SharedOK, Exclusive, queue, Q!TypeOK, key
<1>3. \A r \in Resources \ Managed : ~substrate!Exists(r)'
  <2> SUFFICES ASSUME NEW r \in Resources \ Managed, r # key(w)
               PROVE  ~substrate!Exists(r)'
    BY DEF key, queue
  <2> QED
    BY <1>1 DEF SharedOK, OnlyUnderKey, substrate!Exists
<1>4. ASSUME NEW v \in Workers, v # w
      PROVE  WorkerOK(v)'
  <2>1. held'[v] = held[v] /\ job'[v] = job[v]
    BY <1>4 DEF queue, OnlyUnderKey
  <2>2. held[v] # NoKey => held[v] \in Resources \ {key(w)}
    BY <1>1, <1>4 DEF SharedOK, Exclusive, Q!TypeOK, key
  <2>3. held[v] # NoKey => Steady(held[v])
    BY <2>1, <2>2 DEF OnlyUnderKey, Steady, store!Has, store!Marked, substrate!Exists
  <2> QED
    BY <1>1, <2>1, <2>3, WorkerKept
<1> QED
  BY <1>2, <1>3, <1>4, ByWorkerNext DEF SharedOK
-------------------------------------------------------------------------------
(* The worker's own bookkeeping.                                            *)

Moves(w) ==
    /\ job' \in [Workers -> Jobs]
    /\ \A v \in Workers \ {w} : job'[v] = job[v]

(* The job of a worker that waits in get.                                   *)
LEMMA IdleOK ==
    /\ Idle \in Jobs /\ Idle.at = "idle" /\ Idle.vals = <<>>
    /\ Len(Idle.vals) <= Len(Idle.res.refs)
<1>1. <<>> \in Seq(Ids) /\ "idle" \in Steps
  BY DEF Steps
<1>2. NoStatus \in store!Statuses
  BY DEF NoStatus, store!Statuses, store!Phases
<1>3. Idle.res.refs = <<>> /\ Idle.vals = <<>>
  BY DEF Idle, NoSnapshot
<1> QED
  BY <1>1, <1>2, <1>3 DEF Jobs, Idle, Outcomes

(* The types, and what the code below relies on of a worker in process.     *)
LEMMA InProcess ==
    ASSUME IInv, NEW w \in Workers, job[w].at # "idle"
    PROVE  /\ held[w] # NoKey /\ key(w) = held[w] /\ key(w) \in Resources
           /\ job \in [Workers -> Jobs] /\ job[w] \in Jobs /\ WorkerOK(w)
           /\ store!TypeOK /\ substrate!TypeOK
           /\ timers \subseteq Resources
           /\ faults \in 0 .. MaxFaults /\ writes \in 0 .. MaxWrites
           /\ \A r \in Resources \ Managed : ~substrate!Exists(r)
<1>1. SharedOK /\ WorkerOK(w)
  BY ByWorker
<1>2. held[w] # NoKey
  BY <1>1 DEF WorkerOK
<1> QED
  BY <1>1, <1>2 DEF SharedOK, Q!TypeOK, key

LEMMA GotoOK ==
    ASSUME IInv, NEW w \in Workers, Working(w), UNCHANGED <<held, items>>,
           NEW s \in Steps \ {"idle", "fetch", "requeue", "done"}, Goto(w, s),
           s \in ProviderSteps => key(w) \in Managed,
           s \in {"delObserve", "delDelete", "remove"} => job[w].res.marked,
           s = "remove" => ~substrate!Exists(key(w))'
    PROVE  Moves(w) /\ WorkerOK(w)'
<1>1. job[w].at # "idle"
  BY DEF Working
<1>2. job \in [Workers -> Jobs] /\ WorkerOK(w) /\ held[w] # NoKey
  BY <1>1, InProcess
<1>3. job'[w] = [job[w] EXCEPT !.at = s] /\ \A v \in Workers \ {w} : job'[v] = job[v]
  BY <1>2 DEF Goto
<1>4. job'[w] \in Jobs /\ job' \in [Workers -> Jobs]
  BY <1>2, <1>3 DEF Jobs, Goto
<1>5. /\ job'[w].at = s /\ job'[w].res = job[w].res /\ job'[w].vals = job[w].vals
  BY <1>2, <1>3 DEF Jobs
<1>6. WorkerOK(w)'
  BY <1>2, <1>5 DEF WorkerOK, Working, At, key, store!Has, store!Marked
<1> QED
  BY <1>3, <1>4, <1>6 DEF Moves

LEMMA ReportOK ==
    ASSUME IInv, NEW w \in Workers, Working(w), UNCHANGED <<held, items>>,
           NEW phase \in store!Phases, NEW observed \in Ids \cup {NoId},
           NEW out \in Outcomes, ReportNext(w, phase, observed, out)
    PROVE  /\ Moves(w) /\ WorkerOK(w)'
           /\ job'[w].at = "report"
           /\ job'[w].status.phase = phase /\ job'[w].status.observed = observed
<1>1. job[w].at # "idle"
  BY DEF Working
<1>2. job \in [Workers -> Jobs] /\ WorkerOK(w) /\ held[w] # NoKey
  BY <1>1, InProcess
<1> DEFINE j == [job[w] EXCEPT !.at = "report", !.out = out, !.vals = <<>>,
                               !.status = [phase |-> phase, observed |-> observed]]
<1>3. job' = [job EXCEPT ![w] = j]
  BY <1>2 DEF ReportNext
<1>4. j \in Jobs
  <2>1. <<>> \in Seq(Ids) /\ "report" \in Steps
    BY DEF Steps
  <2>2. [phase |-> phase, observed |-> observed] \in store!Statuses
    BY DEF store!Statuses
  <2> QED
    BY <1>2, <2>1, <2>2 DEF Jobs
<1>5. /\ j.at = "report" /\ j.res = job[w].res /\ j.vals = <<>>
      /\ j.status.phase = phase /\ j.status.observed = observed
  BY <1>2 DEF Jobs
<1> HIDE DEF j
<1>6. job'[w] = j /\ Moves(w)
  BY <1>2, <1>3, <1>4 DEF Moves
<1>7. Len(j.vals) <= Len(j.res.refs)
  BY <1>2, <1>5 DEF WorkerOK, Working, Snapshots
<1>8. WorkerOK(w)'
  BY <1>2, <1>5, <1>6, <1>7
     DEF WorkerOK, Working, At, key, ProviderSteps, store!Has, store!Marked
<1> QED
  BY <1>5, <1>6, <1>8

LEMMA FinishOK ==
    ASSUME IInv, NEW w \in Workers, job[w].at # "idle", UNCHANGED held,
           NEW out \in Outcomes, FinishNext(w, out)
    PROVE  Moves(w) /\ WorkerOK(w)' /\ job'[w].at \in {"requeue", "done"}
<1>2. job \in [Workers -> Jobs] /\ held[w] # NoKey
  BY InProcess
<1> DEFINE at == IF out = "ok" THEN "done" ELSE "requeue"
           j == [Idle EXCEPT !.at = at, !.out = out]
<1>4. j \in Jobs
  <2>1. <<>> \in Seq(Ids) /\ at \in Steps
    BY DEF Steps
  <2>2. NoStatus \in store!Statuses
    BY DEF NoStatus, store!Statuses, store!Phases
  <2> QED
    BY <2>1, <2>2 DEF Jobs, Idle
<1>5. j.at \in {"requeue", "done"} /\ j.vals = <<>> /\ Len(j.vals) <= Len(j.res.refs)
  BY DEF Idle, NoSnapshot
<1>6. job'[w] = j /\ Moves(w)
  BY <1>2, <1>4 DEF Moves, FinishNext
<1> HIDE DEF j
<1>8. WorkerOK(w)'
  BY <1>2, <1>5, <1>6 DEF WorkerOK, Working, At, ProviderSteps
<1> QED
  BY <1>5, <1>6, <1>8

LEMMA FaultCounts ==
    ASSUME NEW kind, Fault(kind), faults \in 0 .. MaxFaults, MaxFaults \in Nat
    PROVE  faults' \in 0 .. MaxFaults /\ writes' = writes /\ kind \in FaultKinds
  BY DEF Fault
-------------------------------------------------------------------------------
(* What the calls to the Store and to the Substrate do.                     *)

(* A new Spec never takes a resource, its age, its mark or its status away. *)
LEMMA PutEffect ==
    ASSUME store!TypeOK, NEW r \in Resources, NEW m \in store!Manifests,
           NEW now \in Nat, store!Put(r, m, now), UNCHANGED objs
    PROVE  /\ store!TypeOK'
           /\ \A s \in Resources :
                 /\ Steady(s)
                 /\ store!IsReady(s)' =>
                       store!IsReady(s) /\ items'[s].status = items[s].status
<1> DEFINE item == IF store!Has(r) THEN [items[r] EXCEPT !.base = m.base, !.refs = m.refs]
                   ELSE [base |-> m.base, refs |-> m.refs, marked |-> FALSE,
                         createdAt |-> now, status |-> [phase |-> "", observed |-> NoId]]
<1>1. items' = [items EXCEPT ![r] = item]
  BY DEF store!Put, store!TypeOK
<1>2. Absent \notin store!Items
  BY ReconcilerAssumption DEF ReconcilerAssumption
<1>3. CASE store!Has(r)
  <2>1. items[r] \in store!Items
    BY <1>3 DEF store!Has, store!TypeOK
  <2>2. /\ item \in store!Items
        /\ item.createdAt = items[r].createdAt /\ item.marked = items[r].marked
        /\ item.status = items[r].status
    BY <1>3, <2>1 DEF store!Items, store!Manifests
  <2> HIDE DEF item
  <2>3. store!TypeOK'
    BY <1>1, <2>2 DEF store!TypeOK
  <2> QED
    BY <1>1, <1>2, <1>3, <2>2, <2>3
       DEF store!TypeOK, store!Has, store!Marked, store!IsReady, Steady,
           substrate!Exists
<1>4. CASE ~store!Has(r)
  <2>1. [phase |-> "", observed |-> NoId] \in store!Statuses
    BY DEF store!Statuses, store!Phases
  <2>2. item \in store!Items /\ item.status.phase # "Ready"
    BY <1>4, <2>1 DEF store!Items, store!Manifests
  <2> HIDE DEF item
  <2>3. store!TypeOK'
    BY <1>1, <2>2 DEF store!TypeOK
  <2> QED
    BY <1>1, <1>4, <2>2, <2>3
       DEF store!TypeOK, store!Has, store!Marked, store!IsReady, Steady,
           substrate!Exists
<1> QED
  BY <1>3, <1>4

LEMMA MarkEffect ==
    ASSUME store!TypeOK, NEW r \in Resources, store!MarkForDeletion(r), UNCHANGED objs
    PROVE  /\ store!TypeOK'
           /\ \A s \in Resources :
                 /\ Steady(s)
                 /\ store!IsReady(s)' =>
                       store!IsReady(s) /\ items'[s].status = items[s].status
<1>1. CASE store!Has(r)
  <2> DEFINE item == [items[r] EXCEPT !.marked = TRUE]
  <2>1. items' = [items EXCEPT ![r] = item]
    BY <1>1 DEF store!MarkForDeletion, store!TypeOK
  <2>2. items[r] \in store!Items
    BY <1>1 DEF store!Has, store!TypeOK
  <2>3. /\ item \in store!Items
        /\ item.createdAt = items[r].createdAt /\ item.marked
        /\ item.status = items[r].status
    BY <2>2 DEF store!Items
  <2>4. Absent \notin store!Items
    BY ReconcilerAssumption DEF ReconcilerAssumption
  <2> HIDE DEF item
  <2> QED
    BY <1>1, <2>1, <2>3, <2>4
       DEF store!TypeOK, store!Has, store!Marked, store!IsReady, Steady,
           substrate!Exists
<1>2. CASE ~store!Has(r)
  BY <1>2 DEF store!MarkForDeletion, store!TypeOK, store!Has, store!Marked,
              store!IsReady, Steady, substrate!Exists
<1> QED
  BY <1>1, <1>2

LEMMA UpdateStatusEffect ==
    ASSUME store!TypeOK, NEW r \in Resources, NEW status \in store!Statuses,
           store!UpdateStatus(r, status)
    PROVE  /\ store!TypeOK'
           /\ \A s \in Resources \ {r} : items'[s] = items[s]
           /\ store!Has(r)' <=> store!Has(r)
           /\ store!Has(r)' => items'[r].status = status
<1>1. CASE store!Has(r)
  <2> DEFINE item == [items[r] EXCEPT !.status = status]
  <2>1. items' = [items EXCEPT ![r] = item]
    BY <1>1 DEF store!UpdateStatus, store!TypeOK
  <2>2. items[r] \in store!Items
    BY <1>1 DEF store!Has, store!TypeOK
  <2>3. item \in store!Items /\ item.status = status
    BY <2>2 DEF store!Items
  <2>4. Absent \notin store!Items
    BY ReconcilerAssumption DEF ReconcilerAssumption
  <2> HIDE DEF item
  <2> QED
    BY <1>1, <2>1, <2>3, <2>4 DEF store!TypeOK, store!Has
<1>2. CASE ~store!Has(r)
  BY <1>2 DEF store!UpdateStatus, store!TypeOK, store!Has
<1> QED
  BY <1>1, <1>2

(* Make, the end of every Create that changes anything.                     *)
LEMMA MakeEffect ==
    ASSUME substrate!TypeOK, NEW r \in Resources, NEW want \in substrate!Wanted,
           NEW id \in Ids, NEW up \in BOOLEAN, substrate!Make(r, want, id, up)
    PROVE  substrate!TypeOK' /\ \A s \in Resources \ {r} : objs'[s] = objs[s]
  BY DEF substrate!TypeOK, substrate!Make, substrate!Objects

LEMMA CreateEffect ==
    ASSUME substrate!TypeOK, NEW r \in Resources, NEW want \in substrate!Wanted,
           NEW needs, NEW id \in Ids,
           \/ substrate!Create(r, want, needs, id)
           \/ \E fault \in {"call", "reply", "start"} :
                 substrate!CreateFaults(r, want, needs, id, fault)
    PROVE  substrate!TypeOK' /\ \A s \in Resources \ {r} : objs'[s] = objs[s]
<1>1. \/ UNCHANGED objs
      \/ \E up \in BOOLEAN : substrate!Make(r, want, id, up)
  BY DEF substrate!Create, substrate!CreateFaults, substrate!Creatable
<1>2. CASE UNCHANGED objs
  BY <1>2 DEF substrate!TypeOK
<1> QED
  BY <1>1, <1>2, MakeEffect

LEMMA DeleteEffect ==
    ASSUME substrate!TypeOK, NEW r \in Resources,
           \/ substrate!Delete(r)
           \/ \E fault \in {"call", "reply"} : substrate!DeleteFaults(r, fault)
    PROVE  /\ substrate!TypeOK'
           /\ \A s \in Resources \ {r} : objs'[s] = objs[s]
           /\ objs'[r] \in {objs[r], NoObj}
  BY DEF substrate!TypeOK, substrate!Delete, substrate!DeleteFaults

(* The outside world makes nothing, and no object another one.              *)
LEMMA DriftEffect ==
    ASSUME substrate!TypeOK, NEW r \in Resources, NEW fault, substrate!Drift(r, fault)
    PROVE  /\ substrate!TypeOK'
           /\ \A s \in Resources :
                 substrate!Exists(s)' => substrate!Exists(s) /\ objs'[s].id = objs[s].id
<1>1. objs[r] \in substrate!Objects
  BY DEF substrate!Drift, substrate!Exists, substrate!TypeOK
<1>2. CASE objs' = [objs EXCEPT ![r] = NoObj]
  BY <1>2 DEF substrate!TypeOK, substrate!Exists
<1>3. CASE objs' = [objs EXCEPT ![r].up = FALSE]
  <2> DEFINE o == [objs[r] EXCEPT !.up = FALSE]
  <2>1. objs' = [objs EXCEPT ![r] = o]
    BY <1>3
  <2>2. o \in substrate!Objects /\ o.id = objs[r].id
    BY <1>1 DEF substrate!Objects
  <2> HIDE DEF o
  <2> QED
    BY <2>1, <2>2 DEF substrate!TypeOK, substrate!Exists, substrate!Drift
<1> QED
  BY <1>2, <1>3 DEF substrate!Drift
-------------------------------------------------------------------------------
(* One lemma per action.  A worker between two of its calls has changed     *)
(* nothing but its own job.                                                 *)
LEMMA LocalStep ==
    ASSUME IInv, NEW w \in Workers, job[w].at # "idle",
           UNCHANGED <<queue, items, objs, timers>>,
           UNCHANGED world \/ \E kind \in FaultKinds : Fault(kind),
           Moves(w), WorkerOK(w)'
    PROVE  IInv'
<1>1. /\ held[w] # NoKey /\ key(w) \in Resources
      /\ store!TypeOK /\ substrate!TypeOK /\ timers \subseteq Resources
      /\ faults \in 0 .. MaxFaults /\ writes \in 0 .. MaxWrites
      /\ \A r \in Resources \ Managed : ~substrate!Exists(r)
  BY InProcess
<1>2. faults' \in 0 .. MaxFaults /\ writes' \in 0 .. MaxWrites
  BY <1>1, FaultCounts, ReconcilerAssumption DEF world, ReconcilerAssumption
<1>3. store!TypeOK' /\ substrate!TypeOK'
  BY <1>1 DEF store!TypeOK, substrate!TypeOK
<1>4. substrate!Exists(key(w))' => key(w) \in Managed
  BY <1>1 DEF substrate!Exists, key, queue
<1>5. OnlyUnderKey(w)
  BY DEF OnlyUnderKey, Moves
<1> QED
  BY <1>1, <1>2, <1>3, <1>4, <1>5, WorkerStep DEF Moves

LEMMA FetchKeeps ==
    ASSUME IInv, NEW w \in Workers, Fetch(w)
    PROVE  IInv'
<1>1. /\ job[w].at # "idle" /\ UNCHANGED <<queue, items, objs, timers>>
      /\ UNCHANGED world \/ \E kind \in FaultKinds : Fault(kind)
  BY DEF Fetch, At, Fault
<1>2. /\ held[w] # NoKey /\ key(w) \in Resources /\ WorkerOK(w)
      /\ job \in [Workers -> Jobs] /\ job[w] \in Jobs
      /\ store!TypeOK /\ \A r \in Resources \ Managed : ~substrate!Exists(r)
  BY <1>1, InProcess
<1>3. Moves(w) /\ WorkerOK(w)'
  <2>1. CASE FinishNext(w, "ok") \/ FinishNext(w, "error")
    BY <1>1, <2>1, FinishOK DEF Outcomes, queue
  <2>2. ASSUME store!Has(key(w)),
               job' = [job EXCEPT ![w].res = Snapshot(items[key(w)]),
                                  ![w].at = Path(key(w), items[key(w)])]
        PROVE  Moves(w) /\ WorkerOK(w)'
    <3> DEFINE res == Snapshot(items[key(w)])  at == Path(key(w), items[key(w)])
               j == [job[w] EXCEPT !.res = res, !.at = at]
    <3>1. items[key(w)] \in store!Items
      BY <1>2, <2>2 DEF store!TypeOK, store!Has
    <3>2. /\ res \in Snapshots
          /\ res.createdAt = items[key(w)].createdAt
          /\ res.marked = items[key(w)].marked
      BY <3>1 DEF store!Items, Snapshots, Snapshot
    <3>3. /\ at \in Steps \ {"idle", "fetch", "requeue", "done"}
          /\ at \in {"resolve", "delObserve", "remove"}
          /\ at # "resolve" => items[key(w)].marked
          /\ at \in ProviderSteps => key(w) \in Managed
          /\ at = "remove" => key(w) \notin Managed
      BY <3>1 DEF Path, Steps, ProviderSteps
    <3> HIDE DEF res, at
    <3>4. j \in Jobs /\ j.res = res /\ j.at = at /\ j.vals = job[w].vals
      BY <1>2, <3>2, <3>3 DEF Jobs
    <3>5. job' = [job EXCEPT ![w] = j]
      BY <1>2, <2>2 DEF res, at
    <3> HIDE DEF j
    <3>6. job'[w] = j /\ Moves(w)
      BY <1>2, <3>4, <3>5 DEF Moves
    <3>7. Len(j.vals) <= Len(j.res.refs)
      BY <1>2, <3>2, <3>4 DEF WorkerOK, Working, Fetch, At, Snapshots
    <3> QED
      BY <1>1, <1>2, <2>2, <3>2, <3>3, <3>4, <3>6, <3>7
         DEF WorkerOK, Working, At, key, queue, store!Has, store!Marked,
             substrate!Exists
  <2> QED
    BY <2>1, <2>2 DEF Fetch
<1> QED
  BY <1>1, <1>3, LocalStep

(* What a reference gives, when it gives something, is an identity.         *)
LEMMA LookupType ==
    ASSUME store!TypeOK, NEW ref \in store!References, Lookup(ref) # NoId
    PROVE  Lookup(ref) \in Ids
<1>1. store!IsReady(ref.target) /\ Lookup(ref) = items[ref.target].status.observed
  BY DEF Lookup
<1>2. items[ref.target] \in store!Items
  BY <1>1 DEF store!IsReady, store!Has, store!TypeOK, store!References
<1> QED
  BY <1>1, <1>2 DEF store!Items, store!Statuses

LEMMA ResolveKeeps ==
    ASSUME IInv, NEW w \in Workers, Resolve(w)
    PROVE  IInv'
<1>1. /\ job[w].at = "resolve" /\ Working(w) /\ ~AllResolved(w)
      /\ UNCHANGED <<queue, items, objs, timers>>
      /\ UNCHANGED world \/ \E kind \in FaultKinds : Fault(kind)
  BY DEF Resolve, At, Fault, Working
<1>2. /\ WorkerOK(w) /\ job \in [Workers -> Jobs] /\ job[w] \in Jobs
      /\ store!TypeOK
  BY <1>1, InProcess
<1>3. /\ job[w].res.refs \in Seq(store!References) /\ job[w].vals \in Seq(Ids)
      /\ Len(job[w].vals) + 1 \in 1 .. Len(job[w].res.refs)
  BY <1>1, <1>2 DEF WorkerOK, Snapshots, Jobs, AllResolved
<1>4. Moves(w) /\ WorkerOK(w)'
  <2>1. CASE \/ ReportNext(w, "Pending", NoId, "requeue")
             \/ ReportNext(w, "Error", NoId, "error")
    BY <1>1, <2>1, ReportOK DEF Outcomes, store!Phases, queue
  <2>2. ASSUME Lookup(NextRef(w)) # NoId,
               job' = [job EXCEPT ![w].vals = Append(@, Lookup(NextRef(w)))]
        PROVE  Moves(w) /\ WorkerOK(w)'
    <3> DEFINE vals == Append(job[w].vals, Lookup(NextRef(w)))
               j == [job[w] EXCEPT !.vals = vals]
    <3>1. NextRef(w) \in store!References
      BY <1>3 DEF NextRef
    <3>2. Lookup(NextRef(w)) \in Ids
      BY <1>2, <2>2, <3>1, LookupType
    <3>3. vals \in Seq(Ids) /\ Len(vals) = Len(job[w].vals) + 1
      BY <1>3, <3>2
    <3>4. job' = [job EXCEPT ![w] = j]
      BY <1>2, <2>2
    <3> HIDE DEF vals
    <3>5. j \in Jobs /\ j.at = "resolve" /\ j.res = job[w].res /\ j.vals = vals
      BY <1>1, <1>2, <3>3 DEF Jobs
    <3> HIDE DEF j
    <3>6. job'[w] = j /\ Moves(w)
      BY <1>2, <3>4, <3>5 DEF Moves
    <3>7. Len(j.vals) <= Len(j.res.refs)
      BY <1>3, <3>3, <3>5
    <3> QED
      BY <1>1, <1>2, <3>5, <3>6, <3>7
         DEF WorkerOK, Working, At, ProviderSteps, key, queue, store!Has,
             store!Marked
  <2> QED
    BY <2>1, <2>2 DEF Resolve
<1> QED
  BY <1>1, <1>4, LocalStep

LEMMA NoProviderKeeps ==
    ASSUME IInv, NEW w \in Workers, NoProvider(w)
    PROVE  IInv'
<1>1. /\ job[w].at = "resolve" /\ Working(w)
      /\ UNCHANGED <<queue, items, objs, timers, world>>
  BY DEF NoProvider, At, Working
<1>2. Moves(w) /\ WorkerOK(w)'
  BY <1>1, ReportOK DEF NoProvider, Outcomes, store!Phases, queue
<1> QED
  BY <1>1, <1>2, LocalStep

(* What converge reports when all went well: Ready only of the object seen.  *)
LEMMA VerdictOK ==
    ASSUME IInv, NEW w \in Workers, Working(w), UNCHANGED <<held, items>>, Verdict(w)
    PROVE  /\ Moves(w) /\ WorkerOK(w)' /\ job'[w].at = "report"
           /\ job'[w].status.phase = "Ready" =>
                 substrate!Exists(key(w)) /\ job'[w].status.observed = objs[key(w)].id
<1>1. job[w].at # "idle"
  BY DEF Working
<1>2. substrate!TypeOK /\ key(w) \in Resources
  BY <1>1, InProcess
<1>3. CASE ~substrate!Exists(key(w))
  BY <1>3, ReportOK DEF Verdict, Outcomes, store!Phases
<1>4. CASE substrate!Exists(key(w))
  <2>1. objs[key(w)].id \in Ids
    BY <1>2, <1>4 DEF substrate!TypeOK, substrate!Exists, substrate!Objects
  <2>2. PICK phase \in {"Ready", "Creating"}, observed \in Ids :
               observed = objs[key(w)].id /\ ReportNext(w, phase, observed, "ok")
    BY <1>4, <2>1 DEF Verdict, ReportNext
  <2>3. phase \in store!Phases /\ "ok" \in Outcomes /\ observed \in Ids \cup {NoId}
    BY DEF store!Phases, Outcomes
  <2>4. /\ Moves(w) /\ WorkerOK(w)' /\ job'[w].at = "report"
        /\ job'[w].status.observed = observed
    BY <2>2, <2>3, ReportOK
  <2> QED
    BY <1>4, <2>2, <2>4
<1> QED
  BY <1>3, <1>4

LEMMA ObserveKeeps ==
    ASSUME IInv, NEW w \in Workers, Observe(w)
    PROVE  IInv'
<1>1. /\ job[w].at = "resolve" /\ Working(w) /\ key(w) \in Managed
      /\ UNCHANGED <<queue, items, objs, timers>>
      /\ UNCHANGED world \/ \E kind \in FaultKinds : Fault(kind)
  BY DEF Observe, At, Fault, Working
<1>2. Moves(w) /\ WorkerOK(w)'
  <2>1. CASE Goto(w, "create") \/ Goto(w, "teardown")
    BY <1>1, <2>1, GotoOK DEF Steps, queue
  <2>2. CASE Verdict(w)
    BY <1>1, <2>2, VerdictOK DEF queue
  <2>3. CASE ReportNext(w, "Error", NoId, "error")
    BY <1>1, <2>3, ReportOK DEF Outcomes, store!Phases, queue
  <2> QED
    BY <2>1, <2>2, <2>3 DEF Observe
<1> QED
  BY <1>1, <1>2, LocalStep

LEMMA ReobserveKeeps ==
    ASSUME IInv, NEW w \in Workers, Reobserve(w)
    PROVE  IInv'
<1>1. /\ job[w].at = "reobserve" /\ Working(w)
      /\ UNCHANGED <<queue, items, objs, timers>>
      /\ UNCHANGED world \/ \E kind \in FaultKinds : Fault(kind)
  BY DEF Reobserve, At, Fault, Working
<1>2. Moves(w) /\ WorkerOK(w)'
  <2>1. CASE Verdict(w)
    BY <1>1, <2>1, VerdictOK DEF queue
  <2>2. CASE ReportNext(w, "Creating", NoId, "error")
    BY <1>1, <2>2, ReportOK DEF Outcomes, store!Phases, queue
  <2> QED
    BY <2>1, <2>2 DEF Reobserve
<1> QED
  BY <1>1, <1>2, LocalStep

LEMMA DelObserveKeeps ==
    ASSUME IInv, NEW w \in Workers, DelObserve(w)
    PROVE  IInv'
<1>1. /\ job[w].at = "delObserve" /\ Working(w)
      /\ UNCHANGED <<queue, items, objs, timers>>
      /\ UNCHANGED world \/ \E kind \in FaultKinds : Fault(kind)
  BY DEF DelObserve, At, Fault, Working
<1>2. key(w) \in Managed /\ job[w].res.marked
  BY <1>1, InProcess DEF WorkerOK, ProviderSteps
<1>3. Moves(w) /\ WorkerOK(w)'
  <2>1. CASE substrate!Exists(key(w)) /\ Goto(w, "delDelete")
    BY <1>1, <1>2, <2>1, GotoOK DEF Steps, queue
  <2>2. CASE ~substrate!Exists(key(w)) /\ Goto(w, "remove")
    BY <1>1, <1>2, <2>2, GotoOK DEF Steps, queue, key, substrate!Exists, ProviderSteps
  <2>3. CASE ReportNext(w, "Deleting", NoId, "error")
    BY <1>1, <2>3, ReportOK DEF Outcomes, store!Phases, queue
  <2> QED
    BY <2>1, <2>2, <2>3 DEF DelObserve
<1> QED
  BY <1>1, <1>3, LocalStep

(* A call of a provider for the worker's own key, whatever comes of it.      *)
LEMMA ProviderCall ==
    ASSUME IInv, NEW w \in Workers, job[w].at \in ProviderSteps,
           UNCHANGED <<queue, items, timers>>,
           UNCHANGED world \/ \E kind \in FaultKinds : Fault(kind),
           substrate!TypeOK', \A r \in Resources \ {key(w)} : objs'[r] = objs[r],
           Moves(w), WorkerOK(w)'
    PROVE  IInv'
<1>1. job[w].at # "idle"
  BY DEF ProviderSteps
<1>2. /\ held[w] # NoKey /\ store!TypeOK /\ timers \subseteq Resources
      /\ faults \in 0 .. MaxFaults /\ writes \in 0 .. MaxWrites
      /\ key(w) \in Managed
  BY <1>1, InProcess DEF WorkerOK
<1>3. faults' \in 0 .. MaxFaults /\ writes' \in 0 .. MaxWrites
  BY <1>2, FaultCounts, ReconcilerAssumption DEF world, ReconcilerAssumption
<1>4. store!TypeOK' /\ timers' \subseteq Resources
  BY <1>2 DEF store!TypeOK
<1>5. key(w)' \in Managed
  BY <1>2 DEF key, queue
<1>6. OnlyUnderKey(w)
  BY DEF OnlyUnderKey, Moves
<1> QED
  BY <1>2, <1>3, <1>4, <1>5, <1>6, WorkerStep DEF Moves

(* What the worker asks a provider for.                                     *)
LEMMA WantType ==
    ASSUME IInv, NEW w \in Workers, Working(w)
    PROVE  Want(job[w]) \in substrate!Wanted
<1>1. job[w].res \in Snapshots /\ job[w].vals \in Seq(Ids)
  BY InProcess DEF Working, WorkerOK, Jobs
<1> QED
  BY <1>1 DEF Want, substrate!Wanted, Snapshots

(* Create is about the worker's own key, however it fails.                  *)
LEMMA CreateCall ==
    ASSUME IInv, NEW w \in Workers, Create(w)
    PROVE  /\ job[w].at = "create" /\ Working(w) /\ UNCHANGED <<queue, items, timers>>
           /\ UNCHANGED world \/ \E kind \in FaultKinds : Fault(kind)
           /\ Goto(w, "reobserve") \/ ReportNext(w, "Error", NoId, "error")
           /\ substrate!TypeOK'
           /\ \A r \in Resources \ {key(w)} : objs'[r] = objs[r]
<1>1. job[w].at = "create" /\ Working(w) /\ UNCHANGED <<queue, items, timers>>
  BY DEF Create, At, Working
<1>2. /\ key(w) \in Resources /\ substrate!TypeOK
      /\ Want(job[w]) \in substrate!Wanted
  BY <1>1, InProcess, WantType
<1> DEFINE k == key(w)  want == Want(job[w])  needs == Needs(job[w])
<1>3. PICK id \in NewIds :
         \/ /\ substrate!Create(k, want, needs, id)
            /\ Goto(w, "reobserve") \/ ReportNext(w, "Error", NoId, "error")
            /\ UNCHANGED world
         \/ \E fault \in {"call", "reply", "start"} :
               /\ Fault(fault)
               /\ substrate!CreateFaults(k, want, needs, id, fault)
               /\ ReportNext(w, "Error", NoId, "error")
  BY DEF Create
<1>4. id \in Ids
  BY DEF NewIds
<1>5. UNCHANGED world \/ \E kind \in FaultKinds : Fault(kind)
  BY <1>3 DEF Fault
<1>6. substrate!TypeOK' /\ \A r \in Resources \ {k} : objs'[r] = objs[r]
  BY <1>2, <1>3, <1>4, CreateEffect
<1> QED
  BY <1>1, <1>3, <1>5, <1>6

LEMMA CreateKeeps ==
    ASSUME IInv, NEW w \in Workers, Create(w)
    PROVE  IInv'
<1>1. job[w].at \in ProviderSteps /\ key(w) \in Managed
  BY CreateCall, InProcess DEF WorkerOK, ProviderSteps
<1>2. Moves(w) /\ WorkerOK(w)'
  <2>1. CASE Goto(w, "reobserve")
    BY <1>1, <2>1, CreateCall, GotoOK DEF Steps, queue
  <2>2. CASE ReportNext(w, "Error", NoId, "error")
    BY <2>2, CreateCall, ReportOK DEF Outcomes, store!Phases, queue
  <2> QED
    BY <2>1, <2>2, CreateCall
<1> QED
  BY <1>1, <1>2, CreateCall, ProviderCall

(* The object goes or stays; nothing else changes.                          *)
LEMMA TeardownKeeps ==
    ASSUME IInv, NEW w \in Workers, Teardown(w)
    PROVE  IInv'
<1>1. /\ job[w].at = "teardown" /\ Working(w) /\ job[w].at \in ProviderSteps
      /\ UNCHANGED <<queue, items, timers>>
      /\ UNCHANGED world \/ \E kind \in FaultKinds : Fault(kind)
  BY DEF Teardown, At, Working, ProviderSteps, Fault
<1>2. key(w) \in Resources /\ substrate!TypeOK /\ key(w) \in Managed
  BY <1>1, InProcess DEF WorkerOK
<1>3. Moves(w) /\ WorkerOK(w)'
  <2>1. CASE Goto(w, "create")
    BY <1>1, <1>2, <2>1, GotoOK DEF Steps, queue
  <2>2. CASE ReportNext(w, "Error", NoId, "error")
    BY <1>1, <2>2, ReportOK DEF Outcomes, store!Phases, queue
  <2> QED
    BY <2>1, <2>2 DEF Teardown
<1>4. substrate!TypeOK' /\ \A r \in Resources \ {key(w)} : objs'[r] = objs[r]
  BY <1>2, DeleteEffect DEF Teardown
<1> QED
  BY <1>1, <1>3, <1>4, ProviderCall

LEMMA DelDeleteKeeps ==
    ASSUME IInv, NEW w \in Workers, DelDelete(w)
    PROVE  IInv'
<1>1. /\ job[w].at = "delDelete" /\ Working(w) /\ job[w].at \in ProviderSteps
      /\ UNCHANGED <<queue, items, timers>>
      /\ UNCHANGED world \/ \E kind \in FaultKinds : Fault(kind)
  BY DEF DelDelete, At, Working, ProviderSteps, Fault
<1>2. key(w) \in Resources /\ substrate!TypeOK
  BY <1>1, InProcess
<1>3. Moves(w) /\ WorkerOK(w)'
  <2>1. \E out \in Outcomes : ReportNext(w, "Deleting", NoId, out)
    BY DEF DelDelete, Outcomes
  <2> QED
    BY <1>1, <2>1, ReportOK DEF store!Phases, queue
<1>4. substrate!TypeOK' /\ \A r \in Resources \ {key(w)} : objs'[r] = objs[r]
  BY <1>2, DeleteEffect DEF DelDelete
<1> QED
  BY <1>1, <1>3, <1>4, ProviderCall

(* The last call of a worker to the Store, for its own key.                 *)
LEMMA StoreCall ==
    ASSUME IInv, NEW w \in Workers, job[w].at # "idle",
           UNCHANGED <<queue, objs, timers>>,
           UNCHANGED world \/ \E kind \in FaultKinds : Fault(kind),
           store!TypeOK', \A r \in Resources \ {key(w)} : items'[r] = items[r],
           Moves(w), WorkerOK(w)'
    PROVE  IInv'
<1>1. /\ held[w] # NoKey /\ key(w) \in Resources
      /\ substrate!TypeOK /\ timers \subseteq Resources
      /\ faults \in 0 .. MaxFaults /\ writes \in 0 .. MaxWrites
      /\ \A r \in Resources \ Managed : ~substrate!Exists(r)
  BY InProcess
<1>2. faults' \in 0 .. MaxFaults /\ writes' \in 0 .. MaxWrites
  BY <1>1, FaultCounts, ReconcilerAssumption DEF world, ReconcilerAssumption
<1>3. substrate!TypeOK' /\ timers' \subseteq Resources
  BY <1>1 DEF substrate!TypeOK
<1>4. substrate!Exists(key(w))' => key(w) \in Managed
  BY <1>1 DEF substrate!Exists, key, queue
<1>5. OnlyUnderKey(w)
  BY DEF OnlyUnderKey, Moves
<1> QED
  BY <1>1, <1>2, <1>3, <1>4, <1>5, WorkerStep DEF Moves

LEMMA ReportKeeps ==
    ASSUME IInv, NEW w \in Workers, Report(w)
    PROVE  IInv'
<1>1. /\ job[w].at = "report" /\ job[w].at # "idle" /\ UNCHANGED <<queue, objs, timers>>
      /\ UNCHANGED world \/ \E kind \in FaultKinds : Fault(kind)
  BY DEF Report, At, Fault
<1>2. /\ key(w) \in Resources /\ store!TypeOK /\ job[w] \in Jobs
  BY <1>1, InProcess
<1>3. job[w].out \in Outcomes /\ job[w].status \in store!Statuses
  BY <1>2 DEF Jobs
<1>4. Moves(w) /\ WorkerOK(w)'
  <2>1. PICK out \in Outcomes : FinishNext(w, out)
    BY <1>3 DEF Report, FinishNext
  <2> QED
    BY <1>1, <2>1, FinishOK DEF queue
<1>5. store!TypeOK' /\ \A r \in Resources \ {key(w)} : items'[r] = items[r]
  <2>1. CASE UNCHANGED items
    BY <1>2, <2>1 DEF store!TypeOK
  <2>2. CASE store!UpdateStatus(key(w), job[w].status)
    BY <1>2, <1>3, <2>2, UpdateStatusEffect
  <2> QED
    BY <2>1, <2>2 DEF Report
<1> QED
  BY <1>1, <1>4, <1>5, StoreCall

LEMMA RemoveFromStoreKeeps ==
    ASSUME IInv, NEW w \in Workers, RemoveFromStore(w)
    PROVE  IInv'
<1>1. /\ job[w].at # "idle" /\ UNCHANGED <<queue, objs, timers>>
      /\ UNCHANGED world \/ \E kind \in FaultKinds : Fault(kind)
  BY DEF RemoveFromStore, At, Fault
<1>2. key(w) \in Resources /\ store!TypeOK
  BY <1>1, InProcess
<1>4. Moves(w) /\ WorkerOK(w)'
  BY <1>1, FinishOK DEF RemoveFromStore, Outcomes, queue
<1>5. store!TypeOK' /\ \A r \in Resources \ {key(w)} : items'[r] = items[r]
  BY <1>2 DEF RemoveFromStore, store!Delete, store!TypeOK
<1> QED
  BY <1>1, <1>4, <1>5, StoreCall

(* The two calls to the queue.                                              *)
LEMMA RequeueKeeps ==
    ASSUME IInv, NEW w \in Workers, Requeue(w)
    PROVE  IInv'
<1>1. /\ job[w].at # "idle" /\ UNCHANGED <<queue, items, objs, world>>
      /\ FinishNext(w, "ok") /\ timers' = timers \cup {key(w)}
  BY DEF Requeue, At
<1>2. /\ held[w] # NoKey /\ key(w) \in Resources /\ timers \subseteq Resources
      /\ store!TypeOK /\ substrate!TypeOK
      /\ faults \in 0 .. MaxFaults /\ writes \in 0 .. MaxWrites
      /\ \A r \in Resources \ Managed : ~substrate!Exists(r)
  BY <1>1, InProcess
<1>3. Moves(w) /\ WorkerOK(w)'
  BY <1>1, FinishOK DEF Outcomes, queue
<1>4. store!TypeOK' /\ substrate!TypeOK' /\ timers' \subseteq Resources
  BY <1>1, <1>2 DEF store!TypeOK, substrate!TypeOK
<1>5. faults' \in 0 .. MaxFaults /\ writes' \in 0 .. MaxWrites
  BY <1>1, <1>2 DEF world
<1>6. substrate!Exists(key(w))' => key(w) \in Managed
  <2>1. key(w)' = key(w)
    BY <1>1 DEF queue, key
  <2> QED
    BY <1>1, <1>2, <2>1 DEF substrate!Exists
<1>7. OnlyUnderKey(w)
  BY <1>1, <1>3 DEF OnlyUnderKey, Moves
<1> QED
  BY <1>1, <1>2, <1>3, <1>4, <1>5, <1>6, <1>7, WorkerStep DEF Moves

LEMMA DoneKeeps ==
    ASSUME IInv, NEW w \in Workers, Done(w)
    PROVE  IInv'
<1>1. /\ job[w].at # "idle" /\ UNCHANGED <<items, objs, timers, world>> /\ Q!Release(w)
      /\ job' = [job EXCEPT ![w] = Idle]
  BY DEF Done, At
<1>2. SharedOK /\ \A v \in Workers : WorkerOK(v)
  BY ByWorker
<1>3. key(w) \in Resources
  BY <1>1, InProcess
<1>4. /\ held' = [held EXCEPT ![w] = NoKey] /\ UNCHANGED <<pending, closed>>
      /\ held \in [Workers -> Resources \cup {NoKey}]
  BY <1>1, <1>2 DEF Q!Release, SharedOK, Q!TypeOK
<1>5. Idle \in Jobs /\ Idle.at = "idle" /\ Idle.vals = <<>>
      /\ Len(Idle.vals) <= Len(Idle.res.refs)
  BY IdleOK
<1>6. job' \in [Workers -> Jobs]
  BY <1>1, <1>2, <1>5 DEF SharedOK
<1>7. SharedOK'
  BY <1>1, <1>2, <1>3, <1>4, <1>6
     DEF SharedOK, Exclusive, Q!TypeOK, store!TypeOK, substrate!TypeOK,
         substrate!Exists, world
<1>8. WorkerOK(w)'
  <2>1. job'[w] = Idle /\ held'[w] = NoKey
    BY <1>1, <1>2, <1>4 DEF SharedOK
  <2> QED
    BY <1>5, <2>1 DEF WorkerOK, Working, At, ProviderSteps
<1>9. ASSUME NEW v \in Workers, v # w
      PROVE  WorkerOK(v)'
  <2>1. job'[v] = job[v] /\ held'[v] = held[v]
    BY <1>1, <1>2, <1>4, <1>9 DEF SharedOK
  <2>2. Steady(held[v])
    BY <1>1, <2>1 DEF Steady, store!Has, store!Marked, substrate!Exists
  <2> QED
    BY <1>2, <2>1, <2>2, WorkerKept
<1> QED
  BY <1>7, <1>8, <1>9, ByWorkerNext

LEMMA TakeKeeps ==
    ASSUME IInv, NEW w \in Workers, NEW k \in Resources, Take(w, k)
    PROVE  IInv'
<1>1. SharedOK /\ \A v \in Workers : WorkerOK(v)
  BY ByWorker
<1>2. /\ held[w] = NoKey /\ k \notin {held[v] : v \in Workers} \ {NoKey}
      /\ pending' = pending \ {k} /\ UNCHANGED closed
      /\ held' = [held EXCEPT ![w] = k]
      /\ job' = [job EXCEPT ![w].at = "fetch"]
      /\ UNCHANGED <<items, objs, timers, world>>
  BY DEF Take, Q!Take, Q!InFlight, Goto
<1>3. /\ held \in [Workers -> Resources \cup {NoKey}]
      /\ job \in [Workers -> Jobs] /\ job[w] \in Jobs
      /\ job[w].at = "idle" /\ job[w].vals = <<>>
      /\ k # NoKey
  BY <1>1, <1>2, ReconcilerAssumption
     DEF SharedOK, Q!TypeOK, WorkerOK, Working, ReconcilerAssumption
<1> DEFINE j == [job[w] EXCEPT !.at = "fetch"]
<1>4. j \in Jobs /\ j.at = "fetch" /\ j.vals = <<>> /\ j.res = job[w].res
  BY <1>3 DEF Jobs, Steps
<1>5. job' = [job EXCEPT ![w] = j]
  BY <1>2, <1>3
<1> HIDE DEF j
<1>6. job' \in [Workers -> Jobs] /\ job'[w] = j /\ held'[w] = k
  BY <1>2, <1>3, <1>4, <1>5
<1>7. Exclusive'
  BY <1>1, <1>2, <1>3 DEF SharedOK, Exclusive
<1>8. SharedOK'
  BY <1>1, <1>2, <1>3, <1>6, <1>7
     DEF SharedOK, Q!TypeOK, store!TypeOK, substrate!TypeOK, substrate!Exists, world
<1>9. WorkerOK(w)'
  BY <1>1, <1>3, <1>4, <1>6 DEF WorkerOK, Working, At, ProviderSteps
<1>10. ASSUME NEW v \in Workers, v # w
       PROVE  WorkerOK(v)'
  <2>1. job'[v] = job[v] /\ held'[v] = held[v]
    BY <1>2, <1>3, <1>5, <1>10
  <2>2. Steady(held[v])
    BY <1>2, <2>1 DEF Steady, store!Has, store!Marked, substrate!Exists
  <2> QED
    BY <1>1, <2>1, <2>2, WorkerKept
<1> QED
  BY <1>8, <1>9, <1>10, ByWorkerNext

(* Everybody else: the resync loop, the timers, clients, drift, the end.     *)
LEMMA OutsideStep ==
    ASSUME IInv, UNCHANGED <<held, job>>,
           pending' \subseteq Resources, closed' \in BOOLEAN,
           timers' \subseteq Resources, faults' \in 0 .. MaxFaults,
           writes' \in 0 .. MaxWrites, store!TypeOK', substrate!TypeOK',
           \A r \in Resources : Steady(r)
    PROVE  IInv'
<1>1. SharedOK /\ \A v \in Workers : WorkerOK(v)
  BY ByWorker
<1>2. ASSUME NEW r \in Resources \ Managed
      PROVE  ~substrate!Exists(r)'
  BY <1>1 DEF SharedOK, Steady
<1>3. SharedOK'
  BY <1>1, <1>2 DEF SharedOK, Exclusive, Q!TypeOK
<1>4. ASSUME NEW v \in Workers
      PROVE  WorkerOK(v)'
  <2>1. held'[v] = held[v] /\ job'[v] = job[v] /\ held[v] \in Resources \cup {NoKey}
    BY <1>1 DEF SharedOK, Q!TypeOK
  <2>2. ASSUME NEW r \in Resources, r = held[v]
        PROVE  Steady(held[v])
    BY <2>1, <2>2 DEF Steady, store!Has, store!Marked, substrate!Exists
  <2> QED
    BY <1>1, <2>1, <2>2, WorkerKept
<1> QED
  BY <1>3, <1>4, ByWorkerNext

LEMMA Types ==
    ASSUME IInv
    PROVE  /\ pending \subseteq Resources /\ closed \in BOOLEAN
           /\ held \in [Workers -> Resources \cup {NoKey}]
           /\ store!TypeOK /\ substrate!TypeOK /\ timers \subseteq Resources
           /\ faults \in 0 .. MaxFaults /\ writes \in 0 .. MaxWrites
  BY DEF IInv, TypeOK, Q!TypeOK

LEMMA SteadyUnchanged ==
    ASSUME UNCHANGED <<items, objs>>
    PROVE  \A r \in Resources : Steady(r)
  BY DEF Steady, store!Has, store!Marked, substrate!Exists

LEMMA EnqueueKeeps ==
    ASSUME IInv, NEW k \in Resources, enqueue(k), UNCHANGED <<items, objs, job, world>>,
           timers' \subseteq timers
    PROVE  IInv'
<1>1. /\ pending' \subseteq Resources /\ UNCHANGED <<held, closed>>
  BY Types DEF enqueue, queue, Q!Add
<1>2. store!TypeOK' /\ substrate!TypeOK'
  BY Types DEF store!TypeOK, substrate!TypeOK
<1> QED
  BY <1>1, <1>2, Types, SteadyUnchanged, OutsideStep DEF world

LEMMA WriteKeeps ==
    ASSUME IInv, Write, NEW r \in Resources,
           \/ store!MarkForDeletion(r)
           \/ \E m \in Offers[r] : store!Put(r, m, writes)
    PROVE  IInv'
<1>1. /\ UNCHANGED <<pending, held, closed, objs, job, timers, faults>>
      /\ writes' \in 0 .. MaxWrites /\ writes \in Nat
  BY Types, ReconcilerAssumption DEF Write, queue, ReconcilerAssumption
<1>2. Offers[r] \subseteq store!Manifests
  BY ReconcilerAssumption DEF ReconcilerAssumption
<1>3. store!TypeOK' /\ \A s \in Resources : Steady(s)
  BY <1>1, <1>2, Types, MarkEffect, PutEffect
<1>4. substrate!TypeOK'
  BY <1>1, Types DEF substrate!TypeOK
<1> QED
  BY <1>1, <1>3, <1>4, Types, OutsideStep

LEMMA DriftKeeps ==
    ASSUME IInv, NEW r \in Resources, Drift(r)
    PROVE  IInv'
<1>1. UNCHANGED <<pending, held, closed, items, job, timers>>
  BY DEF Drift, queue
<1>2. PICK fault : Fault(fault) /\ substrate!Drift(r, fault)
  BY DEF Drift
<1>3. faults' \in 0 .. MaxFaults /\ writes' \in 0 .. MaxWrites
  BY <1>2, Types, FaultCounts, ReconcilerAssumption DEF ReconcilerAssumption
<1>4. substrate!TypeOK' /\ \A s \in Resources : substrate!Exists(s)' => substrate!Exists(s)
  BY <1>2, Types, DriftEffect
<1>5. \A s \in Resources : Steady(s)
  BY <1>1, <1>4 DEF Steady, store!Has, store!Marked
<1>6. store!TypeOK'
  BY <1>1, Types DEF store!TypeOK
<1> QED
  BY <1>1, <1>3, <1>4, <1>5, <1>6, Types, OutsideStep

LEMMA CancelKeeps ==
    ASSUME IInv, Cancel
    PROVE  IInv'
<1>1. closed' \in BOOLEAN /\ UNCHANGED <<pending, held, items, objs, job, timers, world>>
  BY DEF Cancel, Q!Close
<1>2. store!TypeOK' /\ substrate!TypeOK'
  BY <1>1, Types DEF store!TypeOK, substrate!TypeOK
<1> QED
  BY <1>1, <1>2, Types, SteadyUnchanged, OutsideStep DEF world

(* Init and Restart: an idle pool over an empty Store.                      *)
LEMMA InitHolds == Init => IInv
<1> SUFFICES ASSUME Init PROVE IInv
  OBVIOUS
<1> USE DEF Init
<1>1. store!TypeOK /\ substrate!TypeOK /\ Q!TypeOK
  BY DEF store!Init, store!TypeOK, substrate!Init, substrate!TypeOK, Q!Init, Q!TypeOK
<1>2. job \in [Workers -> Jobs]
  BY IdleOK
<1>3. \A r \in Resources : ~substrate!Exists(r)
  BY DEF substrate!Init, substrate!Exists
<1>4. Exclusive
  BY DEF Exclusive, Q!Init
<1>5. SharedOK
  BY <1>1, <1>2, <1>3, <1>4, ReconcilerAssumption DEF SharedOK, ReconcilerAssumption
<1>6. ASSUME NEW w \in Workers
      PROVE  WorkerOK(w)
  <2>1. job[w] = Idle /\ held[w] = NoKey
    BY DEF Q!Init
  <2> QED
    BY <2>1, IdleOK DEF WorkerOK, Working, At, ProviderSteps
<1> QED
  BY <1>5, <1>6, ByWorker

LEMMA RestartKeeps ==
    ASSUME IInv, Restart
    PROVE  IInv'
<1> USE DEF Restart
<1>1. /\ pending' = {} /\ held' = [w \in Workers |-> NoKey] /\ closed' = FALSE
      /\ items' = [r \in Resources |-> Absent] /\ UNCHANGED objs
      /\ job' = [w \in Workers |-> Idle] /\ timers' = {}
      /\ faults' \in 0 .. MaxFaults /\ writes' \in 0 .. MaxWrites
  BY Types, FaultCounts, ReconcilerAssumption DEF ReconcilerAssumption
<1>2. store!TypeOK' /\ substrate!TypeOK' /\ Q!TypeOK'
  BY <1>1, Types DEF store!TypeOK, substrate!TypeOK, Q!TypeOK
<1>3. job' \in [Workers -> Jobs]
  BY <1>1, IdleOK
<1>4. \A r \in Resources \ Managed : ~substrate!Exists(r)'
  BY <1>1 DEF IInv, OnlyManaged, substrate!Exists
<1>5. Exclusive'
  BY <1>1 DEF Exclusive
<1>6. SharedOK'
  BY <1>1, <1>2, <1>3, <1>4, <1>5 DEF SharedOK
<1>7. ASSUME NEW w \in Workers
      PROVE  WorkerOK(w)'
  <2>1. job'[w] = Idle /\ held'[w] = NoKey
    BY <1>1
  <2> QED
    BY <2>1, IdleOK DEF WorkerOK, Working, At, ProviderSteps
<1> QED
  BY <1>6, <1>7, ByWorkerNext

LEMMA NextKeeps == IInv /\ [Next]_vars => IInv'
<1> SUFFICES ASSUME IInv, [Next]_vars PROVE IInv'
  OBVIOUS
<1>1. ASSUME NEW w \in Workers, Step(w)
      PROVE  IInv'
  BY <1>1, FetchKeeps, ResolveKeeps, NoProviderKeeps, ObserveKeeps, CreateKeeps,
     TeardownKeeps, ReobserveKeeps, ReportKeeps, DelObserveKeeps, DelDeleteKeeps,
     RemoveFromStoreKeeps, RequeueKeeps, DoneKeeps DEF Step
<1>2. ASSUME NEW w \in Workers, NEW k \in Resources, Take(w, k)
      PROVE  IInv'
  BY <1>2, TakeKeeps
<1>3. ASSUME NEW k \in Resources, Resync(k) \/ Fire(k)
      PROVE  IInv'
  BY <1>3, EnqueueKeeps DEF Resync, Fire
<1>4. ASSUME NEW r \in Resources,
             ClientDelete(r) \/ \E m \in Offers[r] : ClientPut(r, m)
      PROVE  IInv'
  BY <1>4, WriteKeeps DEF ClientDelete, ClientPut
<1>5. CASE UNCHANGED vars
  <2>1. store!TypeOK' /\ substrate!TypeOK'
    BY <1>5, Types DEF vars, store!TypeOK, substrate!TypeOK
  <2> QED
    BY <1>5, <2>1, Types, SteadyUnchanged, OutsideStep DEF vars, queue, world
<1> QED
  BY <1>1, <1>2, <1>3, <1>4, <1>5, DriftKeeps, CancelKeeps, RestartKeeps DEF Next

(* IInv holds whatever fails, crashes included.                             *)
THEOREM Invariance == SafetySpec => []IInv
  BY InitHolds, NextKeeps, PTL DEF SafetySpec

(* Types: among them that a worker is in process exactly while it has a key. *)
THEOREM TypeCorrect == SafetySpec => []TypeOK
<1>1. IInv => TypeOK
  BY DEF IInv
<1> QED
  BY <1>1, Invariance, PTL

(* A worker's copy and the Store speak of the same incarnation.              *)
THEOREM CopiesAreCurrent == SafetySpec => []SnapshotCurrent
<1>1. IInv => SnapshotCurrent
  BY DEF IInv
<1> QED
  BY <1>1, Invariance, PTL
-------------------------------------------------------------------------------
(* Who makes objects, and who takes resources out of the Store.             *)

LEMMA OnlyCreateMakes ==
    ASSUME IInv, [Next]_vars, NEW r \in Resources,
           ~substrate!Exists(r), substrate!Exists(r)'
    PROVE  \E w \in Workers : Create(w) /\ key(w) = r
<1> SUFFICES ASSUME \A w \in Workers : Create(w) => key(w) # r
             PROVE  FALSE
  OBVIOUS
<1>1. objs'[r] # objs[r] /\ objs'[r] # NoObj
  BY DEF substrate!Exists
<1>2. substrate!TypeOK /\ \A w \in Workers : job[w].at # "idle" => key(w) \in Resources
  BY Types, InProcess
<1>3. \/ UNCHANGED objs
      \/ \E w \in Workers : Create(w) \/ Teardown(w) \/ DelDelete(w)
      \/ \E k \in Resources : Drift(k)
  <2>1. ASSUME NEW w \in Workers, Step(w)
        PROVE  UNCHANGED objs \/ Create(w) \/ Teardown(w) \/ DelDelete(w)
    BY <2>1 DEF Step, Fetch, Resolve, NoProvider, Observe, Reobserve, Report,
                DelObserve, RemoveFromStore, Requeue, Done
  <2>2. ASSUME \/ \E w \in Workers, k \in Resources : Take(w, k)
               \/ Cancel \/ Restart \/ UNCHANGED vars
               \/ \E k \in Resources : Resync(k) \/ Fire(k) \/ ClientDelete(k)
               \/ \E k \in Resources : \E m \in Offers[k] : ClientPut(k, m)
        PROVE  UNCHANGED objs
    BY <2>2 DEF Take, Cancel, Restart, vars, Resync, Fire, ClientDelete, ClientPut, Write
  <2> QED
    BY <2>1, <2>2 DEF Next
<1>4. ASSUME NEW w \in Workers, Create(w)
      PROVE  FALSE
  BY <1>1, <1>4, CreateCall
<1>5. ASSUME NEW w \in Workers, Teardown(w) \/ DelDelete(w)
      PROVE  FALSE
  <2>1. job[w].at # "idle"
    BY <1>5 DEF Teardown, DelDelete, At
  <2>2. \/ substrate!Delete(key(w))
        \/ \E fault \in {"call", "reply"} : substrate!DeleteFaults(key(w), fault)
    BY <1>5 DEF Teardown, DelDelete
  <2> QED
    BY <1>1, <1>2, <2>1, <2>2, DeleteEffect
<1>6. ASSUME NEW k \in Resources, Drift(k)
      PROVE  FALSE
  BY <1>2, <1>6, DriftEffect DEF Drift
<1> QED
  BY <1>1, <1>3, <1>4, <1>5, <1>6

(* removeFromStore is the only end of a resource but the end of the process.  *)
LEMMA OnlyRemoveDrops ==
    ASSUME IInv, [Next]_vars, NEW r \in Resources, store!Has(r), ~store!Has(r)'
    PROVE  Restart \/ \E w \in Workers : RemoveFromStore(w) /\ key(w) = r
<1>1. items'[r] # items[r]
  BY DEF store!Has
<1>2. store!TypeOK /\ \A w \in Workers : job[w].at # "idle" => key(w) \in Resources
  BY Types, InProcess
<1>3. \/ UNCHANGED items \/ Restart
      \/ \E w \in Workers : Report(w) \/ RemoveFromStore(w)
      \/ \E k \in Resources : ClientDelete(k) \/ \E m \in Offers[k] : ClientPut(k, m)
  <2>1. ASSUME NEW w \in Workers, Step(w)
        PROVE  UNCHANGED items \/ Report(w) \/ RemoveFromStore(w)
    BY <2>1 DEF Step, Fetch, Resolve, NoProvider, Observe, Create, Teardown,
                Reobserve, DelObserve, DelDelete, Requeue, Done
  <2>2. ASSUME \/ \E w \in Workers, k \in Resources : Take(w, k)
               \/ Cancel \/ UNCHANGED vars
               \/ \E k \in Resources : Resync(k) \/ Fire(k) \/ Drift(k)
        PROVE  UNCHANGED items
    BY <2>2 DEF Take, Cancel, vars, Resync, Fire, Drift
  <2> QED
    BY <2>1, <2>2 DEF Next
<1>4. ASSUME NEW w \in Workers, Report(w)
      PROVE  FALSE
  <2>1. job[w].at # "idle" /\ store!UpdateStatus(key(w), job[w].status)
    BY <1>1, <1>4 DEF Report, At
  <2>2. job[w].status \in store!Statuses
    BY <2>1, InProcess DEF Jobs
  <2> QED
    BY <1>2, <2>1, <2>2, UpdateStatusEffect DEF store!Has
<1>5. ASSUME NEW w \in Workers, RemoveFromStore(w)
      PROVE  key(w) = r
  BY <1>1, <1>2, <1>5 DEF RemoveFromStore, store!Delete, store!TypeOK
<1>6. ASSUME NEW k \in Resources, ClientDelete(k) \/ \E m \in Offers[k] : ClientPut(k, m)
      PROVE  FALSE
  <2>1. UNCHANGED objs /\ writes \in Nat /\ Offers[k] \subseteq store!Manifests
    BY <1>6, Types, ReconcilerAssumption
       DEF ClientDelete, ClientPut, Write, ReconcilerAssumption
  <2>2. Steady(r)
    BY <1>2, <1>6, <2>1, MarkEffect, PutEffect DEF ClientDelete, ClientPut
  <2> QED
    BY <2>2 DEF Steady
<1> QED
  BY <1>1, <1>3, <1>4, <1>5, <1>6

(* The reasons hold at the step itself: a worker creates for a resource that  *)
(* is there, and removes one that is marked and has no object.              *)
LEMMA CreateForStored ==
    ASSUME IInv, NEW w \in Workers, Create(w)
    PROVE  store!Has(key(w)) /\ UNCHANGED items
  BY CreateCall, InProcess DEF WorkerOK

LEMMA RemoveWhenDone ==
    ASSUME IInv, NEW w \in Workers, RemoveFromStore(w)
    PROVE  store!Marked(key(w)) /\ ~substrate!Exists(key(w)) /\ UNCHANGED objs
<1>1. At(w, "remove") /\ Working(w) /\ UNCHANGED objs
  BY DEF RemoveFromStore, At, Working
<1> QED
  BY <1>1, InProcess DEF WorkerOK, At

LEMMA OrphansStay ==
    ASSUME IInv, [Next]_vars, ~Restart, NEW r \in Resources, Orphan(r)'
    PROVE  Orphan(r)
<1>1. ~store!Has(r)' /\ substrate!Exists(r)'
  BY DEF Orphan
<1>2. substrate!Exists(r)
  <2> SUFFICES ASSUME ~substrate!Exists(r)
               PROVE  FALSE
    OBVIOUS
  <2> QED
    BY <1>1, OnlyCreateMakes, CreateForStored DEF store!Has
<1>3. ~store!Has(r)
  <2> SUFFICES ASSUME store!Has(r)
               PROVE  FALSE
    OBVIOUS
  <2> QED
    BY <1>1, OnlyRemoveDrops, RemoveWhenDone DEF substrate!Exists
<1> QED
  BY <1>2, <1>3 DEF Orphan

(* The look at the Substrate is still true when the resource is removed, and  *)
(* an object is created only for a resource that is there.                  *)
THEOREM OrphansByRestart == SafetySpec => OnlyRestartOrphans
<1>1. IInv /\ [Next]_vars =>
         [Restart \/ \A r \in Resources : Orphan(r)' => Orphan(r)]_vars
  BY OrphansStay
<1> QED
  BY <1>1, Invariance, PTL DEF SafetySpec, OnlyRestartOrphans

(* As long as setpointd is not restarted, every object has its resource.      *)
THEOREM NothingOrphaned ==
    ASSUME "crash" \notin FaultKinds
    PROVE  SafetySpec => []NoOrphans
<1>1. Init => NoOrphans
  BY DEF Init, NoOrphans, Orphan, substrate!Init, substrate!Exists
<1>2. ~Restart
  BY DEF Restart, Fault
<1>3. IInv /\ NoOrphans /\ [Next]_vars => NoOrphans'
  BY <1>2, OrphansStay DEF NoOrphans
<1> QED
  BY <1>1, <1>3, Invariance, PTL DEF SafetySpec

(* A resource goes because a client asked for it, and goes without an object. *)
THEOREM OnlyAskedRemovals == SafetySpec => RemovalIsAsked
<1>1. IInv /\ [Next]_vars =>
         [Restart \/ \A r \in Resources :
             store!Has(r) /\ ~store!Has(r)' => store!Marked(r) /\ ~substrate!Exists(r)]_vars
  BY OnlyRemoveDrops, RemoveWhenDone
<1> QED
  BY <1>1, Invariance, PTL DEF SafetySpec, RemovalIsAsked
-------------------------------------------------------------------------------
(* NameKnown, as long as the Store takes every status.                      *)

(* A step after which a Ready status that named the object still does.       *)
NameSafe(r) ==
    /\ store!IsReady(r)' => store!IsReady(r) /\ items'[r].status = items[r].status
    /\ substrate!Exists(r)' => substrate!Exists(r) /\ objs'[r].id = objs[r].id

LEMMA NameStays ==
    ASSUME NEW r, NameSafe(r), StatusNames(r)
    PROVE  StatusNames(r)'
  BY DEF NameSafe, StatusNames

(* Outside the stretch from Create to setStatus, the status can be trusted.  *)
LEMMA NameNow ==
    ASSUME IInv, NameKnown, NEW w \in Workers, held[w] # NoKey,
           job[w].at \notin {"reobserve", "report"}
    PROVE  StatusNames(held[w])
<1>1. \A v \in Workers : held[v] = held[w] => v = w
  BY DEF IInv, Exclusive
<1>2. held[w] \in Resources
  BY Types
<1> QED
  BY <1>1, <1>2 DEF NameKnown, key

(* A worker's step: what is under other keys is as it was.                   *)
LEMMA NameStep ==
    ASSUME IInv, NameKnown, NEW w \in Workers, job[w].at # "idle", UNCHANGED queue,
           OnlyUnderKey(w), NEW k, k = held[w],
           job'[w].at \notin {"reobserve", "report"} => StatusNames(k)',
           job'[w].at = "report" /\ job'[w].status.phase = "Ready" /\ substrate!Exists(k)' =>
               job'[w].status.observed = objs'[k].id
    PROVE  NameKnown'
<1>1. /\ k \in Resources /\ held[w] # NoKey /\ held' = held
      /\ \A v \in Workers \ {w} : held[v] # k
  BY InProcess DEF IInv, Exclusive, queue
<1>2. ASSUME NEW r \in Resources,
             \A v \in Workers : held'[v] = r => job'[v].at \notin {"reobserve", "report"}
      PROVE  StatusNames(r)'
  <2>1. CASE r = k
    BY <1>1, <1>2, <2>1
  <2>2. CASE r # k
    <3>1. \A v \in Workers : held[v] = r => job[v].at \notin {"reobserve", "report"}
      BY <1>1, <1>2, <2>2 DEF OnlyUnderKey
    <3>2. StatusNames(r)
      BY <3>1 DEF NameKnown, key
    <3> QED
      BY <2>2, <3>2
         DEF OnlyUnderKey, key, StatusNames, store!IsReady, store!Has, substrate!Exists
  <2> QED
    BY <2>1, <2>2
<1>3. ASSUME NEW v \in Workers, job'[v].at = "report", job'[v].status.phase = "Ready",
             substrate!Exists(held[v])'
      PROVE  job'[v].status.observed = objs'[held[v]].id
  <2>1. CASE v = w
    BY <1>1, <1>3, <2>1 DEF substrate!Exists
  <2>2. CASE v # w
    <3>1. job'[v] = job[v] /\ held[v] # NoKey /\ held[v] \in Resources \ {k}
      <4>1. job'[v] = job[v]
        BY <2>2 DEF OnlyUnderKey
      <4>2. job[v].at # "idle"
        BY <1>3, <4>1
      <4> QED
        BY <1>1, <2>2, <4>1, <4>2, InProcess
    <3>2. objs'[held[v]] = objs[held[v]]
      BY <3>1 DEF OnlyUnderKey, key
    <3> QED
      BY <1>1, <1>3, <3>1, <3>2 DEF NameKnown, At, key, substrate!Exists
  <2> QED
    BY <2>1, <2>2
<1> QED
  BY <1>1, <1>2, <1>3 DEF NameKnown, At, key, substrate!Exists

(* A step that writes no status and makes no object.                        *)
LEMMA NameQuiet ==
    ASSUME IInv, NameKnown, NEW w \in Workers, job[w].at \notin {"idle", "reobserve", "report"},
           UNCHANGED queue, OnlyUnderKey(w), NEW k, k = held[w], NameSafe(k),
           job'[w].at = "report" /\ job'[w].status.phase = "Ready" =>
              substrate!Exists(k) /\ job'[w].status.observed = objs[k].id
    PROVE  NameKnown'
<1>1. StatusNames(k)'
  BY NameNow, NameStays, InProcess
<1>2. substrate!Exists(k)' => objs'[k].id = objs[k].id
  BY DEF NameSafe
<1> QED
  BY <1>1, <1>2, NameStep

(* A worker announces no other object than the one it sees.                 *)
Honest(w) ==
    /\ \A v \in Workers \ {w} : job'[v] = job[v]
    /\ job'[w].at = "report" /\ job'[w].status.phase = "Ready" =>
           /\ substrate!Exists(held[w])
           /\ job'[w].status.observed = objs[held[w]].id

LEMMA HonestMoves ==
    ASSUME IInv, NEW w \in Workers, Working(w), UNCHANGED <<held, items>>,
           \/ \E s \in Steps \ {"report"} : Goto(w, s)
           \/ \E phase \in store!Phases \ {"Ready"}, out \in Outcomes :
                 ReportNext(w, phase, NoId, out)
           \/ \E out \in Outcomes : FinishNext(w, out)
           \/ Verdict(w)
    PROVE  Honest(w)
<1>1. job \in [Workers -> Jobs] /\ job[w] \in Jobs /\ job[w].at # "idle"
  BY InProcess DEF Working
<1>2. ASSUME NEW s \in Steps \ {"report"}, Goto(w, s)
      PROVE  Honest(w)
  <2> DEFINE j == [job[w] EXCEPT !.at = s]
  <2>1. job' = [job EXCEPT ![w] = j] /\ j.at = s
    BY <1>1, <1>2 DEF Goto, Jobs
  <2> HIDE DEF j
  <2> QED
    BY <1>1, <2>1 DEF Honest
<1>3. ASSUME NEW phase \in store!Phases \ {"Ready"}, NEW out \in Outcomes,
             ReportNext(w, phase, NoId, out)
      PROVE  Honest(w)
  BY <1>3, ReportOK DEF Honest, Moves
<1>4. ASSUME NEW out \in Outcomes, FinishNext(w, out)
      PROVE  Honest(w)
  BY <1>1, <1>4, FinishOK DEF Honest, Moves
<1>5. CASE Verdict(w)
  BY <1>5, VerdictOK DEF Honest, Moves, key
<1> QED
  BY <1>2, <1>3, <1>4, <1>5

(* Observations, lookups, and what ends in nothing.                         *)
LEMMA NameLocal ==
    ASSUME IInv, NameKnown, NEW w \in Workers,
           Fetch(w) \/ Resolve(w) \/ NoProvider(w) \/ Observe(w) \/ DelObserve(w)
    PROVE  NameKnown'
<1>1. /\ job[w].at \notin {"idle", "reobserve", "report"}
      /\ UNCHANGED <<queue, items, objs>>
  BY DEF Fetch, Resolve, NoProvider, Observe, DelObserve, At
<1>2. job \in [Workers -> Jobs] /\ job[w] \in Jobs /\ store!TypeOK /\ held[w] # NoKey
  BY <1>1, InProcess
<1>3. Honest(w)
  <2>1. CASE Fetch(w)
    <3>1. CASE FinishNext(w, "ok") \/ FinishNext(w, "error")
      BY <1>1, <3>1, FinishOK DEF Honest, Moves, Outcomes, queue
    <3>2. CASE job' = [job EXCEPT ![w].res = Snapshot(items[key(w)]),
                                  ![w].at = Path(key(w), items[key(w)])]
      <4> DEFINE at == Path(key(w), items[key(w)])
                 j == [job[w] EXCEPT !.res = Snapshot(items[key(w)]), !.at = at]
      <4>1. job' = [job EXCEPT ![w] = j]
        BY <1>2, <3>2
      <4>2. at # "report"
        BY DEF Path
      <4>3. j.at = at
        BY <1>2 DEF Jobs
      <4> HIDE DEF j, at
      <4> QED
        BY <1>2, <4>1, <4>2, <4>3 DEF Honest
    <3> QED
      BY <2>1, <3>1, <3>2 DEF Fetch
  <2>2. CASE Resolve(w)
    <3>1. Working(w) /\ job[w].at = "resolve"
      BY <2>2 DEF Resolve, At, Working
    <3>2. CASE \/ ReportNext(w, "Pending", NoId, "requeue")
               \/ ReportNext(w, "Error", NoId, "error")
      BY <1>1, <3>1, <3>2, HonestMoves DEF store!Phases, Outcomes, queue
    <3>3. CASE job' = [job EXCEPT ![w].vals = Append(@, Lookup(NextRef(w)))]
      <4> DEFINE j == [job[w] EXCEPT !.vals = Append(@, Lookup(NextRef(w)))]
      <4>1. job' = [job EXCEPT ![w] = j]
        BY <1>2, <3>3
      <4>2. j.at = "resolve"
        BY <1>2, <3>1 DEF Jobs
      <4> HIDE DEF j
      <4> QED
        BY <1>2, <4>1, <4>2 DEF Honest
    <3> QED
      BY <2>2, <3>2, <3>3 DEF Resolve
  <2>3. CASE NoProvider(w)
    BY <1>1, <2>3, HonestMoves DEF NoProvider, At, Working, store!Phases, Outcomes, queue
  <2>4. CASE Observe(w)
    <3>1. Working(w)
      BY <2>4 DEF Observe, At, Working
    <3>2. \/ Goto(w, "create") \/ Goto(w, "teardown")
          \/ Verdict(w) \/ ReportNext(w, "Error", NoId, "error")
      BY <2>4 DEF Observe
    <3> QED
      BY <1>1, <3>1, <3>2, HonestMoves DEF Steps, store!Phases, Outcomes, queue
  <2>5. CASE DelObserve(w)
    <3>1. Working(w)
      BY <2>5 DEF DelObserve, At, Working
    <3>2. \/ \E s \in {"delDelete", "remove"} : Goto(w, s)
          \/ ReportNext(w, "Deleting", NoId, "error")
      BY <2>5 DEF DelObserve
    <3> QED
      BY <1>1, <3>1, <3>2, HonestMoves DEF Steps, store!Phases, Outcomes, queue
  <2> QED
    BY <2>1, <2>2, <2>3, <2>4, <2>5
<1>4. OnlyUnderKey(w) /\ \A k : NameSafe(k)
  BY <1>1, <1>3
     DEF Honest, OnlyUnderKey, NameSafe, store!IsReady, store!Has, substrate!Exists
<1> QED
  BY <1>1, <1>3, <1>4, NameQuiet DEF Honest

(* An object that is being torn down has no name to keep.                   *)
LEMMA NameTeardown ==
    ASSUME IInv, NameKnown, NEW w \in Workers, Teardown(w) \/ DelDelete(w)
    PROVE  NameKnown'
<1>1. /\ job[w].at \notin {"idle", "reobserve", "report"} /\ Working(w)
      /\ UNCHANGED <<queue, items>>
  BY DEF Teardown, DelDelete, At, Working
<1>2. /\ held[w] # NoKey /\ held[w] \in Resources /\ key(w) = held[w]
      /\ substrate!TypeOK
  BY <1>1, InProcess
<1>3. Honest(w)
  <2>1. \/ Goto(w, "create")
        \/ \E phase \in {"Error", "Deleting"}, out \in {"error", "requeue"} :
              ReportNext(w, phase, NoId, out)
    BY DEF Teardown, DelDelete
  <2> QED
    BY <1>1, <2>1, HonestMoves DEF Steps, store!Phases, Outcomes, queue
<1>4. /\ \A s \in Resources \ {held[w]} : objs'[s] = objs[s]
      /\ objs'[held[w]] \in {objs[held[w]], NoObj}
  <2>1. \/ substrate!Delete(held[w])
        \/ \E fault \in {"call", "reply"} : substrate!DeleteFaults(held[w], fault)
    BY DEF Teardown, DelDelete, key
  <2> QED
    BY <1>2, <2>1, DeleteEffect
<1>5. OnlyUnderKey(w)
  BY <1>1, <1>2, <1>3, <1>4 DEF Honest, OnlyUnderKey
<1>6. ASSUME NEW k, k = held[w]
      PROVE  NameSafe(k)
  BY <1>1, <1>4, <1>6 DEF NameSafe, store!IsReady, store!Has, substrate!Exists
<1>7. ASSUME NEW k, k = held[w]
      PROVE  NameKnown'
  BY <1>1, <1>3, <1>5, <1>6, <1>7, NameQuiet DEF Honest, substrate!Exists
<1> QED
  BY <1>7

(* Create is not over before it is reported; if it failed, not as Ready.     *)
LEMMA NameCreate ==
    ASSUME IInv, NameKnown, NEW w \in Workers, Create(w)
    PROVE  NameKnown'
<1>1. job[w].at # "idle" /\ job \in [Workers -> Jobs] /\ job[w] \in Jobs
  BY CreateCall, InProcess
<1>2. /\ \A v \in Workers \ {w} : job'[v] = job[v]
      /\ job'[w].at \in {"reobserve", "report"}
      /\ ~(job'[w].at = "report" /\ job'[w].status.phase = "Ready")
  <2>1. CASE Goto(w, "reobserve")
    <3> DEFINE j == [job[w] EXCEPT !.at = "reobserve"]
    <3>1. job' = [job EXCEPT ![w] = j] /\ j.at = "reobserve"
      BY <1>1, <2>1 DEF Goto, Jobs
    <3> HIDE DEF j
    <3> QED
      BY <1>1, <3>1
  <2>2. CASE ReportNext(w, "Error", NoId, "error")
    BY <2>2, CreateCall, ReportOK DEF Moves, Outcomes, store!Phases, queue
  <2> QED
    BY <2>1, <2>2, CreateCall
<1>3. OnlyUnderKey(w)
  BY <1>2, CreateCall DEF OnlyUnderKey
<1>4. UNCHANGED queue
  BY CreateCall
<1>5. ASSUME NEW k, k = held[w]
      PROVE  NameKnown'
  BY <1>1, <1>2, <1>3, <1>4, <1>5, NameStep
<1> QED
  BY <1>5

LEMMA NameReobserve ==
    ASSUME IInv, NameKnown, NEW w \in Workers, Reobserve(w)
    PROVE  NameKnown'
<1>1. /\ job[w].at # "idle" /\ Working(w) /\ UNCHANGED <<queue, items, objs>>
  BY DEF Reobserve, At, Working
<1>2. \/ Verdict(w) \/ ReportNext(w, "Creating", NoId, "error")
  BY DEF Reobserve
<1>3. Honest(w)
  BY <1>1, <1>2, HonestMoves DEF store!Phases, Outcomes, queue
<1>4. job'[w].at = "report"
  BY <1>1, <1>2, VerdictOK, ReportOK DEF store!Phases, Outcomes, queue
<1>5. OnlyUnderKey(w)
  BY <1>1, <1>3 DEF Honest, OnlyUnderKey
<1>6. ASSUME NEW k, k = held[w]
      PROVE  NameKnown'
  BY <1>1, <1>3, <1>4, <1>5, <1>6, NameStep DEF Honest
<1> QED
  BY <1>6

(* setStatus, when it succeeds, makes the status what was seen.              *)
LEMMA NameReport ==
    ASSUME IInv, NameKnown, NEW w \in Workers, Report(w), "store" \notin FaultKinds
    PROVE  NameKnown'
<1>1. /\ At(w, "report") /\ job[w].at # "idle" /\ UNCHANGED <<queue, objs>>
      /\ store!UpdateStatus(key(w), job[w].status)
  BY DEF Report, At, Fault
<1>2. /\ key(w) = held[w] /\ key(w) \in Resources /\ store!TypeOK /\ job[w] \in Jobs
  BY <1>1, InProcess
<1>3. job[w].out \in Outcomes /\ job[w].status \in store!Statuses
  BY <1>2 DEF Jobs
<1>4. (\A v \in Workers \ {w} : job'[v] = job[v]) /\ job'[w].at \in {"requeue", "done"}
  <2>1. PICK out \in Outcomes : FinishNext(w, out)
    BY <1>3 DEF Report, FinishNext
  <2> QED
    BY <1>1, <2>1, FinishOK DEF Moves, queue
<1>5. ASSUME NEW k, k = held[w]
      PROVE  NameKnown'
  <2>1. k \in Resources /\ store!UpdateStatus(k, job[w].status)
    BY <1>1, <1>2, <1>5 DEF store!UpdateStatus, store!Has
  <2>2. /\ \A s \in Resources \ {k} : items'[s] = items[s]
        /\ store!Has(k)' => items'[k].status = job[w].status
    BY <1>2, <1>3, <2>1, UpdateStatusEffect
  <2>3. OnlyUnderKey(w)
    BY <1>1, <1>2, <1>4, <1>5, <2>2 DEF OnlyUnderKey
  <2>4. StatusNames(k)'
    BY <1>1, <1>2, <1>5, <2>2
       DEF NameKnown, StatusNames, store!IsReady, substrate!Exists
  <2> QED
    BY <1>1, <1>4, <1>5, <2>3, <2>4, NameStep
<1> QED
  BY <1>5

LEMMA NameRemove ==
    ASSUME IInv, NameKnown, NEW w \in Workers, RemoveFromStore(w),
           "store" \notin FaultKinds
    PROVE  NameKnown'
<1>1. /\ job[w].at # "idle" /\ UNCHANGED <<queue, objs>>
      /\ store!Delete(key(w)) /\ FinishNext(w, "ok")
  BY DEF RemoveFromStore, At, Fault
<1>2. key(w) = held[w] /\ key(w) \in Resources /\ store!TypeOK
  BY <1>1, InProcess
<1>3. (\A v \in Workers \ {w} : job'[v] = job[v]) /\ job'[w].at \in {"requeue", "done"}
  BY <1>1, FinishOK DEF Moves, Outcomes, queue
<1>4. OnlyUnderKey(w)
  BY <1>1, <1>3 DEF OnlyUnderKey, store!Delete, store!TypeOK
<1>5. ASSUME NEW k, k = held[w]
      PROVE  NameKnown'
  <2>1. StatusNames(k)'
    BY <1>1, <1>2, <1>5
       DEF store!Delete, store!TypeOK, StatusNames, store!IsReady, store!Has
  <2> QED
    BY <1>1, <1>3, <1>4, <1>5, <2>1, NameStep
<1> QED
  BY <1>5

LEMMA NameQueue ==
    ASSUME IInv, NameKnown, NEW w \in Workers,
           Requeue(w) \/ Done(w) \/ \E k \in Resources : Take(w, k)
    PROVE  NameKnown'
<1>1. /\ UNCHANGED <<items, objs>> /\ held \in [Workers -> Resources \cup {NoKey}]
      /\ job \in [Workers -> Jobs] /\ job[w] \in Jobs
  BY Types DEF IInv, TypeOK, Requeue, Done, Take
<1>2. /\ \A v \in Workers \ {w} : job'[v] = job[v] /\ held'[v] = held[v]
      /\ job'[w].at \in {"idle", "fetch", "requeue", "done"}
  <2>1. CASE Done(w)
    BY <1>1, <2>1, IdleOK DEF Done, Q!Release
  <2>2. CASE \E k \in Resources : Take(w, k)
    <3> DEFINE j == [job[w] EXCEPT !.at = "fetch"]
    <3>1. j.at = "fetch" /\ job' = [job EXCEPT ![w] = j]
      BY <1>1, <2>2 DEF Jobs, Take, Goto
    <3>2. \A v \in Workers \ {w} : held'[v] = held[v]
      BY <1>1, <2>2 DEF Take, Q!Take
    <3> HIDE DEF j
    <3> QED
      BY <1>1, <3>1, <3>2
  <2>3. CASE Requeue(w)
    <3>1. job[w].at # "idle" /\ UNCHANGED queue /\ FinishNext(w, "ok")
      BY <2>3 DEF Requeue, At
    <3> QED
      BY <3>1, FinishOK DEF Moves, Outcomes, queue
  <2> QED
    BY <2>1, <2>2, <2>3
<1>3. ASSUME NEW r \in Resources,
             \A v \in Workers : held'[v] = r => job'[v].at \notin {"reobserve", "report"}
      PROVE  StatusNames(r)
  <2>1. job[w].at \notin {"reobserve", "report"}
    BY DEF Requeue, Done, At, Take, Q!Take, IInv, TypeOK
  <2>2. \A v \in Workers : held[v] = r => job[v].at \notin {"reobserve", "report"}
    BY <1>2, <1>3, <2>1
  <2> QED
    BY <2>2 DEF NameKnown, key
<1>4. ASSUME NEW r \in Resources, StatusNames(r)
      PROVE  StatusNames(r)'
  BY <1>1, <1>4 DEF StatusNames, store!IsReady, store!Has, substrate!Exists
<1> QED
  BY <1>1, <1>2, <1>3, <1>4 DEF NameKnown, At, key, substrate!Exists

LEMMA NameOutside ==
    ASSUME IInv, NameKnown, UNCHANGED <<held, job>>, \A r \in Resources : NameSafe(r)
    PROVE  NameKnown'
<1>1. ASSUME NEW r \in Resources,
             \A v \in Workers : held'[v] = r => job'[v].at \notin {"reobserve", "report"}
      PROVE  StatusNames(r)'
  BY <1>1, NameStays DEF NameKnown, key
<1>2. ASSUME NEW v \in Workers, job'[v].at = "report", job'[v].status.phase = "Ready",
             substrate!Exists(held[v])'
      PROVE  job'[v].status.observed = objs'[held[v]].id
  <2>1. held[v] \in Resources
    BY <1>2, InProcess
  <2>2. ASSUME NEW r \in Resources, r = held[v]
        PROVE  job'[v].status.observed = objs'[held[v]].id
    BY <1>2, <2>2 DEF NameSafe, NameKnown, At, key, substrate!Exists
  <2> QED
    BY <2>1, <2>2
<1> QED
  BY <1>1, <1>2 DEF NameKnown, At, key, substrate!Exists

LEMMA NameNext ==
    ASSUME "store" \notin FaultKinds
    PROVE  IInv /\ NameKnown /\ [Next]_vars => NameKnown'
<1> SUFFICES ASSUME IInv, NameKnown, [Next]_vars PROVE NameKnown'
  OBVIOUS
<1>1. ASSUME NEW w \in Workers, Step(w)
      PROVE  NameKnown'
  BY <1>1, NameLocal, NameCreate, NameTeardown, NameReobserve, NameReport, NameRemove,
     NameQueue DEF Step
<1>2. ASSUME NEW w \in Workers, NEW k \in Resources, Take(w, k)
      PROVE  NameKnown'
  BY <1>2, NameQueue
<1>3. CASE \/ UNCHANGED vars \/ Cancel \/ \E k \in Resources : Resync(k) \/ Fire(k)
  <2>1. UNCHANGED <<held, job, items, objs>>
    BY <1>3 DEF vars, queue, Cancel, Q!Close, Resync, Fire, enqueue, Q!Add
  <2>2. \A r \in Resources : NameSafe(r)
    BY <2>1 DEF NameSafe, store!IsReady, store!Has, substrate!Exists
  <2> QED
    BY <2>1, <2>2, NameOutside
<1>4. ASSUME NEW k \in Resources,
             ClientDelete(k) \/ \E m \in Offers[k] : ClientPut(k, m)
      PROVE  NameKnown'
  <2>1. /\ UNCHANGED <<held, job, objs>> /\ writes \in Nat
        /\ Offers[k] \subseteq store!Manifests
    BY <1>4, Types, ReconcilerAssumption
       DEF ClientDelete, ClientPut, Write, queue, ReconcilerAssumption
  <2>2. \A r \in Resources :
           store!IsReady(r)' => store!IsReady(r) /\ items'[r].status = items[r].status
    BY <1>4, <2>1, Types, MarkEffect, PutEffect DEF ClientDelete, ClientPut
  <2>3. \A r \in Resources : NameSafe(r)
    BY <2>1, <2>2 DEF NameSafe, substrate!Exists
  <2> QED
    BY <2>1, <2>3, NameOutside
<1>5. ASSUME NEW k \in Resources, Drift(k)
      PROVE  NameKnown'
  <2>1. UNCHANGED <<held, job, items>>
    BY <1>5 DEF Drift, queue
  <2>2. \A r \in Resources :
           substrate!Exists(r)' => substrate!Exists(r) /\ objs'[r].id = objs[r].id
    BY <1>5, Types, DriftEffect DEF Drift
  <2>3. \A r \in Resources : NameSafe(r)
    BY <2>1, <2>2 DEF NameSafe, store!IsReady, store!Has
  <2> QED
    BY <2>1, <2>3, NameOutside
<1>6. CASE Restart
  BY <1>6, IdleOK
     DEF Restart, NameKnown, StatusNames, store!IsReady, store!Has, At, key
<1> QED
  BY <1>1, <1>2, <1>3, <1>4, <1>5, <1>6 DEF Next

(* Along the way from a Create to the Store, no true status gets lost and no *)
(* false one appears.                                                       *)
THEOREM NamesKnown ==
    ASSUME "store" \notin FaultKinds
    PROVE  SafetySpec => []NameKnown
<1>1. Init => NameKnown
  BY IdleOK DEF Init, store!Init, NameKnown, StatusNames, store!IsReady, store!Has, At, key
<1>2. IInv /\ NameKnown /\ [Next]_vars => NameKnown'
  BY NameNext
<1> QED
  BY <1>1, <1>2, Invariance, PTL DEF SafetySpec

(* What a dependent reads is the truth, as long as no status is lost on its    *)
(* way to the Store: crashes, lost answers and drift do not spoil it.        *)
THEOREM StatusNamesIt ==
    ASSUME "store" \notin FaultKinds
    PROVE  SafetySpec => []StatusNamesTheObject
<1>1. IInv /\ NameKnown => StatusNamesTheObject
  <2> SUFFICES ASSUME IInv, NameKnown, NEW r \in Resources \ InFlight
               PROVE  StatusNames(r)
    BY DEF StatusNamesTheObject
  <2>1. \A w \in Workers : held[w] # r
    BY ReconcilerAssumption DEF InFlight, ReconcilerAssumption
  <2> QED
    BY <2>1 DEF NameKnown, key
<1> QED
  BY <1>1, NamesKnown, Invariance, PTL
===============================================================================

---------------------------- MODULE WorkQueueProofs ---------------------------
(***************************************************************************)
(* What holds of WorkQueue for any set of keys, any finite pool of workers *)
(* and any bounds: IInv is inductive, hence the type invariant and the     *)
(* safety invariants of the runs, and every step is a step of KeyQueue.    *)
(***************************************************************************)
EXTENDS WorkQueue, SequenceTheorems, FiniteSetTheorems, TLAPS

(* What Append, the only way into ready, does to a sequence without         *)
(* duplicates: the new key must not be in it yet.                           *)
LEMMA AppendDistinct ==
    ASSUME NEW S, NEW s \in Seq(S), NEW e \in S, IsInjective(s), e \notin ToSet(s)
    PROVE  /\ Append(s, e) \in Seq(S)
           /\ ToSet(Append(s, e)) = ToSet(s) \cup {e}
           /\ IsInjective(Append(s, e))
           /\ Len(Append(s, e)) = Len(s) + 1
           /\ Append(s, e) # <<>>
  BY DEF ToSet, IsInjective

(* What get leaves in ready when it takes the head: every other key, once.   *)
LEMMA TailDistinct ==
    ASSUME NEW S, NEW s \in Seq(S), IsInjective(s), s # <<>>
    PROVE  /\ Head(s) \in S
           /\ Head(s) \in ToSet(s)
           /\ Tail(s) \in Seq(S)
           /\ ToSet(Tail(s)) = ToSet(s) \ {Head(s)}
           /\ IsInjective(Tail(s))
           /\ Len(Tail(s)) = Len(s) - 1
<1>1. Len(s) \in Nat \ {0} /\ DOMAIN s = 1 .. Len(s)
  BY DEF ToSet
<1>2. /\ Head(s) = s[1]
      /\ Tail(s) \in Seq(S)
      /\ Len(Tail(s)) = Len(s) - 1
      /\ DOMAIN Tail(s) = 1 .. Len(s) - 1
      /\ \A i \in 1 .. Len(s) - 1 : Tail(s)[i] = s[i + 1]
  BY <1>1
<1>3. Head(s) \in S /\ Head(s) \in ToSet(s)
  BY <1>1, <1>2 DEF ToSet
<1>4. IsInjective(Tail(s))
  BY <1>1, <1>2 DEF IsInjective
<1>5. ToSet(Tail(s)) = ToSet(s) \ {Head(s)}
  <2>1. ASSUME NEW i \in DOMAIN Tail(s)
        PROVE  Tail(s)[i] \in ToSet(s) \ {Head(s)}
    BY <1>1, <1>2 DEF ToSet, IsInjective
  <2>2. ASSUME NEW j \in DOMAIN s, s[j] # Head(s)
        PROVE  s[j] \in ToSet(Tail(s))
    <3>1. j - 1 \in 1 .. Len(s) - 1 /\ s[j] = Tail(s)[j - 1]
      BY <1>1, <1>2, <2>2
    <3> QED
      BY <1>2, <3>1 DEF ToSet
  <2> QED
    BY <2>1, <2>2 DEF ToSet
<1> QED
  BY <1>2, <1>3, <1>4, <1>5

(* The awake workers can be counted.                                        *)
LEMMA AwakeFinite ==
    ASSUME NEW p
    PROVE  IsFiniteSet(Awake(p)) /\ Cardinality(Awake(p)) \in Nat
<1>1. Awake(p) \in SUBSET Workers
  BY DEF Awake
<1> QED
  BY <1>1, FS_Subset, FS_CardinalityType, WorkQueueAssumption

(* cond.Signal moves at most one waiter to the lock, and one if there is one. *)
LEMMA SignalMoves ==
    ASSUME NEW p \in [Workers -> Locations], NEW q \in Signalled(p)
    PROVE  /\ q \in [Workers -> Locations]
           /\ \A w \in Workers : \/ q[w] = p[w]
                                 \/ p[w] = "wait" /\ q[w] = "get"
           /\ Waiters(q) \subseteq Waiters(p)
           /\ Waiters(p) # {} => Cardinality(Awake(q)) = Cardinality(Awake(p)) + 1
<1>1. CASE Waiters(p) = {}
  BY <1>1 DEF Signalled
<1>2. CASE Waiters(p) # {}
  <2>1. PICK w \in Waiters(p) : q = [p EXCEPT ![w] = "get"]
    BY <1>2 DEF Signalled
  <2>2. Awake(q) = Awake(p) \cup {w} /\ w \notin Awake(p)
    BY <2>1 DEF Waiters, Awake
  <2>3. Cardinality(Awake(q)) = Cardinality(Awake(p)) + 1
    BY <2>2, AwakeFinite, FS_AddElement
  <2> QED
    BY <2>1, <2>3 DEF Waiters, Locations
<1> QED
  BY <1>1, <1>2

(* Append and Signal together keep the count of NoLostWakeup: the key that   *)
(* is added to ready comes with a worker that is awake, or nobody sleeps.    *)
LEMMA MakeReadyKeeps ==
    ASSUME NEW k \in Keys, NEW p \in [Workers -> Locations],
           ready \in Seq(Keys), IsInjective(ready), k \notin ToSet(ready),
           Waiters(p) # {} => Len(ready) <= Cardinality(Awake(p)),
           MakeReady(k, p)
    PROVE  /\ ready' \in Seq(Keys)
           /\ ToSet(ready') = ToSet(ready) \cup {k}
           /\ IsInjective(ready')
           /\ ready' # <<>>
           /\ pc' \in [Workers -> Locations]
           /\ \A w \in Workers : \/ pc'[w] = p[w]
                                 \/ p[w] = "wait" /\ pc'[w] = "get"
           /\ NoLostWakeup'
<1>1. /\ ready' \in Seq(Keys)
      /\ ToSet(ready') = ToSet(ready) \cup {k}
      /\ IsInjective(ready')
      /\ ready' # <<>>
      /\ Len(ready') = Len(ready) + 1
  BY AppendDistinct DEF MakeReady
<1>2. /\ pc' \in [Workers -> Locations]
      /\ \A w \in Workers : \/ pc'[w] = p[w]
                            \/ p[w] = "wait" /\ pc'[w] = "get"
      /\ Waiters(pc') \subseteq Waiters(p)
      /\ Waiters(p) # {} => Cardinality(Awake(pc')) = Cardinality(Awake(p)) + 1
  BY SignalMoves DEF MakeReady
<1>3. Len(ready) \in Nat /\ Cardinality(Awake(p)) \in Nat
  BY AwakeFinite
<1>4. NoLostWakeup'
  BY <1>1, <1>2, <1>3 DEF NoLostWakeup
<1> QED
  BY <1>1, <1>2, <1>4

(* What enqueue, the body of Resync and of both timers, does to the queue.   *)
LEMMA EnqueueKeeps ==
    ASSUME IInv, NEW k \in Keys, enqueue(k)
    PROVE  /\ ready' \in Seq(Keys)
           /\ dirty' \subseteq Keys
           /\ pc' \in [Workers -> Locations]
           /\ UNCHANGED <<processing, shuttingDown, held>>
           /\ dirty \subseteq dirty' /\ (~shuttingDown => k \in dirty')
           /\ shuttingDown => pc' = pc
           /\ \A w \in Workers : \/ pc'[w] = pc[w]
                                 \/ pc[w] = "wait" /\ pc'[w] = "get"
           /\ ReadyIsDirtyIdle'
           /\ NoLostWakeup'
           /\ NoneLeftReady'
<1> USE DEF IInv
<1>0. UNCHANGED <<processing, shuttingDown, held>>
  BY DEF enqueue
<1>1. CASE shuttingDown \/ k \in dirty
  <2>1. UNCHANGED <<ready, dirty, pc>>
    BY <1>1 DEF enqueue
  <2> QED
    BY <1>0, <1>1, <2>1 DEF TypeOK, ReadyIsDirtyIdle, NoLostWakeup, NoneLeftReady
<1>2. CASE ~shuttingDown /\ k \notin dirty /\ k \in processing
  <2>1. dirty' = dirty \cup {k} /\ UNCHANGED <<ready, pc>>
    BY <1>2 DEF enqueue
  <2> QED
    BY <1>0, <1>2, <2>1 DEF TypeOK, ReadyIsDirtyIdle, NoLostWakeup, NoneLeftReady
<1>3. CASE ~shuttingDown /\ k \notin dirty /\ k \notin processing
  <2>1. dirty' = dirty \cup {k} /\ MakeReady(k, pc)
    BY <1>3 DEF enqueue
  <2>2. /\ ready' \in Seq(Keys)
        /\ ToSet(ready') = ToSet(ready) \cup {k}
        /\ IsInjective(ready')
        /\ pc' \in [Workers -> Locations]
        /\ \A w \in Workers : \/ pc'[w] = pc[w]
                              \/ pc[w] = "wait" /\ pc'[w] = "get"
        /\ NoLostWakeup'
    BY <1>3, <2>1, MakeReadyKeeps DEF TypeOK, ReadyIsDirtyIdle, NoLostWakeup
  <2>3. ReadyIsDirtyIdle'
    BY <1>0, <1>3, <2>1, <2>2 DEF ReadyIsDirtyIdle
  <2>4. \A w \in Workers : pc'[w] # "exited"
    BY <1>3, <2>2 DEF Phases
  <2>5. NoneLeftReady'
    BY <2>4, WorkQueueAssumption DEF NoneLeftReady
  <2> QED
    BY <1>0, <1>3, <2>1, <2>2, <2>3, <2>5 DEF TypeOK
<1> QED
  BY <1>1, <1>2, <1>3

(* enqueue preserves the invariant as soon as its caller provides for the     *)
(* failures: a backoff timer that fires hands its key over to dirty.          *)
LEMMA EnqueuePreserves ==
    ASSUME IInv, NEW k \in Keys, enqueue(k), UNCHANGED fails,
           delayed' \in [Keys -> 0 .. MaxTimers],
           backoff' \in [Keys -> 0 .. MaxTimers],
           \A j \in Keys \ {k} : backoff'[j] = backoff[j]
    PROVE  IInv'
<1>1. /\ ready' \in Seq(Keys)
      /\ dirty' \subseteq Keys
      /\ pc' \in [Workers -> Locations]
      /\ UNCHANGED <<processing, shuttingDown, held>>
      /\ dirty \subseteq dirty' /\ (~shuttingDown => k \in dirty')
      /\ shuttingDown => pc' = pc
      /\ \A w \in Workers : \/ pc'[w] = pc[w]
                            \/ pc[w] = "wait" /\ pc'[w] = "get"
      /\ ReadyIsDirtyIdle' /\ NoLostWakeup' /\ NoneLeftReady'
  BY EnqueueKeeps
<1>2. TypeOK'
  BY <1>1 DEF IInv, TypeOK, limiter!TypeOK
<1>3. OneWorkerPerKey'
  BY <1>1 DEF IInv, OneWorkerPerKey
<1>4. FailureIsRetried'
  BY <1>1 DEF IInv, FailureIsRetried
<1>5. Phases'
  <2> SUFFICES ASSUME NEW w \in Workers
               PROVE  /\ held'[w] # NoKey <=> pc'[w] \in {"busy", "parked", "finishing"}
                      /\ pc'[w] = "wait" => ~shuttingDown'
                      /\ pc'[w] = "exited" => shuttingDown'
                      /\ pc'[w] = "finishing" /\ fails'[held'[w]] > 0 /\ ~shuttingDown' =>
                            held'[w] \in dirty' \/ backoff'[held'[w]] > 0
    BY DEF Phases
  <2>1. held[w] \in Keys \cup {NoKey}
    BY DEF IInv, TypeOK
  <2> QED
    BY <1>1, <2>1 DEF IInv, Phases
<1> QED
  BY <1>1, <1>2, <1>3, <1>4, <1>5 DEF IInv

(* get taking a key preserves the invariant: one ready key less, one awake    *)
(* worker less, and the key is in processing from then on.                    *)
LEMMA GetKeyPreserves ==
    ASSUME IInv, NEW w \in Workers, GetKey(w)
    PROVE  IInv'
<1> DEFINE k == Head(ready)
<1> USE DEF IInv
<1>1. /\ pc[w] = "get" /\ ready # <<>>
      /\ ready' = Tail(ready)
      /\ processing' = processing \cup {k}
      /\ dirty' = dirty \ {k}
      /\ held' = [held EXCEPT ![w] = k]
      /\ pc' = [pc EXCEPT ![w] = "busy"]
      /\ UNCHANGED <<shuttingDown, fails, delayed, backoff>>
  BY DEF GetKey, timers
<1>2. /\ k \in Keys /\ k \in ToSet(ready)
      /\ ready' \in Seq(Keys)
      /\ ToSet(ready') = ToSet(ready) \ {k}
      /\ IsInjective(ready')
      /\ Len(ready') = Len(ready) - 1
  BY <1>1, TailDistinct DEF TypeOK, ReadyIsDirtyIdle
<1>3. k \in dirty /\ k \notin processing /\ k # NoKey
  BY <1>2, WorkQueueAssumption DEF ReadyIsDirtyIdle
<1> HIDE DEF k
<1>4. TypeOK'
  BY <1>1, <1>2 DEF TypeOK, limiter!TypeOK, Locations
<1>5. ReadyIsDirtyIdle'
  BY <1>1, <1>2, <1>3 DEF ReadyIsDirtyIdle
<1>6. OneWorkerPerKey'
  <2>1. held[w] = NoKey
    BY <1>1 DEF Phases
  <2>2. processing' = {held'[v] : v \in Workers} \ {NoKey}
    BY <1>1, <1>3, <2>1 DEF OneWorkerPerKey, TypeOK
  <2>3. \A u, v \in Workers : u # v /\ held'[u] = held'[v] => held'[u] = NoKey
    BY <1>1, <1>3 DEF OneWorkerPerKey, TypeOK
  <2> QED
    BY <2>2, <2>3 DEF OneWorkerPerKey
<1>7. NoLostWakeup'
  <2>1. Waiters(pc') = Waiters(pc) /\ Awake(pc') = Awake(pc) \ {w} /\ w \in Awake(pc)
    BY <1>1 DEF TypeOK, Waiters, Awake
  <2>2. /\ Cardinality(Awake(pc')) = Cardinality(Awake(pc)) - 1
        /\ Cardinality(Awake(pc)) \in Nat
    BY <2>1, AwakeFinite, FS_RemoveElement
  <2>3. Len(ready) \in Nat
    BY DEF TypeOK
  <2> QED
    BY <1>2, <2>1, <2>2, <2>3 DEF NoLostWakeup
<1>8. FailureIsRetried'
  BY <1>1 DEF FailureIsRetried
<1>9. Phases'
  <2> SUFFICES ASSUME NEW v \in Workers
               PROVE  /\ held'[v] # NoKey <=> pc'[v] \in {"busy", "parked", "finishing"}
                      /\ pc'[v] = "wait" => ~shuttingDown'
                      /\ pc'[v] = "exited" => shuttingDown'
                      /\ pc'[v] = "finishing" /\ fails'[held'[v]] > 0 /\ ~shuttingDown' =>
                            held'[v] \in dirty' \/ backoff'[held'[v]] > 0
    BY DEF Phases
  <2>1. CASE v = w
    BY <1>1, <1>3, <2>1 DEF TypeOK
  <2>2. CASE v # w
    <3>1. held'[v] = held[v] /\ pc'[v] = pc[v]
      BY <1>1, <2>2 DEF TypeOK
    <3>2. pc[v] = "finishing" => held[v] # k
      BY <1>3, <2>2 DEF OneWorkerPerKey, Phases
    <3> QED
      BY <1>1, <3>1, <3>2 DEF Phases
  <2> QED
    BY <2>1, <2>2
<1>10. NoneLeftReady'
  BY <1>1 DEF NoneLeftReady, TypeOK
<1> QED
  BY <1>4, <1>5, <1>6, <1>7, <1>8, <1>9, <1>10

(* done preserves the invariant: a key marked dirty while it was processed is *)
(* ready again before its worker can leave.                                   *)
LEMMA DonePreserves ==
    ASSUME IInv, NEW w \in Workers, done(w)
    PROVE  IInv'
<1> DEFINE k == held[w]
           p == [pc EXCEPT ![w] = "get"]
<1> USE DEF IInv
<1>1. /\ pc[w] = "finishing"
      /\ processing' = processing \ {k}
      /\ held' = [held EXCEPT ![w] = NoKey]
      /\ UNCHANGED <<dirty, shuttingDown, fails, delayed, backoff>>
      /\ IF k \in dirty THEN MakeReady(k, p) ELSE pc' = p /\ ready' = ready
  BY DEF done, timers
<1>2. k \in Keys /\ k \in processing /\ k \notin ToSet(ready)
  BY <1>1, WorkQueueAssumption
     DEF TypeOK, Phases, OneWorkerPerKey, ReadyIsDirtyIdle
<1>3. p \in [Workers -> Locations] /\ Waiters(p) = Waiters(pc)
  BY <1>1 DEF TypeOK, Locations, Waiters
<1>4. Cardinality(Awake(p)) = Cardinality(Awake(pc)) + 1
  <2>1. Awake(p) = Awake(pc) \cup {w} /\ w \notin Awake(pc)
    BY <1>1 DEF TypeOK, Awake
  <2> QED
    BY <2>1, AwakeFinite, FS_AddElement
<1>5. Len(ready) \in Nat /\ Cardinality(Awake(pc)) \in Nat
  BY AwakeFinite DEF TypeOK
<1> HIDE DEF p
<1>6. Waiters(p) # {} => Len(ready) <= Cardinality(Awake(p))
  <2>1. Waiters(pc) # {} => Len(ready) <= Cardinality(Awake(pc))
    BY DEF NoLostWakeup
  <2> QED
    BY <1>3, <1>4, <1>5, <2>1
<1>7. /\ ready' \in Seq(Keys)
      /\ ToSet(ready') = IF k \in dirty THEN ToSet(ready) \cup {k} ELSE ToSet(ready)
      /\ IsInjective(ready')
      /\ pc' \in [Workers -> Locations]
      /\ \A v \in Workers : \/ pc'[v] = p[v]
                            \/ p[v] = "wait" /\ pc'[v] = "get"
      /\ NoLostWakeup'
  <2>1. CASE k \in dirty
    <3>1. MakeReady(k, p)
      BY <1>1, <2>1
    <3> QED
      BY <1>2, <1>3, <1>6, <2>1, <3>1, MakeReadyKeeps DEF TypeOK, ReadyIsDirtyIdle
  <2>2. CASE k \notin dirty
    BY <1>1, <1>3, <1>6, <2>2 DEF TypeOK, ReadyIsDirtyIdle, NoLostWakeup
  <2> QED
    BY <2>1, <2>2
<1>8. pc'[w] = "get"
  BY <1>1, <1>7 DEF TypeOK, p
<1>9. \A v \in Workers \ {w} : \/ pc'[v] = pc[v]
                               \/ pc[v] = "wait" /\ pc'[v] = "get"
  BY <1>7 DEF TypeOK, p
<1>10. TypeOK'
  BY <1>1, <1>7 DEF TypeOK, limiter!TypeOK
<1>11. ReadyIsDirtyIdle'
  BY <1>1, <1>2, <1>7 DEF ReadyIsDirtyIdle
<1>12. OneWorkerPerKey'
  BY <1>1, <1>2 DEF OneWorkerPerKey, TypeOK
<1>13. FailureIsRetried'
  <2>1. fails[k] > 0 /\ ~shuttingDown => k \in dirty \/ backoff[k] > 0
    BY <1>1 DEF Phases
  <2> QED
    BY <1>1, <2>1 DEF FailureIsRetried
<1>14. Phases'
  <2> SUFFICES ASSUME NEW v \in Workers
               PROVE  /\ held'[v] # NoKey <=> pc'[v] \in {"busy", "parked", "finishing"}
                      /\ pc'[v] = "wait" => ~shuttingDown'
                      /\ pc'[v] = "exited" => shuttingDown'
                      /\ pc'[v] = "finishing" /\ fails'[held'[v]] > 0 /\ ~shuttingDown' =>
                            held'[v] \in dirty' \/ backoff'[held'[v]] > 0
    BY DEF Phases
  <2>1. CASE v = w
    BY <1>1, <1>8, <2>1 DEF TypeOK
  <2>2. CASE v # w
    BY <1>1, <1>9, <2>2 DEF Phases, TypeOK
  <2> QED
    BY <2>1, <2>2
<1>15. NoneLeftReady'
  BY <1>8 DEF NoneLeftReady
<1> QED
  BY <1>7, <1>10, <1>11, <1>12, <1>13, <1>14, <1>15

(* The empty queue satisfies the invariant.                                  *)
LEMMA InitEstablishes == Init => IInv
<1> SUFFICES ASSUME Init PROVE IInv
  OBVIOUS
<1> USE DEF Init
<1>1. TypeOK
  <2>1. ready \in Seq(Keys) /\ dirty \subseteq Keys /\ processing \subseteq Keys
    OBVIOUS
  <2>2. limiter!TypeOK
    BY WorkQueueAssumption DEF limiter!Init, limiter!TypeOK, limiter!Parameters
  <2>3. /\ delayed \in [Keys -> 0 .. MaxTimers]
        /\ backoff \in [Keys -> 0 .. MaxTimers]
    BY WorkQueueAssumption
  <2>4. /\ pc \in [Workers -> Locations]
        /\ held \in [Workers -> Keys \cup {NoKey}]
        /\ shuttingDown \in BOOLEAN
    BY DEF Locations
  <2> QED
    BY <2>1, <2>2, <2>3, <2>4 DEF TypeOK
<1>2. ReadyIsDirtyIdle
  BY DEF ReadyIsDirtyIdle, ToSet, IsInjective
<1>3. OneWorkerPerKey
  BY DEF OneWorkerPerKey
<1>4. NoLostWakeup
  BY DEF NoLostWakeup, Waiters
<1>5. FailureIsRetried
  BY DEF FailureIsRetried, limiter!Init
<1>6. Phases /\ NoneLeftReady
  BY WorkQueueAssumption DEF Phases, NoneLeftReady
<1> QED
  BY <1>1, <1>2, <1>3, <1>4, <1>5, <1>6 DEF IInv

(* Every critical section preserves the invariant.                           *)
LEMMA StepPreserves == IInv /\ [Next]_vars => IInv'
<1> SUFFICES ASSUME IInv, [Next]_vars PROVE IInv'
  OBVIOUS
<1> USE DEF IInv
<1>1. ASSUME NEW k \in Keys, Resync(k) PROVE IInv'
  BY <1>1, EnqueuePreserves DEF Resync, timers, TypeOK
<1>2. ASSUME NEW k \in Keys, FireDelayed(k) PROVE IInv'
  <2>1. delayed' \in [Keys -> 0 .. MaxTimers]
    BY <1>2, WorkQueueAssumption DEF FireDelayed, TypeOK
  <2> QED
    BY <1>2, <2>1, EnqueuePreserves DEF FireDelayed, TypeOK
<1>3. ASSUME NEW k \in Keys, FireBackoff(k) PROVE IInv'
  <2>1. /\ backoff' \in [Keys -> 0 .. MaxTimers]
        /\ \A j \in Keys \ {k} : backoff'[j] = backoff[j]
    BY <1>3, WorkQueueAssumption DEF FireBackoff, TypeOK
  <2> QED
    BY <1>3, <2>1, EnqueuePreserves DEF FireBackoff, TypeOK
<1>4. ASSUME NEW w \in Workers, GetKey(w) PROVE IInv'
  BY <1>4, GetKeyPreserves
<1>5. ASSUME NEW w \in Workers, done(w) PROVE IInv'
  BY <1>5, DonePreserves
<1>6. ASSUME NEW w \in Workers, GetWait(w) \/ GetExit(w) PROVE IInv'
  <2>1. /\ pc[w] = "get" /\ ready = <<>>
        /\ \/ pc' = [pc EXCEPT ![w] = "wait"] /\ ~shuttingDown
           \/ pc' = [pc EXCEPT ![w] = "exited"] /\ shuttingDown
        /\ UNCHANGED <<ready, dirty, processing, shuttingDown, fails,
                       delayed, backoff, held>>
    BY <1>6 DEF GetWait, GetExit, queue, timers
  <2>2. TypeOK'
    BY <2>1 DEF TypeOK, limiter!TypeOK, Locations
  <2>3. ReadyIsDirtyIdle' /\ OneWorkerPerKey' /\ FailureIsRetried' /\ NoneLeftReady'
    BY <2>1 DEF ReadyIsDirtyIdle, OneWorkerPerKey, FailureIsRetried, NoneLeftReady
  <2>4. NoLostWakeup'
    BY <2>1, AwakeFinite DEF NoLostWakeup
  <2>5. Phases'
    BY <2>1 DEF Phases, TypeOK
  <2> QED
    BY <2>2, <2>3, <2>4, <2>5
<1>7. ASSUME NEW w \in Workers, process(w) PROVE IInv'
  <2>1. /\ pc[w] \in {"busy", "parked"} /\ held[w] \in Keys
        /\ UNCHANGED <<ready, dirty, processing, shuttingDown, held>>
    BY <1>7 DEF process, RequeueAfter, Succeed, Fail, queue, Phases, TypeOK
  <2>2. \E l \in {"parked", "finishing"} : pc' = [pc EXCEPT ![w] = l]
    BY <1>7 DEF process, RequeueAfter, Succeed, Fail
  <2>3. /\ Waiters(pc') = Waiters(pc)
        /\ Awake(pc') = Awake(pc)
    BY <2>1, <2>2 DEF Waiters, Awake, TypeOK
  <2>4. ReadyIsDirtyIdle' /\ OneWorkerPerKey' /\ NoLostWakeup' /\ NoneLeftReady'
    BY <2>1, <2>2, <2>3
       DEF ReadyIsDirtyIdle, OneWorkerPerKey, NoLostWakeup, NoneLeftReady, TypeOK
  <2>5. TypeOK' /\ FailureIsRetried' /\ Phases'
    <3>1. CASE RequeueAfter(w)
      BY <3>1, <2>1, WorkQueueAssumption
         DEF RequeueAfter, TypeOK, limiter!TypeOK, Locations, FailureIsRetried, Phases
    <3>2. CASE Succeed(w)
      BY <3>2, <2>1, WorkQueueAssumption
         DEF Succeed, limiter!Forget, limiter!Parameters, timers, TypeOK,
             limiter!TypeOK, Locations, FailureIsRetried, Phases
    <3>3. CASE Fail(w)
      <4>1. /\ fails[held[w]] \in 0 .. MaxFails /\ fails[held[w]] < MaxFails
            /\ backoff[held[w]] \in 0 .. MaxTimers /\ backoff[held[w]] < MaxTimers
            /\ fails' = [fails EXCEPT ![held[w]] = @ + 1]
            /\ backoff' = [backoff EXCEPT ![held[w]] = @ + 1]
            /\ delayed' = delayed /\ pc' = [pc EXCEPT ![w] = "finishing"]
        BY <3>3, <2>1 DEF Fail, limiter!When, TypeOK, limiter!TypeOK
      <4>2. /\ fails' \in [Keys -> 0 .. MaxFails]
            /\ backoff' \in [Keys -> 0 .. MaxTimers]
            /\ backoff'[held[w]] > 0
            /\ \A j \in Keys \ {held[w]} : fails'[j] = fails[j] /\ backoff'[j] = backoff[j]
        BY <2>1, <4>1, WorkQueueAssumption DEF TypeOK, limiter!TypeOK, limiter!Parameters
      <4>3. TypeOK'
        BY <2>1, <4>1, <4>2 DEF TypeOK, limiter!TypeOK, Locations
      <4>4. FailureIsRetried'
        BY <2>1, <4>2 DEF FailureIsRetried
      <4>5. Phases'
        BY <2>1, <4>1, <4>2 DEF Phases, TypeOK
      <4> QED
        BY <4>3, <4>4, <4>5
    <3> QED
      BY <1>7, <3>1, <3>2, <3>3 DEF process
  <2> QED
    BY <2>4, <2>5
<1>8. ASSUME shutDown PROVE IInv'
  <2>1. /\ UNCHANGED <<ready, dirty, processing, fails, delayed, backoff, held>>
        /\ shuttingDown' = TRUE
        /\ pc' = [w \in Workers |-> IF pc[w] = "wait" THEN "get" ELSE pc[w]]
        /\ \A w \in Workers : pc[w] # "exited"
    BY <1>8 DEF shutDown, timers, Phases
  <2>2. TypeOK'
    BY <2>1 DEF TypeOK, limiter!TypeOK, Locations
  <2>3. ReadyIsDirtyIdle' /\ OneWorkerPerKey' /\ FailureIsRetried' /\ Phases'
    BY <2>1 DEF ReadyIsDirtyIdle, OneWorkerPerKey, FailureIsRetried, Phases
  <2>4. NoLostWakeup'
    BY <2>1 DEF NoLostWakeup, Waiters
  <2>5. NoneLeftReady'
    BY <2>1, WorkQueueAssumption DEF NoneLeftReady
  <2> QED
    BY <2>2, <2>3, <2>4, <2>5
<1>9. ASSUME UNCHANGED vars PROVE IInv'
  BY <1>9 DEF vars, queue, timers, threads, TypeOK, limiter!TypeOK,
              ReadyIsDirtyIdle, OneWorkerPerKey, NoLostWakeup, FailureIsRetried,
              Phases, NoneLeftReady
<1> QED
  BY <1>1, <1>2, <1>3, <1>4, <1>5, <1>6, <1>7, <1>8, <1>9
     DEF Next, worker, get
-------------------------------------------------------------------------------
(* IInv holds in every reachable state: of enqueue, get, done, shutDown and *)
(* the timers, none breaks the agreement of the queue's containers.         *)
THEOREM Invariance == SafetySpec => []IInv
  BY InitEstablishes, StepPreserves, PTL DEF SafetySpec

(* The queue's containers, timers and workers stay within their types, for  *)
(* any bound on timers and failures.                                        *)
THEOREM TypeCorrect == SafetySpec => []TypeOK
<1>1. IInv => TypeOK
  BY DEF IInv
<1> QED
  BY <1>1, Invariance, PTL

(* A key is ready at most once, and exactly when it is dirty and idle:      *)
(* enqueue's two early returns and done's re-add keep the FIFO a set.       *)
THEOREM ReadyAgrees == SafetySpec => []ReadyIsDirtyIdle
<1>1. IInv => ReadyIsDirtyIdle
  BY DEF IInv
<1> QED
  BY <1>1, Invariance, PTL

(* The same key is never held by two workers at once (queue.go:12-14).      *)
THEOREM Exclusion == SafetySpec => []OneWorkerPerKey
<1>1. IInv => OneWorkerPerKey
  BY DEF IInv
<1> QED
  BY <1>1, Invariance, PTL

(* One Signal per appended key is enough for a pool of any size.            *)
THEOREM WakeupsSuffice == SafetySpec => []NoLostWakeup
<1>1. IInv => NoLostWakeup
  BY DEF IInv
<1> QED
  BY <1>1, Invariance, PTL

(* A failing key always has a retry ahead of it until shutdown.             *)
THEOREM RetryAhead == SafetySpec => []FailureIsRetried
<1>1. IInv => FailureIsRetried
  BY DEF IInv
<1> QED
  BY <1>1, Invariance, PTL

(* Workers that have all left shutDown's queue left nothing in it: no key   *)
(* is processing without a worker, so a dirty one would still be ready.     *)
THEOREM ExitMeansDrained == SafetySpec => []DrainedAtExit
<1>1. IInv => DrainedAtExit
  <2> SUFFICES ASSUME IInv, \A w \in Workers : pc[w] = "exited"
               PROVE  dirty = {} /\ processing = {}
    BY DEF DrainedAtExit
  <2>1. \A w \in Workers : held[w] = NoKey
    BY DEF IInv, Phases
  <2>2. processing = {}
    BY <2>1 DEF IInv, OneWorkerPerKey
  <2>3. ready = <<>>
    BY DEF IInv, NoneLeftReady
  <2> QED
    BY <2>2, <2>3 DEF IInv, ReadyIsDirtyIdle, ToSet
<1> QED
  BY <1>1, Invariance, PTL

(* Every behaviour of the queue, with its FIFO, condition variable, timers  *)
(* and limiter, is one of KeyQueue (the safety half of ImplementsKeyQueue): *)
(* a critical section adds one debt, takes one, releases one, closes the    *)
(* queue, or changes nothing KeyQueue can see.                              *)
THEOREM Implementation == SafetySpec => Abstract!SafetySpec
<1>1. Init => Abstract!Init
  BY DEF Init, Abstract!Init
<1>2. IInv /\ [Next]_vars => [Abstract!Next]_Abstract!vars
  <2> SUFFICES ASSUME IInv, [Next]_vars
               PROVE  Abstract!Next \/ UNCHANGED <<dirty, held, shuttingDown>>
    BY DEF Abstract!vars
  <2>1. ASSUME NEW k \in Keys, enqueue(k)
        PROVE  Abstract!Next \/ UNCHANGED <<dirty, held, shuttingDown>>
    <3>1. CASE shuttingDown \/ k \in dirty
      BY <2>1, <3>1 DEF enqueue
    <3>2. CASE ~(shuttingDown \/ k \in dirty)
      <4>1. Abstract!Add(k)
        BY <2>1, <3>2 DEF enqueue, Abstract!Add
      <4> QED
        BY <4>1 DEF Abstract!Next
    <3> QED
      BY <3>1, <3>2
  <2>2. ASSUME NEW w \in Workers, GetKey(w)
        PROVE  Abstract!Next
    <3>1. /\ Head(ready) \in Keys /\ Head(ready) \in ToSet(ready)
      BY <2>2, TailDistinct DEF GetKey, IInv, TypeOK, ReadyIsDirtyIdle
    <3>2. Head(ready) \in dirty \ Abstract!InFlight
      BY <3>1 DEF IInv, ReadyIsDirtyIdle, OneWorkerPerKey, Abstract!InFlight
    <3>3. held[w] = NoKey
      BY <2>2 DEF GetKey, IInv, Phases
    <3>4. Abstract!Take(w, Head(ready))
      BY <2>2, <3>2, <3>3 DEF GetKey, Abstract!Take
    <3> QED
      BY <3>1, <3>4 DEF Abstract!Next
  <2>3. ASSUME NEW w \in Workers, done(w)
        PROVE  Abstract!Next
    <3>1. held[w] # NoKey
      BY <2>3 DEF done, IInv, Phases
    <3>2. Abstract!Release(w)
      BY <2>3, <3>1 DEF done, Abstract!Release
    <3> QED
      BY <3>2 DEF Abstract!Next
  <2>4. ASSUME NEW w \in Workers, GetWait(w) \/ GetExit(w) \/ process(w)
        PROVE  UNCHANGED <<dirty, held, shuttingDown>>
    BY <2>4 DEF GetWait, GetExit, process, RequeueAfter, Succeed, Fail, queue
  <2>5. ASSUME shutDown PROVE Abstract!Next
    <3>1. Abstract!Close
      BY <2>5 DEF shutDown, Abstract!Close
    <3> QED
      BY <3>1 DEF Abstract!Next
  <2>6. ASSUME UNCHANGED vars PROVE UNCHANGED <<dirty, held, shuttingDown>>
    BY <2>6 DEF vars, queue, threads
  <2> QED
    BY <2>1, <2>2, <2>3, <2>4, <2>5, <2>6
       DEF Next, worker, get, Resync, FireDelayed, FireBackoff
<1> QED
  BY <1>1, <1>2, Invariance, PTL DEF SafetySpec, Abstract!SafetySpec
-------------------------------------------------------------------------------
(* The limiter, with the queue calling it.                                  *)
limits == INSTANCE RateLimiterProofs

LEMMA SameLimiter ==
    /\ limiter!CapFits => limits!CapFits
    /\ limits!Parameters
    /\ \A n : limits!Delay(n) = limiter!Delay(n) /\ limits!Meant(n) = limiter!Meant(n)
  BY WorkQueueAssumption
  DEF WorkQueueAssumption, limiter!CapFits, limits!CapFits, limiter!Parameters,
      limits!Parameters, limiter!Doubled, limits!Doubled, limiter!Delay, limits!Delay,
      limiter!Shifted, limits!Shifted, limiter!Wrap, limits!Wrap, limiter!Meant, limits!Meant

(* The shift computes base times 2^failures, capped at max.                 *)
THEOREM DelaysAsMeant ==
    ASSUME limiter!CapFits
    PROVE  SafetySpec => []DelayAsMeant
<1>1. limits!DelayAsMeant
  BY SameLimiter, limits!DelaysAsMeant
<1>2. DelayAsMeant
  BY <1>1, SameLimiter
  DEF DelayAsMeant, limiter!DelayAsMeant, limits!DelayAsMeant
<1> QED
  BY <1>2, PTL

LEMMA LimiterSteps ==
    ASSUME IInv, [Next]_vars
    PROVE  \/ UNCHANGED fails
           \/ \E k \in Keys : limiter!When(k) \/ limiter!Forget(k)
<1>1. ASSUME NEW w \in Workers, process(w)
      PROVE  \/ UNCHANGED fails
             \/ \E k \in Keys : limiter!When(k) \/ limiter!Forget(k)
  <2>1. pc[w] \in {"busy", "parked"} => held[w] \in Keys
    BY DEF IInv, Phases, TypeOK
  <2> QED
    BY <1>1, <2>1 DEF process, RequeueAfter, Succeed, Fail
<1> QED
  BY <1>1 DEF Next, worker, get, GetKey, GetWait, GetExit, done, shutDown, Resync,
              FireDelayed, FireBackoff, vars

(* Whatever the queue does, it counts or forgets one key's failures at a     *)
(* time, and a key's delay shrinks only when they are forgotten.            *)
THEOREM BackoffPerItem ==
    ASSUME limiter!CapFits
    PROVE  SafetySpec => PerItemBackoff
<1>1. IInv /\ [Next]_vars => [limiter!BackoffStep]_fails
  <2> SUFFICES ASSUME IInv, [Next]_vars, fails' # fails
               PROVE  limiter!BackoffStep
    OBVIOUS
  <2>1. PICK i \in Keys : limits!When(i) \/ limits!Forget(i)
    BY LimiterSteps DEF limiter!When, limits!When, limiter!Forget, limits!Forget
  <2>2. limits!TypeOK
    BY DEF IInv, TypeOK, limiter!TypeOK, limits!TypeOK
  <2>3. limits!BackoffStep
    BY <2>1, <2>2, SameLimiter, limits!OneItem
  <2> QED
    BY <2>3, SameLimiter DEF limiter!BackoffStep, limits!BackoffStep
<1> QED
  BY <1>1, Invariance, PTL DEF SafetySpec, PerItemBackoff, limiter!PerItemBackoff
===============================================================================

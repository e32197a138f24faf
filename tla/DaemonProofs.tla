------------------------------ MODULE DaemonProofs -----------------------------
(***************************************************************************)
(* What TLAPS proves about setpointd as module Daemon has it, for any      *)
(* keys, handlers, workers and requests.                                   *)
(***************************************************************************)
EXTENDS Daemon, TLAPS

\* What List relies on: a write that no reconcile has read is of a resource
\* that is stored, since whoever removes one drops its writes with it.
UnreadStored == unread \subseteq Stored

\* NothingOverlooked is inductive with that.
IInv == TypeOK /\ UnreadStored /\ NothingOverlooked

(* Every step of the daemon by its names, so that a proof can split on it. *)
LEMMA Steps ==
    ASSUME Next
    PROVE  \/ \E h \in Handlers : Accept(h) \/ Refuse(h) \/ Nudge(h)
           \/ \E h \in Handlers, k \in Keys : put(h, k) \/ delete(h, k)
           \/ List \/ Listed \/ Tick \/ ReceiveNudge \/ LoopReturns
           \/ \E k \in Keys : EnqueueListed(k)
           \/ \E w \in Workers : Fetch(w) \/ Reconcile(w) \/ Finish(w)
           \/ \E w \in Workers, k \in Keys : Take(w, k)
           \/ Signal \/ Bridge \/ Shutdown \/ Exit
  BY DEF Next, HandlerStep, LoopStep, WorkerStep, ServeReturns, ServeFails
-------------------------------------------------------------------------------
LEMMA InitTyped == ASSUME Init PROVE TypeOK
<1>1. requests \in 0 .. MaxRequests
  BY DaemonAssumption DEF DaemonAssumption, Init
<1>2. Q!TypeOK
  BY DEF Init, Q!Init, Q!TypeOK
<1>3. \A w \in Workers : at[w] = "idle" <=> held[w] = NoKey
  BY DEF Init, Q!Init
<1> QED
  BY <1>1, <1>2, <1>3 DEF Init, TypeOK

(* The steps of handlers, of the resync loop and of the workers keep types. *)
LEMMA HandlersTyped ==
    ASSUME TypeOK, NEW h \in Handlers,
           \/ Accept(h) \/ Refuse(h) \/ Nudge(h)
           \/ \E k \in Keys : put(h, k) \/ delete(h, k)
    PROVE  TypeOK'
  <1> USE DaemonAssumption DEF DaemonAssumption, TypeOK, Q!TypeOK, queue, data, process
  <1>1. CASE Accept(h)
    BY <1>1 DEF Accept
  <1>2. CASE Refuse(h)
    BY <1>2 DEF Refuse
  <1>3. CASE Nudge(h)
    BY <1>3 DEF Nudge
  <1>4. ASSUME NEW k \in Keys, put(h, k) PROVE TypeOK'
    BY <1>4 DEF put, Write
  <1>5. ASSUME NEW k \in Keys, delete(h, k) PROVE TypeOK'
    BY <1>5 DEF delete, Write
  <1> QED BY <1>1, <1>2, <1>3, <1>4, <1>5

LEMMA LoopTyped ==
    ASSUME TypeOK,
           \/ List \/ Listed \/ Tick \/ ReceiveNudge \/ LoopReturns
           \/ \E k \in Keys : EnqueueListed(k)
    PROVE  TypeOK'
  <1> USE DEF TypeOK, Q!TypeOK, queue, data, clients, process, LoopTo
  <1>1. CASE List
    BY <1>1 DEF List, Stored
  <1>2. CASE Listed
    BY <1>2 DEF Listed
  <1>3. CASE Tick
    BY <1>3 DEF Tick
  <1>4. CASE ReceiveNudge
    BY <1>4 DEF ReceiveNudge
  <1>5. CASE LoopReturns
    BY <1>5 DEF LoopReturns
  <1>6. ASSUME NEW k \in Keys, EnqueueListed(k) PROVE TypeOK'
    BY <1>6 DEF EnqueueListed, Q!Add
  <1> QED BY <1>1, <1>2, <1>3, <1>4, <1>5, <1>6

LEMMA WorkersTyped ==
    ASSUME TypeOK, NEW w \in Workers,
           \/ Fetch(w) \/ Reconcile(w) \/ Finish(w)
           \/ \E k \in Keys : Take(w, k)
    PROVE  TypeOK'
  <1> USE DaemonAssumption DEF DaemonAssumption, TypeOK, Q!TypeOK, queue, data, clients, process, Step
  <1>1. CASE Fetch(w)
    BY <1>1 DEF Fetch, Stored
  <1>2. CASE Reconcile(w)
    BY <1>2 DEF Reconcile
  <1>3. CASE Finish(w)
    BY <1>3 DEF Finish, Q!Release
  <1>4. ASSUME NEW k \in Keys, Take(w, k) PROVE TypeOK'
    BY <1>4 DEF Take, Q!Take
  <1> QED BY <1>1, <1>2, <1>3, <1>4

LEMMA ProcessTyped ==
    ASSUME TypeOK, Signal \/ Bridge \/ Shutdown \/ Exit
    PROVE  TypeOK'
  <1> USE DEF TypeOK, Q!TypeOK, queue, data, clients, process, others
  <1>1. CASE Signal
    BY <1>1 DEF Signal
  <1>2. CASE Bridge
    BY <1>2 DEF Bridge, Q!Close
  <1>3. CASE Shutdown
    BY <1>3 DEF Shutdown
  <1>4. CASE Exit
    BY <1>4 DEF Exit
  <1> QED BY <1>1, <1>2, <1>3, <1>4

LEMMA StaysTyped == ASSUME TypeOK, Next PROVE TypeOK'
  BY Steps, HandlersTyped, LoopTyped, WorkersTyped, ProcessTyped

(* The types hold, for any constants.                                       *)
THEOREM TypeCorrect == SafetySpec => []TypeOK
<1>1. TypeOK /\ UNCHANGED vars => TypeOK'
  BY DEF TypeOK, Q!TypeOK, vars, queue, data, clients, process
<1> QED
  BY <1>1, InitTyped, StaysTyped, PTL DEF SafetySpec
-------------------------------------------------------------------------------
(* A write that is not read is of a stored resource: a handler stores what   *)
(* it writes, and removeFromStore takes the writes with the resource.        *)
LEMMA StaysStored == ASSUME TypeOK, UnreadStored, Next PROVE UnreadStored'
<1> USE DEF UnreadStored, Stored
<1>1. CASE UNCHANGED data
  BY <1>1 DEF data
<1>2. ASSUME NEW h \in Handlers, NEW k \in Keys, put(h, k) \/ delete(h, k)
      PROVE  UnreadStored'
  <2>1. PICK v \in {"wanted", "leaving"} : Write(h, k, v)
    BY <1>2 DEF put, delete
  <2> QED
    BY <2>1 DEF Write, TypeOK
<1>3. ASSUME NEW w \in Workers, Fetch(w) PROVE UnreadStored'
  BY <1>3 DEF Fetch
<1>4. ASSUME NEW w \in Workers, Reconcile(w) PROVE UnreadStored'
  BY <1>4 DEF Reconcile, data, TypeOK
<1>5. CASE Exit
  BY <1>5 DEF Exit
<1>6. \/ UNCHANGED data
      \/ \E h \in Handlers, k \in Keys : put(h, k) \/ delete(h, k)
      \/ \E w \in Workers : Fetch(w) \/ Reconcile(w)
      \/ Exit
  BY Steps DEF Accept, Refuse, Nudge, List, Listed, Tick, ReceiveNudge,
     LoopReturns, LoopTo, EnqueueListed, Finish, Take, Signal, Bridge, Shutdown, others
<1> QED
  BY <1>1, <1>2, <1>3, <1>4, <1>5, <1>6

\* What NothingOverlooked says is under way for the write of k.
Ahead(k) ==
    \/ nudge \/ loop = "list" \/ k \in todo \cup pending
    \/ \E h \in Handlers : req[h] = "nudging"
    \/ \E w \in Workers : held[w] = k /\ at[w] = "fetch"
    \/ closed \/ loop = "returned"

(* A handler's write is ahead because that handler nudges; no handler's step *)
(* takes away what is ahead of another write, a dropped nudge included.      *)
LEMMA HandlersOverlookNothing ==
    ASSUME IInv, NEW h \in Handlers,
           \/ Accept(h) \/ Refuse(h) \/ Nudge(h)
           \/ \E k \in Keys : put(h, k) \/ delete(h, k)
    PROVE  \A k \in unread' : Ahead(k)'
<1>1. \A k \in unread : Ahead(k)
  BY DEF IInv, NothingOverlooked, Ahead
<1>2. ASSUME NEW k \in Keys, put(h, k) \/ delete(h, k) PROVE req'[h] = "nudging"
  <2>1. PICK v \in {"wanted", "leaving"} : Write(h, k, v)
    BY <1>2 DEF put, delete
  <2> QED
    BY <2>1 DEF Write, IInv, TypeOK
<1>3. CASE Accept(h) \/ Refuse(h)
  <2>1. /\ UNCHANGED <<unread, nudge, loop, todo, pending, held, at, closed>>
        /\ \A g \in Handlers : req[g] = "nudging" => req'[g] = "nudging"
    BY <1>3 DEF Accept, Refuse, Received, queue, data, IInv, TypeOK
  <2> QED
    BY <1>1, <2>1 DEF Ahead
<1>4. CASE Nudge(h)
  BY <1>4 DEF Nudge, Ahead
<1> QED
  BY <1>2, <1>3, <1>4 DEF Ahead

(* The loop's steps hand a write on: a nudge or a tick becomes a listing, the *)
(* listing has every stored key, and each of them gets into the queue.        *)
LEMMA LoopOverlooksNothing ==
    ASSUME IInv,
           \/ List \/ Listed \/ Tick \/ ReceiveNudge \/ LoopReturns
           \/ \E k \in Keys : EnqueueListed(k)
    PROVE  \A k \in unread' : Ahead(k)'
<1>1. \A k \in unread : Ahead(k)
  BY DEF IInv, NothingOverlooked, Ahead
<1>2. CASE List
  BY <1>2 DEF List, LoopTo, data, IInv, UnreadStored, Ahead
<1>3. CASE Listed
  BY <1>1, <1>3 DEF Listed, LoopTo, queue, data, clients, Ahead
<1>4. CASE Tick \/ ReceiveNudge \/ LoopReturns
  BY <1>4 DEF Tick, ReceiveNudge, LoopReturns, LoopTo, Ahead
<1>5. ASSUME NEW k \in Keys, EnqueueListed(k) PROVE \A j \in unread' : Ahead(j)'
  <2>1. /\ UNCHANGED <<unread, nudge, loop, req, held, at, closed>>
        /\ closed \/ pending' = pending \cup {k}
        /\ todo' = todo \ {k}
    BY <1>5 DEF EnqueueListed, Q!Add, queue, data, clients
  <2> QED
    BY <1>1, <2>1 DEF Ahead
<1> QED
  BY <1>2, <1>3, <1>4, <1>5

(* A worker that takes a key has yet to read it, and has read it when it is  *)
(* past that; the others' keys are theirs.                                   *)
LEMMA WorkersOverlookNothing ==
    ASSUME IInv, NEW w \in Workers,
           \/ Fetch(w) \/ Reconcile(w) \/ Finish(w)
           \/ \E k \in Keys : Take(w, k)
    PROVE  \A k \in unread' : Ahead(k)'
<1>1. \A k \in unread : Ahead(k)
  BY DEF IInv, NothingOverlooked, Ahead
<1>2. CASE Fetch(w)
  <2>1. /\ unread' = unread \ {held[w]}
        /\ UNCHANGED <<nudge, loop, todo, pending, held, req, closed>>
        /\ \A v \in Workers \ {w} : at'[v] = at[v]
    BY <1>2 DEF Fetch, Step, queue, clients, IInv, TypeOK
  <2> QED
    BY <1>1, <2>1 DEF Ahead
<1>3. CASE Reconcile(w)
  <2>1. /\ unread' \subseteq unread
        /\ UNCHANGED <<nudge, loop, todo, pending, held, req, closed>>
        /\ \A v \in Workers : at[v] = "fetch" => at'[v] = "fetch"
    BY <1>3 DEF Reconcile, Step, queue, data, clients, IInv, TypeOK
  <2> QED
    BY <1>1, <2>1 DEF Ahead
<1>4. CASE Finish(w)
  <2>1. /\ UNCHANGED <<unread, nudge, loop, todo, pending, req, closed>>
        /\ \A v \in Workers : at[v] = "fetch" => at'[v] = "fetch" /\ held'[v] = held[v]
    BY <1>4 DEF Finish, Q!Release, Step, data, clients, IInv, TypeOK, Q!TypeOK
  <2> QED
    BY <1>1, <2>1 DEF Ahead
<1>5. ASSUME NEW k \in Keys, Take(w, k) PROVE \A j \in unread' : Ahead(j)'
  <2>1. /\ UNCHANGED <<unread, nudge, loop, todo, req, closed>>
        /\ pending' = pending \ {k}
        /\ held'[w] = k /\ at'[w] = "fetch"
    BY <1>5 DEF Take, Q!Take, Step, data, clients, IInv, TypeOK, Q!TypeOK
  <2>2. \A v \in Workers : at[v] = "fetch" => at'[v] = "fetch" /\ held'[v] = held[v]
    BY <1>5 DEF Take, Q!Take, Step, IInv, TypeOK, Q!TypeOK
  <2> QED
    BY <1>1, <2>1, <2>2 DEF Ahead
<1> QED
  BY <1>2, <1>3, <1>4, <1>5

(* A signal and the shutdown take nothing away, and a process that is gone    *)
(* has nothing left to overlook.                                             *)
LEMMA ProcessOverlooksNothing ==
    ASSUME IInv, Signal \/ Bridge \/ Shutdown \/ Exit
    PROVE  \A k \in unread' : Ahead(k)'
<1>1. \A k \in unread : Ahead(k)
  BY DEF IInv, NothingOverlooked, Ahead
<1>2. CASE Signal \/ Shutdown
  BY <1>1, <1>2 DEF Signal, Shutdown, others, queue, data, clients, Ahead
<1>3. CASE Bridge
  BY <1>3 DEF Bridge, Q!Close, Ahead
<1>4. CASE Exit
  BY <1>4 DEF Exit
<1> QED
  BY <1>2, <1>3, <1>4

(* Together with the types and UnreadStored, NothingOverlooked is inductive.  *)
THEOREM Invariance == SafetySpec => []IInv
<1>1. Init => IInv
  BY InitTyped DEF Init, IInv, UnreadStored, NothingOverlooked
<1>2. IInv /\ Next => IInv'
  <2> SUFFICES ASSUME IInv, Next PROVE IInv'
    OBVIOUS
  <2>1. TypeOK' /\ UnreadStored'
    BY StaysTyped, StaysStored DEF IInv
  <2>2. \A k \in unread' : Ahead(k)'
    BY Steps, HandlersOverlookNothing, LoopOverlooksNothing,
       WorkersOverlookNothing, ProcessOverlooksNothing
  <2> QED
    BY <2>1, <2>2 DEF IInv, NothingOverlooked, Ahead
<1>3. IInv /\ UNCHANGED vars => IInv'
  <2> SUFFICES ASSUME IInv, UNCHANGED vars PROVE IInv'
    OBVIOUS
  <2>1. TypeOK'
    BY DEF IInv, TypeOK, Q!TypeOK, vars, queue, data, clients, process
  <2>2. UnreadStored' /\ NothingOverlooked'
    BY DEF IInv, UnreadStored, Stored, NothingOverlooked, vars, queue, data, clients
  <2> QED
    BY <2>1, <2>2 DEF IInv
<1> QED
  BY <1>1, <1>2, <1>3, PTL DEF SafetySpec

(* No accepted write is overlooked, for any keys, handlers and workers: a     *)
(* nudge that is dropped while one is pending loses nothing, and neither does *)
(* a write that comes after the listing (reconciler.go:84-92, 122-148).       *)
THEOREM NoWriteOverlooked == SafetySpec => []NothingOverlooked
<1>1. IInv => NothingOverlooked
  BY DEF IInv
<1> QED
  BY <1>1, Invariance, PTL
===============================================================================

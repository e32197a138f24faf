-------------------------------- MODULE Daemon --------------------------------
(***************************************************************************)
(* setpointd (cmd/setpointd): how a client's write gets from an HTTP       *)
(* handler (core/server) to a worker, through the Store, the nudge and the *)
(* resync loop (Nudge, resyncLoop and resync of reconciler.go), and how    *)
(* the process ends.  The queue is KeyQueue; of a reconcile only its read  *)
(* of the resource, the removal of one that is marked, and its end are     *)
(* left, and the timers' re-adds are left out: they add keys to the queue, *)
(* as a tick may at any time.  Module Reconciler has both.                  *)
(***************************************************************************)
EXTENDS Naturals, FiniteSets

CONSTANTS
    Keys, Workers, NoKey,
    Handlers,     \* the goroutines that serve a request
    Requests,     \* what clients send, a method and a key
    MaxRequests   \* bound on how often they do

ASSUME DaemonAssumption ==
    /\ NoKey \notin Keys
    /\ Requests \subseteq [op : {"put", "delete"}, key : Keys]
    /\ MaxRequests \in Nat

VARIABLES
    pending, held, closed,   \* the queue
    stored,     \* stored[k]: "absent", "wanted", or "leaving" if it is marked
    unread,     \* history: stored keys whose last write no reconcile has read
    at,         \* at[w]: worker w's next step; "wanted" and "leaving" are what it read
    nudge,      \* the channel r.nudge, of capacity one, holds a value
    loop,       \* where the resync loop is
    todo,       \* the rest of the listing that resync works through
    req,        \* req[h]: the request h serves
    requests,   \* how many there have been
    signalled,  \* SIGTERM or SIGINT arrived: the context is cancelled
    serving,    \* the server accepts connections
    gone        \* the process has exited

Q == INSTANCE KeyQueue

queue   == <<pending, held, closed>>
data    == <<stored, unread>>
clients == <<req, requests>>
process == <<signalled, serving, gone>>
vars    == <<queue, data, at, nudge, loop, todo, clients, process>>

\* Types; a worker is idle exactly while it has no key, and a listing is worked
\* through at "enqueue" only.
TypeOK ==
    /\ Q!TypeOK
    /\ stored \in [Keys -> {"absent", "wanted", "leaving"}]
    /\ unread \subseteq Keys
    /\ at \in [Workers -> {"idle", "fetch", "wanted", "leaving", "finish"}]
    /\ \A w \in Workers : at[w] = "idle" <=> held[w] = NoKey
    /\ nudge \in BOOLEAN
    /\ loop \in {"list", "enqueue", "select", "returned"}
    /\ todo \subseteq Keys /\ (todo # {} => loop = "enqueue")
    /\ req \in [Handlers -> {"free", "reading", "nudging"}]
    /\ requests \in 0 .. MaxRequests
    /\ signalled \in BOOLEAN /\ serving \in BOOLEAN /\ gone \in BOOLEAN

Init ==
    /\ Q!Init
    /\ stored = [k \in Keys |-> "absent"]
    /\ unread = {}
    /\ at = [w \in Workers |-> "idle"]
    /\ nudge = FALSE
    /\ loop = "list"
    /\ todo = {}
    /\ req = [h \in Handlers |-> "free"]
    /\ requests = 0
    /\ signalled = FALSE /\ serving = TRUE /\ gone = FALSE

Alive == ~gone

Stored == {k \in Keys : stored[k] # "absent"}
-------------------------------------------------------------------------------
(* The handlers.                                                           *)

\* A connection is accepted; its body may be slow to come.
Accept(h) ==
    /\ Alive /\ serving /\ requests < MaxRequests
    /\ req[h] = "free"
    /\ req' = [req EXCEPT ![h] = "reading"]
    /\ requests' = requests + 1
    /\ UNCHANGED <<queue, data, at, nudge, loop, todo, process>>

Received(h, op, k) == req[h] = "reading" /\ [op |-> op, key |-> k] \in Requests

\* 400 for a body or a references block that is not valid, 404 for a DELETE of
\* what is not there: neither writes nor nudges.
Refuse(h) ==
    /\ Alive
    /\ \E k \in Keys :
          Received(h, "put", k) \/ (Received(h, "delete", k) /\ k \notin Stored)
    /\ req' = [req EXCEPT ![h] = "free"]
    /\ UNCHANGED <<queue, data, at, nudge, loop, todo, requests, process>>

\* The handler's one call of the Store.
Write(h, k, value) ==
    /\ stored' = [stored EXCEPT ![k] = value]
    /\ unread' = unread \cup {k}
    /\ req' = [req EXCEPT ![h] = "nudging"]
    /\ UNCHANGED <<queue, at, nudge, loop, todo, requests, process>>

\* A PUT keeps the deletion mark.
put(h, k) ==
    /\ Alive /\ Received(h, "put", k)
    /\ Write(h, k, IF stored[k] = "leaving" THEN "leaving" ELSE "wanted")

delete(h, k) ==
    /\ Alive /\ Received(h, "delete", k) /\ k \in Stored
    /\ Write(h, k, "leaving")

\* A slip: the channel has no buffer, so a nudge needs a loop that waits for it.
NudgeUnbuffered(h) ==
    /\ Alive /\ req[h] = "nudging"
    /\ nudge' = (nudge \/ loop = "select")
    /\ req' = [req EXCEPT ![h] = "free"]
    /\ UNCHANGED <<queue, data, at, loop, todo, requests, process>>

\* Nudge, which is dropped when one is pending; then the 202.
Nudge(h) ==
    /\ Alive /\ req[h] = "nudging"
    /\ nudge' = TRUE
    /\ req' = [req EXCEPT ![h] = "free"]
    /\ UNCHANGED <<queue, data, at, loop, todo, requests, process>>
-------------------------------------------------------------------------------
(* The resync loop.                                                        *)

LoopTo(l) == loop' = l /\ UNCHANGED <<queue, data, at, clients, process>>

\* resync: store.List, one moment's view of the Store, in no order.
List ==
    /\ Alive /\ loop = "list"
    /\ todo' = Stored
    /\ LoopTo("enqueue") /\ UNCHANGED nudge

\* resync: enqueue of the next resource of the listing, gone or not.
EnqueueListed(k) ==
    /\ Alive /\ loop = "enqueue" /\ k \in todo
    /\ IF closed THEN UNCHANGED queue ELSE Q!Add(k)
    /\ todo' = todo \ {k}
    /\ UNCHANGED <<data, at, nudge, loop, clients, process>>

\* A slip: the nudges that came in meanwhile count as served by this listing.
ListedDraining ==
    /\ Alive /\ loop = "enqueue" /\ todo = {}
    /\ nudge' = FALSE
    /\ LoopTo("select") /\ UNCHANGED todo

\* resyncLoop: back in the select, and the three ways out of it.
Listed ==
    /\ Alive /\ loop = "enqueue" /\ todo = {}
    /\ LoopTo("select") /\ UNCHANGED <<nudge, todo>>

Tick ==
    /\ Alive /\ loop = "select"
    /\ LoopTo("list") /\ UNCHANGED <<nudge, todo>>

ReceiveNudge ==
    /\ Alive /\ loop = "select" /\ nudge
    /\ nudge' = FALSE
    /\ LoopTo("list") /\ UNCHANGED todo

LoopReturns ==
    /\ Alive /\ loop = "select" /\ signalled
    /\ LoopTo("returned") /\ UNCHANGED <<nudge, todo>>
-------------------------------------------------------------------------------
(* The workers.                                                            *)

Step(w, s) == at' = [at EXCEPT ![w] = s]

Take(w, k) ==
    /\ Alive /\ Q!Take(w, k)
    /\ Step(w, "fetch")
    /\ UNCHANGED <<data, nudge, loop, todo, clients, process>>

\* process: store.Get.
Fetch(w) ==
    /\ Alive /\ at[w] = "fetch"
    /\ Step(w, IF held[w] \in Stored THEN stored[held[w]] ELSE "finish")
    /\ unread' = unread \ {held[w]}
    /\ UNCHANGED <<queue, stored, nudge, loop, todo, clients, process>>

\* reconcile: a resource that was read with the mark may go.
Reconcile(w) ==
    /\ Alive /\ at[w] \in {"wanted", "leaving"}
    /\ \/ UNCHANGED data
       \/ /\ at[w] = "leaving"
          /\ stored' = [stored EXCEPT ![held[w]] = "absent"]
          /\ unread' = unread \ {held[w]}
    /\ Step(w, "finish")
    /\ UNCHANGED <<queue, nudge, loop, todo, clients, process>>

\* A slip: done is deferred only once the resource has been read.
FinishKeeping(w) ==
    /\ Alive /\ at[w] = "finish"
    /\ IF held[w] \in Stored THEN Q!Release(w) ELSE UNCHANGED queue
    /\ Step(w, "idle")
    /\ UNCHANGED <<data, nudge, loop, todo, clients, process>>

\* The end of process: its deferred done.
Finish(w) ==
    /\ Alive /\ at[w] = "finish"
    /\ Q!Release(w)
    /\ Step(w, "idle")
    /\ UNCHANGED <<data, nudge, loop, todo, clients, process>>
-------------------------------------------------------------------------------
(* main.                                                                   *)

others == <<data, at, nudge, loop, todo, clients>>

Signal ==
    /\ Alive /\ ~signalled /\ signalled' = TRUE
    /\ UNCHANGED <<queue, others, serving, gone>>

\* Run's goroutine that hands the cancellation on to the queue.
Bridge == Alive /\ signalled /\ ~closed /\ Q!Close /\ UNCHANGED <<others, process>>

\* main's goroutine that calls Shutdown: the listener is closed at once.
Shutdown ==
    /\ Alive /\ signalled /\ serving
    /\ serving' = FALSE
    /\ UNCHANGED <<queue, others, signalled, gone>>

\* The end of the process: its memory, the Store's included, is gone.
Exit ==
    /\ gone' = TRUE
    /\ pending' = {} /\ held' = [w \in Workers |-> NoKey] /\ closed' = FALSE
    /\ stored' = [k \in Keys |-> "absent"] /\ unread' = {}
    /\ at' = [w \in Workers |-> "idle"]
    /\ nudge' = FALSE /\ loop' = "list" /\ todo' = {}
    /\ req' = [h \in Handlers |-> "free"]
    /\ UNCHANGED <<requests, signalled, serving>>

\* A slip: main waits for Shutdown to return, that is for every handler.
ServeReturnsIdle ==
    Alive /\ ~serving /\ (\A h \in Handlers : req[h] = "free") /\ Exit

\* ListenAndServe returns as soon as Shutdown is called, and main with it.
ServeReturns == Alive /\ ~serving /\ Exit

\* ListenAndServe fails: os.Exit.
ServeFails == Alive /\ serving /\ Exit

HandlerStep(h) ==
    Refuse(h) \/ Nudge(h) \/ \E k \in Keys : put(h, k) \/ delete(h, k)
LoopStep ==
    List \/ Listed \/ ReceiveNudge \/ LoopReturns \/ \E k \in Keys : EnqueueListed(k)
WorkerStep(w) == Fetch(w) \/ Reconcile(w) \/ Finish(w)

Next ==
    \/ \E h \in Handlers : Accept(h) \/ HandlerStep(h)
    \/ LoopStep \/ Tick
    \/ \E w \in Workers : WorkerStep(w) \/ \E k \in Keys : Take(w, k)
    \/ Signal \/ Bridge \/ Shutdown \/ ServeReturns \/ ServeFails

SafetySpec == Init /\ [][Next]_vars

\* Goroutines that are not blocked run; a request's body may never come, the
\* ticker may never tick and nobody has to send a signal.
\* Strong fairness of Take is what WorkQueue provides.
Fairness ==
    /\ \A h \in Handlers : WF_vars(Nudge(h))
    /\ WF_vars(LoopStep)
    /\ \A w \in Workers : WF_vars(WorkerStep(w))
    /\ \A k \in Keys : SF_vars(\E w \in Workers : Take(w, k))
    /\ WF_vars(Shutdown) /\ WF_vars(ServeReturns)

Spec == SafetySpec /\ Fairness
-------------------------------------------------------------------------------
\* No write slips between a nudge and a listing: until the shutdown reaches the
\* queue or the loop, a write that no reconcile has read is still with a handler
\* that has to nudge, or a nudge is pending, or the loop is about to list, or
\* the key is in the rest of the listing, owed by the queue, or with a worker
\* that has yet to read it.  The nudge of a write that comes while another is
\* pending is dropped (reconciler.go:87-92), and one may come while resync works
\* through a listing taken before it.
NothingOverlooked ==
    \A k \in unread :
        \/ nudge \/ loop = "list" \/ k \in todo \cup pending
        \/ \E h \in Handlers : req[h] = "nudging"
        \/ \E w \in Workers : held[w] = k /\ at[w] = "fetch"
        \/ closed \/ loop = "returned"

\* Each accepted write is read by a reconcile without the ticker's help, unless
\* the process is told to stop or cannot serve, or the write is dropped with the
\* resource it was put on (NoWriteLost of Reconciler).
WriteIsReconciled == \A k \in Keys : k \in unread ~> k \notin unread \/ signalled

\* "The process exits promptly instead of hanging on a slow call" (README:68),
\* nor on a client that never sends its body.
ExitsPromptly == signalled ~> gone

\* "SIGTERM cancels in-flight reconciles and drains the worker pool"
\* (README:68): no worker is in a reconcile when main returns.
DrainsBeforeExit == [][ServeReturns => Q!InFlight = {}]_vars
===============================================================================

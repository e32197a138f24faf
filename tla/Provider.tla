-------------------------------- MODULE Provider ------------------------------
(***************************************************************************)
(* The provider contract (core/provider) over a Docker Substrate, as the   *)
(* container and the network provider of providers/docker implement it:    *)
(* one call of Create or Delete is one step with its possible results.  An *)
(* owned object carries the resolved Spec it was made from (the spec-hash  *)
(* label, taken to be injective).  A network is up as long as it exists.   *)
(***************************************************************************)
EXTENDS Naturals, Sequences, SequencesExt

CONSTANTS
    Resources,
    Networks,    \* the resources of kind network; the others are containers
    Bases,
    BadBases,    \* Specs Docker or the decoder refuses: no image, pull fails
    Ids,
    NoObj        \* no owned object for the resource

VARIABLE objs

\* A Spec with its references resolved, and an object made from it.
Wanted  == [base : Bases, vals : Seq(Ids)]
Objects == [id : Ids, spec : Wanted, up : BOOLEAN]

TypeOK == objs \in [Resources -> Objects \cup {NoObj}]

Init == objs = [r \in Resources |-> NoObj]

Exists(r) == objs[r] # NoObj
\* A slip: only the substituted values are fingerprinted.
UpToDateValues(r, want) == Exists(r) /\ objs[r].spec.vals = want.vals

UpToDate(r, want) == Exists(r) /\ objs[r].spec = want
Ready(r) == Exists(r) /\ objs[r].up

\* A running container holds an endpoint on every network its Spec names.
Attached(n) ==
    /\ n \in Networks /\ Exists(n)
    /\ \E c \in Resources \ Networks :
           Ready(c) /\ objs[n].id \in ToSet(objs[c].spec.vals)

Make(r, want, id, up) ==
    objs' = [objs EXCEPT ![r] = [id |-> id, spec |-> want, up |-> up]]

\* Create without a fault.  needs are the networks a container joins: Docker
\* creates it, and refuses to start it when one of them is gone.
Creatable(r, want, needs) ==
    /\ want.base \notin BadBases
    /\ needs \subseteq {objs[n].id : n \in {m \in Networks : Exists(m)}}

Create(r, want, needs, id) ==
    \/ want.base \in BadBases /\ UNCHANGED objs
    \/ /\ want.base \notin BadBases
       /\ Make(r, want, id, r \in Networks \/ Creatable(r, want, needs))

\* Create that reports an error on account of a fault: the daemon does not get
\* the call, or does everything and the answer is lost, or a container is
\* created and not started.
CreateFaults(r, want, needs, id, fault) ==
    \/ fault = "call" /\ UNCHANGED objs
    \/ fault = "reply" /\ Create(r, want, needs, id)
    \/ /\ fault = "start" /\ r \notin Networks /\ want.base \notin BadBases
       /\ Make(r, want, id, FALSE)

\* Delete of what is gone succeeds; a network in use is refused (403).
Deletable(r) == ~Attached(r)

Delete(r) ==
    objs' = IF Deletable(r) THEN [objs EXCEPT ![r] = NoObj] ELSE objs

DeleteFaults(r, fault) ==
    \/ fault = "call" /\ UNCHANGED objs
    \/ fault = "reply" /\ Delete(r)

\* Drift: somebody removes the object, stops the container, or disconnects the
\* containers of a network and removes that.
Drift(r, fault) ==
    /\ Exists(r)
    /\ \/ /\ fault = IF Attached(r) THEN "unplug" ELSE "vanish"
          /\ objs' = [objs EXCEPT ![r] = NoObj]
       \/ fault = "stop" /\ r \notin Networks /\ objs' = [objs EXCEPT ![r].up = FALSE]
===============================================================================

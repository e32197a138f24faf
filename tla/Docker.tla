-------------------------------- MODULE Docker --------------------------------
(***************************************************************************)
(* providers/docker: the single calls to the Docker daemon that Observe,   *)
(* Create, Update and Delete of the container and of the network provider  *)
(* are made of, with everything that can happen between two of them: the   *)
(* process dies, somebody removes or kills a container, a foreign object   *)
(* takes a name.  Module Provider has each of the methods as one step; here *)
(* they are shown to look like that from outside, results included.        *)
(*                                                                         *)
(* Each resource has at most one method under way (the work queue).        *)
(***************************************************************************)
EXTENDS Naturals, Sequences, SequencesExt

CONSTANTS
    Resources, Networks, Bases, BadBases, Ids, NoObj,   \* of module Provider
    Wants,       \* Wants[r]: the resolved Specs r may be given
    MaxFaults    \* bound on failed calls and lost answers

VARIABLES
    names,   \* names[r]: what the daemon has under the name setpoint-<r>
    call,    \* call[r]: the method under way for r
    result,  \* result[r]: what the last one returned
    faults

vars == <<names, call, result, faults>>

Present(r) == names[r] # NoObj

\* A slip: objects are told by their names.
OwnedByName(r) == Present(r)

\* ownedBy: the filter on the ownership labels.
Owned(r) == Present(r) /\ names[r].owned

At(r, at) == call[r].at = at
Listed(r) == Present(r) /\ names[r].id = call[r].id

\* What module Provider sees: no foreign object, and no container that a Create
\* under way has yet to start.
Visible(r) == Owned(r) /\ ~(At(r, "start") /\ Listed(r))
objs ==
    [r \in Resources |->
        IF Visible(r)
        THEN [id |-> names[r].id, spec |-> names[r].spec, up |-> names[r].up]
        ELSE NoObj]

substrate == INSTANCE Provider
-------------------------------------------------------------------------------
Idle == [at |-> "idle", want |-> NoObj, next |-> "", id |-> NoObj]
Calls == [at : {"idle", "observe", "list", "remove", "create", "start"},
          want : substrate!Wanted \cup {NoObj}, next : {"", "create", "return"},
          id : Ids \cup {NoObj}]

\* What the provider makes, and what is somebody else's.  The identity of that
\* never gets into a Status, so nothing refers to it.
Ours   == [id : Ids, owned : {TRUE}, spec : substrate!Wanted, up : BOOLEAN]
Theirs == [id |-> NoObj, owned |-> FALSE, spec |-> NoObj, up |-> TRUE]

ASSUME DockerAssumption ==
    /\ Networks \subseteq Resources /\ MaxFaults \in Nat
    /\ Ids # {} /\ NoObj \notin Ids
    /\ NoObj \notin substrate!Wanted \cup substrate!Objects \cup Ours \cup {Theirs}
    /\ \A r \in Resources : Wants[r] \subseteq substrate!Wanted

\* Types; an object is made, and a method called, for a Spec r was given.
TypeOK ==
    /\ names \in [Resources -> Ours \cup {Theirs, NoObj}]
    /\ call \in [Resources -> Calls]
    /\ result \in [Resources -> {"", "nil", "error"}]
    /\ faults \in 0 .. MaxFaults
    /\ \A r \in Resources :
          /\ Owned(r) => names[r].spec \in Wants[r]
          /\ call[r].want \in Wants[r] \cup {NoObj}
          /\ At(r, "idle") <=> call[r] = Idle

Init ==
    /\ names = [r \in Resources |-> NoObj]
    /\ call = [r \in Resources |-> Idle]
    /\ result = [r \in Resources |-> ""]
    /\ faults = 0
-------------------------------------------------------------------------------
IsNetwork(r) == r \in Networks
Needs(r, want) == IF IsNetwork(r) THEN {} ELSE ToSet(want.vals)
NetworkIds == {names[n].id : n \in {m \in Networks : Present(m)}}

\* A running container has an endpoint on each network it names.
InUse(n) ==
    \E c \in Resources \ Networks :
        Owned(c) /\ names[c].up /\ names[n].id \in ToSet(names[c].spec.vals)

Used ==
    {names[r].id : r \in {s \in Resources : Present(s)}}
    \cup UNION {ToSet(names[r].spec.vals) : r \in {s \in Resources : Owned(s)}}
    \cup {call[r].id : r \in Resources}
    \cup UNION {ToSet(call[r].want.vals) : r \in {s \in Resources : call[s].want # NoObj}}
NewIds == {i \in Ids \ Used : \A j \in Ids \ Used : i <= j}

Goto(r, at) == call' = [call EXCEPT ![r].at = at] /\ UNCHANGED result

\* A slip: what the method found out stays for the next one.
ReturnKeeping(r, what) ==
    /\ call' = [call EXCEPT ![r].at = "idle"]
    /\ result' = [result EXCEPT ![r] = what]

Return(r, what) ==
    /\ call' = [call EXCEPT ![r] = Idle]
    /\ result' = [result EXCEPT ![r] = what]

\* A slip: Update goes on to Create without the resource.
DeletedForgetting(r) ==
    IF call[r].next = "create"
    THEN call' = [call EXCEPT ![r] = [Idle EXCEPT !.at = "create"]] /\ UNCHANGED result
    ELSE Return(r, "nil")

\* Delete is over: it returns, or it was the first half of Update.
Deleted(r) == IF call[r].next = "create" THEN Goto(r, "create") ELSE Return(r, "nil")

Fault == faults < MaxFaults /\ faults' = faults + 1
NoFault == UNCHANGED faults
-------------------------------------------------------------------------------
(* The methods.                                                            *)

\* converge begins with Observe.
Converge(r, want) ==
    /\ At(r, "idle")
    /\ call' = [call EXCEPT ![r] = [Idle EXCEPT !.at = "observe", !.want = want]]
    /\ result' = [result EXCEPT ![r] = ""]
    /\ UNCHANGED names /\ NoFault

\* reconcileDeletion calls Delete.
BeginDelete(r) ==
    /\ At(r, "idle")
    /\ call' = [call EXCEPT ![r].at = "list", ![r].next = "return"]
    /\ result' = [result EXCEPT ![r] = ""]
    /\ UNCHANGED names /\ NoFault

\* Observe, and what converge does next: Create, Update or nothing.
Observe(r) ==
    /\ At(r, "observe")
    /\ \/ ~Owned(r) /\ Goto(r, "create") /\ NoFault
       \/ /\ Owned(r) /\ names[r].spec # call[r].want
          /\ call' = [call EXCEPT ![r].at = "list", ![r].next = "create"]
          /\ UNCHANGED result /\ NoFault
       \/ Owned(r) /\ names[r].spec = call[r].want /\ Return(r, "nil") /\ NoFault
       \/ Fault /\ Return(r, "error")
    /\ UNCHANGED names

\* Delete: ContainerList or NetworkList.
List(r) ==
    /\ At(r, "list")
    /\ \/ ~Owned(r) /\ Deleted(r) /\ NoFault
       \/ /\ Owned(r)
          /\ call' = [call EXCEPT ![r].at = "remove", ![r].id = names[r].id]
          /\ UNCHANGED result /\ NoFault
       \/ Fault /\ Return(r, "error")
    /\ UNCHANGED names

\* A slip: a network in use is taken for one that is gone.
NetworkRemoveLenient(r) ==
    /\ At(r, "remove") /\ IsNetwork(r)
    /\ names' = IF Listed(r) /\ ~InUse(r) THEN [names EXCEPT ![r] = NoObj] ELSE names
    /\ Deleted(r) /\ NoFault

\* NetworkRemove: what is gone is fine, what is in use is an error (403).
NetworkRemove(r) ==
    /\ At(r, "remove") /\ IsNetwork(r)
    /\ \/ ~Listed(r) /\ Deleted(r) /\ UNCHANGED names /\ NoFault
       \/ Listed(r) /\ InUse(r) /\ Return(r, "error") /\ UNCHANGED names /\ NoFault
       \/ /\ Listed(r) /\ ~InUse(r)
          /\ names' = [names EXCEPT ![r] = NoObj]
          /\ (Deleted(r) /\ NoFault) \/ (Fault /\ Return(r, "error"))
       \/ Fault /\ Return(r, "error") /\ UNCHANGED names

\* ContainerRemove by force: here what is gone is an error.
ContainerRemove(r) ==
    /\ At(r, "remove") /\ ~IsNetwork(r)
    /\ \/ ~Listed(r) /\ Return(r, "error") /\ UNCHANGED names /\ NoFault
       \/ /\ Listed(r)
          /\ names' = [names EXCEPT ![r] = NoObj]
          /\ (Deleted(r) /\ NoFault) \/ (Fault /\ Return(r, "error"))
       \/ Fault /\ Return(r, "error") /\ UNCHANGED names

Stamped(r, id, up) == [id |-> id, owned |-> TRUE, spec |-> call[r].want, up |-> up]

\* Create, before there is an object: the Spec cannot be decoded, the image
\* cannot be pulled, somebody else has the name, the daemon fails.
CreateRefused(r) ==
    /\ At(r, "create")
    /\ \/ (call[r].want.base \in BadBases \/ Present(r)) /\ NoFault
       \/ Fault
    /\ Return(r, "error")
    /\ UNCHANGED names

CanCreate(r) == At(r, "create") /\ call[r].want.base \notin BadBases /\ ~Present(r)

NetworkCreate(r) ==
    /\ CanCreate(r) /\ IsNetwork(r)
    /\ \E id \in NewIds : names' = [names EXCEPT ![r] = Stamped(r, id, TRUE)]
    /\ \/ Return(r, "nil") /\ NoFault
       \/ Return(r, "error") /\ Fault

\* ContainerCreate does not look at the network the container will join.
ContainerCreate(r) ==
    /\ CanCreate(r) /\ ~IsNetwork(r)
    /\ \E id \in NewIds :
          /\ names' = [names EXCEPT ![r] = Stamped(r, id, FALSE)]
          /\ \/ /\ call' = [call EXCEPT ![r].at = "start", ![r].id = id]
                /\ UNCHANGED result /\ NoFault
             \/ Return(r, "error") /\ Fault

\* ContainerStart: not if the container or its network is gone.
ContainerStart(r) ==
    /\ At(r, "start")
    /\ \/ /\ Listed(r) /\ Needs(r, call[r].want) \subseteq NetworkIds
          /\ names' = [names EXCEPT ![r].up = TRUE]
          /\ (Return(r, "nil") /\ NoFault) \/ (Fault /\ Return(r, "error"))
       \/ /\ ~Listed(r) \/ ~(Needs(r, call[r].want) \subseteq NetworkIds)
          /\ Return(r, "error") /\ UNCHANGED names /\ NoFault
       \/ Fault /\ Return(r, "error") /\ UNCHANGED names

Method(r) ==
    \/ Observe(r) \/ List(r) \/ NetworkRemove(r) \/ ContainerRemove(r)
    \/ CreateRefused(r) \/ NetworkCreate(r) \/ ContainerCreate(r) \/ ContainerStart(r)

\* The process dies in the middle of a method; the next one adopts what is there.
Crash(r) ==
    /\ ~At(r, "idle")
    /\ Return(r, "")
    /\ UNCHANGED <<names, faults>>

\* docker rm, docker network rm (after a docker network disconnect if need be),
\* docker kill.
Vanish(r) ==
    /\ Owned(r)
    /\ names' = [names EXCEPT ![r] = NoObj]
    /\ UNCHANGED <<call, result, faults>>

Stop(r) ==
    /\ Owned(r) /\ ~IsNetwork(r) /\ names[r].up
    /\ names' = [names EXCEPT ![r].up = FALSE]
    /\ UNCHANGED <<call, result, faults>>

\* Somebody gives an object of theirs the name.
Foreign(r) ==
    /\ ~Present(r)
    /\ names' = [names EXCEPT ![r] = Theirs]
    /\ UNCHANGED <<call, result, faults>>

Next ==
    \E r \in Resources :
        \/ Method(r) \/ Crash(r) \/ BeginDelete(r)
        \/ \E want \in Wants[r] : Converge(r, want)
        \/ Vanish(r) \/ Stop(r) \/ Foreign(r)

Spec == Init /\ [][Next]_vars
-------------------------------------------------------------------------------
Returns(r, what) == call'[r].at = "idle" /\ result'[r] = what

Creating == {"create", "start"}
Deleting == {"list", "remove"}
Ends(r, phase) == call[r].at \in phase /\ call'[r].at \notin phase

\* The step at which Create ends, as module Reconciler has it: nil if the object
\* could be created and was, else an error, or the process dies.
CreateStep(r) ==
    /\ Ends(r, Creating)
    /\ LET want == call[r].want  needs == Needs(r, want)
       IN  \E id \in Ids :
              \/ /\ Returns(r, "nil") /\ substrate!Creatable(r, want, needs)
                 /\ substrate!Create(r, want, needs, id)
              \/ /\ Returns(r, "error") /\ ~substrate!Creatable(r, want, needs)
                 /\ substrate!Create(r, want, needs, id)
              \/ /\ Returns(r, "error") \/ Returns(r, "")
                 /\ \E fault \in {"call", "reply", "start"} :
                        substrate!CreateFaults(r, want, needs, id, fault)

\* The same for Delete, also as the first half of Update.
DeleteStep(r) ==
    /\ Ends(r, Deleting)
    /\ \/ /\ At(r, "create")' \/ Returns(r, "nil")
          /\ substrate!Deletable(r) /\ substrate!Delete(r)
       \/ /\ Returns(r, "error") /\ ~substrate!Deletable(r) /\ substrate!Delete(r)
       \/ /\ Returns(r, "error") \/ Returns(r, "")
          /\ \E fault \in {"call", "reply"} : substrate!DeleteFaults(r, fault)

Between(r) == ~Ends(r, Creating) /\ ~Ends(r, Deleting)

ProviderStep ==
    \/ \E r \in Resources : CreateStep(r) \/ DeleteStep(r)
    \/ /\ \A r \in Resources : Between(r)
       /\ \/ UNCHANGED objs
          \/ \E r \in Resources, fault \in {"vanish", "stop", "unplug"} :
                 substrate!Drift(r, fault)

\* The calls to Docker, their failures, crashes and races come to what Provider
\* promises and Reconciler builds on: a method changes the Substrate at the
\* moment it ends and in one of the ways of Provider, a nil result is never a
\* lie, and between two methods only drift changes anything.
ImplementsProvider == substrate!Init /\ [][ProviderStep]_<<objs, call, result>>

\* What makes these two inductive: a method that has looked an object up, or made
\* it, never meets another one of ours under the name, and a container waits to
\* be started as it was made.
LooksUpItsOwn ==
    \A r \in Resources :
        call[r].at \in {"remove", "start"} =>
            /\ call[r].id \in Ids
            /\ Owned(r) => Listed(r)
StartsItsOwn ==
    \A r \in Resources :
        At(r, "start") =>
            /\ r \notin Networks /\ call[r].want.base \notin BadBases
            /\ Owned(r) => names[r].spec = call[r].want /\ ~names[r].up
Converging(r) ==
    \/ call[r].at \in {"observe", "create", "start"}
    \/ call[r].at \in {"list", "remove"} /\ call[r].next = "create"
HasWant == \A r \in Resources : Converging(r) => call[r].want \in Wants[r]
IInv == TypeOK /\ LooksUpItsOwn /\ StartsItsOwn /\ HasWant

\* "It only ever observes or touches containers it stamped at creation"
\* (provider.go:2-4): what somebody else put under a name stays as it is.
ForeignUntouched ==
    [][\A r \in Resources :
          Present(r) /\ ~names[r].owned => names'[r] = names[r]]_vars
===============================================================================

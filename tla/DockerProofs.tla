------------------------------ MODULE DockerProofs -----------------------------
(***************************************************************************)
(* What holds of Docker for any resources, Specs and identities, and any   *)
(* number of faults: IInv is inductive, foreign objects are left alone,    *)
(* and every step is what module Provider allows.                          *)
(***************************************************************************)
EXTENDS Docker, TLAPS

(* The part of IInv that speaks of one resource.                            *)
ResourceOK(r) ==
    /\ Owned(r) => names[r].spec \in Wants[r]
    /\ call[r].want \in Wants[r] \cup {NoObj}
    /\ At(r, "idle") <=> call[r] = Idle
    /\ call[r].at \in {"remove", "start"} => call[r].id \in Ids /\ (Owned(r) => Listed(r))
    /\ At(r, "start") =>
          /\ r \notin Networks /\ call[r].want.base \notin BadBases
          /\ Owned(r) => names[r].spec = call[r].want /\ ~names[r].up
    /\ Converging(r) => call[r].want \in Wants[r]

(* The rest of it.                                                          *)
SharedOK ==
    /\ names \in [Resources -> Ours \cup {Theirs, NoObj}]
    /\ call \in [Resources -> Calls]
    /\ result \in [Resources -> {"", "nil", "error"}]
    /\ faults \in 0 .. MaxFaults

LEMMA ByResource == IInv <=> SharedOK /\ \A r \in Resources : ResourceOK(r)
  BY DEF IInv, TypeOK, LooksUpItsOwn, StartsItsOwn, HasWant, SharedOK, ResourceOK

LEMMA ByResourceNext == (SharedOK /\ \A r \in Resources : ResourceOK(r))' => IInv'
  BY DEF IInv, TypeOK, LooksUpItsOwn, StartsItsOwn, HasWant, SharedOK, ResourceOK

(* Everything a step does, it does under one name and in one method.         *)
Only(r) ==
    \A s \in Resources \ {r} : names'[s] = names[s] /\ call'[s] = call[s]

LEMMA OneResource ==
    ASSUME IInv, NEW r \in Resources, Only(r), SharedOK', ResourceOK(r)'
    PROVE  IInv'
<1>1. ASSUME NEW s \in Resources, s # r
      PROVE  ResourceOK(s)'
  <2>1. names'[s] = names[s] /\ call'[s] = call[s] /\ ResourceOK(s)
    BY <1>1, ByResource DEF Only
  <2> QED
    BY <2>1 DEF ResourceOK, Owned, Present, Listed, At, Converging
<1> QED
  BY <1>1, ByResourceNext

(* The daemon's half of a step.                                             *)
NamesOK(r) ==
    /\ names' \in [Resources -> Ours \cup {Theirs, NoObj}]
    /\ \A s \in Resources \ {r} : names'[s] = names[s]
    /\ faults' \in 0 .. MaxFaults
    /\ Owned(r)' => names'[r].spec \in Wants[r]

LEMMA FaultCounts ==
    ASSUME IInv, Fault \/ NoFault
    PROVE  faults' \in 0 .. MaxFaults
<1>1. faults \in 0 .. MaxFaults /\ MaxFaults \in Nat
  BY DockerAssumption DEF IInv, TypeOK, DockerAssumption
<1>2. CASE Fault
  BY <1>1, <1>2 DEF Fault
<1>3. CASE NoFault
  BY <1>1, <1>3 DEF NoFault
<1> QED
  BY <1>2, <1>3

LEMMA Untouched ==
    ASSUME IInv, NEW r \in Resources, UNCHANGED names, Fault \/ NoFault
    PROVE  NamesOK(r)
<1>1. /\ names \in [Resources -> Ours \cup {Theirs, NoObj}]
      /\ Owned(r) => names[r].spec \in Wants[r]
  BY ByResource DEF SharedOK, ResourceOK
<1>2. Owned(r)' => names'[r].spec \in Wants[r]
  BY <1>1 DEF Owned, Present
<1> QED
  BY <1>1, <1>2, FaultCounts DEF NamesOK

LEMMA Gone ==
    ASSUME IInv, NEW r \in Resources, names' = [names EXCEPT ![r] = NoObj],
           Fault \/ NoFault
    PROVE  NamesOK(r) /\ ~Present(r)'
  BY FaultCounts DEF NamesOK, IInv, TypeOK, Owned, Present

LEMMA IdleOK == Idle \in Calls /\ Idle.at = "idle" /\ Idle.want = NoObj
  BY DEF Idle, Calls

(* A method that returns leaves nothing for the next one.                   *)
LEMMA ReturnKeeps ==
    ASSUME IInv, NEW r \in Resources, NamesOK(r),
           NEW what \in {"", "nil", "error"}, Return(r, what)
    PROVE  IInv'
<1>1. /\ call' = [call EXCEPT ![r] = Idle] /\ call \in [Resources -> Calls]
      /\ result' \in [Resources -> {"", "nil", "error"}]
  BY DEF Return, IInv, TypeOK
<1>2. call'[r] = Idle /\ call' \in [Resources -> Calls] /\ Only(r)
  BY <1>1, IdleOK DEF Only, NamesOK
<1>3. SharedOK'
  BY <1>1, <1>2 DEF SharedOK, NamesOK
<1>4. ResourceOK(r)'
  BY <1>2, IdleOK DEF ResourceOK, NamesOK, At, Converging
<1> QED
  BY <1>2, <1>3, <1>4, OneResource

(* A method that goes on with another call to the daemon.                   *)
LEMMA CallKeeps ==
    ASSUME IInv, NEW r \in Resources, NamesOK(r), NEW j \in Calls,
           call' = [call EXCEPT ![r] = j],
           result' \in [Resources -> {"", "nil", "error"}],
           j.at # "idle", j.want \in Wants[r] \cup {NoObj},
           (\/ j.at \in {"observe", "create", "start"}
            \/ j.at \in {"list", "remove"} /\ j.next = "create")
               => j.want \in Wants[r],
           j.at \in {"remove", "start"} =>
               j.id \in Ids /\ (Owned(r)' => names'[r].id = j.id),
           j.at = "start" =>
               /\ r \notin Networks /\ j.want.base \notin BadBases
               /\ Owned(r)' => names'[r].spec = j.want /\ ~names'[r].up
    PROVE  IInv'
<1>1. call'[r] = j /\ call' \in [Resources -> Calls] /\ Only(r)
  BY DEF Only, NamesOK, IInv, TypeOK
<1>2. SharedOK'
  BY <1>1 DEF SharedOK, NamesOK
<1>3. ResourceOK(r)'
  BY <1>1, IdleOK DEF ResourceOK, NamesOK, At, Listed, Owned, Converging
<1> QED
  BY <1>1, <1>2, <1>3, OneResource

(* At the resource under way, in the words the lemmas below use.            *)
LEMMA Here ==
    ASSUME IInv, NEW r \in Resources
    PROVE  /\ names \in [Resources -> Ours \cup {Theirs, NoObj}]
           /\ call \in [Resources -> Calls] /\ call[r] \in Calls
           /\ result \in [Resources -> {"", "nil", "error"}]
           /\ ResourceOK(r)
  BY ByResource DEF SharedOK

(* What carries our labels was made by us.                                  *)
LEMMA OwnedIsOurs ==
    ASSUME IInv, NEW r \in Resources, Owned(r)
    PROVE  names[r] \in Ours /\ names[r].id \in Ids /\ names[r].spec \in Wants[r]
<1>1. names[r] \in Ours \cup {Theirs, NoObj} /\ names[r].spec \in Wants[r]
  BY Here DEF ResourceOK
<1>2. names[r] # NoObj /\ names[r].owned
  BY DEF Owned, Present
<1>3. ~Theirs.owned
  BY DEF Theirs
<1>4. names[r] \in Ours
  BY <1>1, <1>2, <1>3
<1> QED
  BY <1>1, <1>4 DEF Ours

(* Foreign objects have no identity a method could have got hold of.         *)
LEMMA ListedIsOwned ==
    ASSUME IInv, NEW r \in Resources, call[r].at \in {"remove", "start"}, Listed(r)
    PROVE  Owned(r)
<1>1. names[r].id \in Ids /\ names[r] # NoObj /\ names[r] \in Ours \cup {Theirs, NoObj}
  BY Here DEF ResourceOK, Listed, Present
<1>2. Theirs.id \notin Ids
  BY DockerAssumption DEF Theirs, DockerAssumption
<1>3. names[r] \in Ours
  BY <1>1, <1>2
<1> QED
  BY <1>1, <1>3 DEF Owned, Present, Ours

(* Delete that is over returns, or Update goes on to Create.                 *)
LEMMA DeletedKeeps ==
    ASSUME IInv, NEW r \in Resources, NamesOK(r), call[r].at \in {"list", "remove"},
           Deleted(r)
    PROVE  IInv'
<1>1. CASE call[r].next # "create"
  BY <1>1, ReturnKeeps DEF Deleted
<1>2. CASE call[r].next = "create"
  <2> DEFINE j == [call[r] EXCEPT !.at = "create"]
  <2>1. call' = [call EXCEPT ![r] = j] /\ UNCHANGED result
    BY <1>2, Here DEF Deleted, Goto
  <2>2. j \in Calls /\ j.at = "create" /\ j.want = call[r].want
    BY Here DEF Calls
  <2>3. call[r].want \in Wants[r]
    BY <1>2, Here DEF ResourceOK, Converging
  <2> HIDE DEF j
  <2> QED
    BY <2>1, <2>2, <2>3, Here, CallKeeps
<1> QED
  BY <1>1, <1>2

LEMMA ConvergeKeeps ==
    ASSUME IInv, NEW r \in Resources, NEW want \in Wants[r], Converge(r, want)
    PROVE  IInv'
<1> DEFINE j == [Idle EXCEPT !.at = "observe", !.want = want]
<1>1. want \in substrate!Wanted
  BY DockerAssumption DEF DockerAssumption
<1>2. /\ call' = [call EXCEPT ![r] = j] /\ result' = [result EXCEPT ![r] = ""]
      /\ UNCHANGED names /\ NoFault
  BY DEF Converge
<1>3. j \in Calls /\ j.at = "observe" /\ j.want = want
  BY <1>1 DEF Calls, Idle
<1> HIDE DEF j
<1>4. result' \in [Resources -> {"", "nil", "error"}]
  BY <1>2, Here
<1> QED
  BY <1>2, <1>3, <1>4, Untouched, CallKeeps

LEMMA BeginDeleteKeeps ==
    ASSUME IInv, NEW r \in Resources, BeginDelete(r)
    PROVE  IInv'
<1> DEFINE j == [call[r] EXCEPT !.at = "list", !.next = "return"]
<1>1. /\ call' = [call EXCEPT ![r] = j] /\ result' = [result EXCEPT ![r] = ""]
      /\ UNCHANGED names /\ NoFault
  BY Here DEF BeginDelete
<1>2. j \in Calls /\ j.at = "list" /\ j.next = "return" /\ j.want = call[r].want
  BY Here DEF Calls
<1>3. result' \in [Resources -> {"", "nil", "error"}]
  BY <1>1, Here
<1>4. j.want \in Wants[r] \cup {NoObj}
  BY <1>2, Here DEF ResourceOK
<1> HIDE DEF j
<1> QED
  BY <1>1, <1>2, <1>3, <1>4, Untouched, CallKeeps

LEMMA ObserveKeeps ==
    ASSUME IInv, NEW r \in Resources, Observe(r)
    PROVE  IInv'
<1>1. /\ UNCHANGED names /\ NamesOK(r) /\ call[r].want \in Wants[r]
  BY Untouched, Here DEF Observe, At, ResourceOK, Converging
<1>2. CASE Goto(r, "create")
  <2> DEFINE j == [call[r] EXCEPT !.at = "create"]
  <2>1. call' = [call EXCEPT ![r] = j] /\ UNCHANGED result
    BY <1>2, Here DEF Goto
  <2>2. j \in Calls /\ j.at = "create" /\ j.want = call[r].want
    BY Here DEF Calls
  <2> HIDE DEF j
  <2> QED
    BY <1>1, <2>1, <2>2, Here, CallKeeps
<1>3. CASE /\ call' = [call EXCEPT ![r].at = "list", ![r].next = "create"]
           /\ UNCHANGED result
  <2> DEFINE j == [call[r] EXCEPT !.at = "list", !.next = "create"]
  <2>1. call' = [call EXCEPT ![r] = j] /\ UNCHANGED result
    BY <1>3, Here
  <2>2. j \in Calls /\ j.at = "list" /\ j.want = call[r].want
    BY Here DEF Calls
  <2> HIDE DEF j
  <2> QED
    BY <1>1, <2>1, <2>2, Here, CallKeeps
<1>4. CASE Return(r, "nil") \/ Return(r, "error")
  BY <1>1, <1>4, ReturnKeeps
<1> QED
  BY <1>2, <1>3, <1>4 DEF Observe

LEMMA ListKeeps ==
    ASSUME IInv, NEW r \in Resources, List(r)
    PROVE  IInv'
<1>1. UNCHANGED names /\ NamesOK(r) /\ call[r].at = "list"
  BY Untouched DEF List, At
<1>2. CASE Deleted(r)
  BY <1>1, <1>2, DeletedKeeps
<1>3. CASE /\ Owned(r)
           /\ call' = [call EXCEPT ![r].at = "remove", ![r].id = names[r].id]
           /\ UNCHANGED result
  <2> DEFINE j == [call[r] EXCEPT !.at = "remove", !.id = names[r].id]
  <2>1. names[r].id \in Ids
    BY <1>3, OwnedIsOurs
  <2>2. call' = [call EXCEPT ![r] = j] /\ UNCHANGED result
    BY <1>3, Here
  <2>3. /\ j \in Calls /\ j.at = "remove" /\ j.want = call[r].want
        /\ j.next = call[r].next /\ j.id = names[r].id
    BY <2>1, Here DEF Calls
  <2>4. /\ call[r].want \in Wants[r] \cup {NoObj}
        /\ call[r].next = "create" => call[r].want \in Wants[r]
    BY <1>1, Here DEF ResourceOK, Converging
  <2> HIDE DEF j
  <2> QED
    BY <1>1, <2>1, <2>2, <2>3, <2>4, Here, CallKeeps
<1>4. CASE Return(r, "error")
  BY <1>1, <1>4, ReturnKeeps
<1> QED
  BY <1>2, <1>3, <1>4 DEF List

LEMMA RemoveKeeps ==
    ASSUME IInv, NEW r \in Resources, NetworkRemove(r) \/ ContainerRemove(r)
    PROVE  IInv'
<1>1. /\ call[r].at = "remove"
      /\ Deleted(r) \/ Return(r, "error")
      /\ UNCHANGED names \/ names' = [names EXCEPT ![r] = NoObj]
      /\ Fault \/ NoFault
  BY DEF NetworkRemove, ContainerRemove, At
<1>2. NamesOK(r)
  BY <1>1, Untouched, Gone
<1> QED
  BY <1>1, <1>2, DeletedKeeps, ReturnKeeps

LEMMA CreateRefusedKeeps ==
    ASSUME IInv, NEW r \in Resources, CreateRefused(r)
    PROVE  IInv'
  BY Untouched, ReturnKeeps DEF CreateRefused

(* What a Create under way stamps an object with.                           *)
LEMMA StampedOK ==
    ASSUME IInv, NEW r \in Resources, At(r, "create"), NEW id \in NewIds,
           NEW up \in BOOLEAN, names' = [names EXCEPT ![r] = Stamped(r, id, up)],
           Fault \/ NoFault
    PROVE  /\ NamesOK(r) /\ id \in Ids /\ call[r].want \in Wants[r]
           /\ names'[r].id = id /\ names'[r].spec = call[r].want
           /\ names'[r].up = up /\ Owned(r)'
<1>1. id \in Ids
  BY DEF NewIds
<1>2. call[r].want \in Wants[r] /\ call[r].want \in substrate!Wanted
  BY Here, DockerAssumption DEF ResourceOK, Converging, At, DockerAssumption
<1> DEFINE o == Stamped(r, id, up)
<1>3. o \in Ours /\ o.id = id /\ o.owned /\ o.spec = call[r].want /\ o.up = up
  BY <1>1, <1>2 DEF Stamped, Ours
<1>4. o # NoObj
  BY <1>3, DockerAssumption DEF DockerAssumption
<1> HIDE DEF o
<1>5. names'[r] = o /\ names' \in [Resources -> Ours \cup {Theirs, NoObj}]
  BY <1>3, Here DEF o
<1> QED
  BY <1>1, <1>2, <1>3, <1>4, <1>5, FaultCounts DEF NamesOK, Owned, Present

LEMMA CreateKeeps ==
    ASSUME IInv, NEW r \in Resources, NetworkCreate(r) \/ ContainerCreate(r)
    PROVE  IInv'
<1>1. At(r, "create") /\ call[r].want.base \notin BadBases /\ (Fault \/ NoFault)
  BY DEF NetworkCreate, ContainerCreate, CanCreate
<1>2. CASE NetworkCreate(r)
  <2>1. PICK id \in NewIds : names' = [names EXCEPT ![r] = Stamped(r, id, TRUE)]
    BY <1>2 DEF NetworkCreate
  <2> QED
    BY <1>1, <1>2, <2>1, StampedOK, ReturnKeeps DEF NetworkCreate
<1>3. CASE ContainerCreate(r)
  <2>1. PICK id \in NewIds :
           /\ names' = [names EXCEPT ![r] = Stamped(r, id, FALSE)]
           /\ \/ /\ call' = [call EXCEPT ![r].at = "start", ![r].id = id]
                 /\ UNCHANGED result
              \/ Return(r, "error")
    BY <1>3 DEF ContainerCreate
  <2>2. /\ NamesOK(r) /\ id \in Ids /\ call[r].want \in Wants[r]
        /\ names'[r].id = id /\ names'[r].spec = call[r].want /\ ~names'[r].up
    BY <1>1, <2>1, StampedOK
  <2>3. CASE Return(r, "error")
    BY <2>2, <2>3, ReturnKeeps
  <2>4. CASE /\ call' = [call EXCEPT ![r].at = "start", ![r].id = id]
             /\ UNCHANGED result
    <3> DEFINE j == [call[r] EXCEPT !.at = "start", !.id = id]
    <3>1. call' = [call EXCEPT ![r] = j] /\ UNCHANGED result
      BY <2>4, Here
    <3>2. j \in Calls /\ j.at = "start" /\ j.want = call[r].want /\ j.id = id
      BY <2>2, Here DEF Calls
    <3>3. r \notin Networks
      BY <1>3 DEF ContainerCreate, IsNetwork
    <3> HIDE DEF j
    <3> QED
      BY <1>1, <2>2, <3>1, <3>2, <3>3, Here, CallKeeps
  <2> QED
    BY <2>1, <2>3, <2>4
<1> QED
  BY <1>2, <1>3

(* A container of ours that starts or stops.                                *)
LEMMA UpOK ==
    ASSUME IInv, NEW r \in Resources, Owned(r), NEW up \in BOOLEAN,
           names' = [names EXCEPT ![r].up = up]
    PROVE  /\ names' \in [Resources -> Ours \cup {Theirs, NoObj}]
           /\ \A s \in Resources \ {r} : names'[s] = names[s]
           /\ names'[r] \in Ours /\ names'[r].up = up /\ Owned(r)'
           /\ names'[r].id = names[r].id /\ names'[r].spec = names[r].spec
<1> DEFINE o == [names[r] EXCEPT !.up = up]
<1>1. o \in Ours /\ o.owned /\ o.up = up /\ o.id = names[r].id /\ o.spec = names[r].spec
  BY OwnedIsOurs DEF Ours
<1>2. names' = [names EXCEPT ![r] = o]
  BY Here
<1> HIDE DEF o
<1>3. o # NoObj
  BY <1>1, DockerAssumption DEF DockerAssumption
<1> QED
  BY <1>1, <1>2, <1>3, Here DEF Owned, Present

LEMMA StartKeeps ==
    ASSUME IInv, NEW r \in Resources, ContainerStart(r)
    PROVE  IInv'
<1>1. Fault \/ NoFault
  BY DEF ContainerStart
<1>2. CASE UNCHANGED names
  BY <1>1, <1>2, Untouched, ReturnKeeps DEF ContainerStart
<1>3. CASE Listed(r) /\ names' = [names EXCEPT ![r].up = TRUE]
  <2>2. Owned(r)
    BY <1>3, ListedIsOwned DEF ContainerStart, At
  <2>3. NamesOK(r)
    BY <1>1, <1>3, <2>2, UpOK, OwnedIsOurs, FaultCounts DEF NamesOK
  <2> QED
    BY <2>3, ReturnKeeps DEF ContainerStart
<1> QED
  BY <1>2, <1>3 DEF ContainerStart

(* What others do to the daemon while no or some method is under way.       *)
LEMMA DriftKeeps ==
    ASSUME IInv, NEW r \in Resources, NamesOK(r), UNCHANGED <<call, result>>,
           Owned(r)' => Owned(r) /\ names'[r].id = names[r].id
                                /\ names'[r].spec = names[r].spec
                                /\ (names'[r].up => names[r].up)
    PROVE  IInv'
<1>1. SharedOK'
  BY ByResource DEF SharedOK, NamesOK
<1>2. ResourceOK(r)'
  BY Here DEF ResourceOK, NamesOK, At, Listed, Owned, Present, Converging
<1> QED
  BY <1>1, <1>2, OneResource DEF Only, NamesOK

LEMMA VanishKeeps ==
    ASSUME IInv, NEW r \in Resources, Vanish(r)
    PROVE  IInv'
<1>1. NoFault /\ names' = [names EXCEPT ![r] = NoObj] /\ UNCHANGED <<call, result>>
  BY DEF Vanish, NoFault
<1> QED
  BY <1>1, Gone, DriftKeeps DEF Owned, Present

LEMMA StopKeeps ==
    ASSUME IInv, NEW r \in Resources, Stop(r)
    PROVE  IInv'
<1>1. NoFault /\ Owned(r) /\ names' = [names EXCEPT ![r].up = FALSE]
      /\ UNCHANGED <<call, result>>
  BY DEF Stop, NoFault
<1>2. NamesOK(r)
  BY <1>1, UpOK, OwnedIsOurs, FaultCounts DEF NamesOK
<1> QED
  BY <1>1, <1>2, UpOK, DriftKeeps

LEMMA ForeignKeeps ==
    ASSUME IInv, NEW r \in Resources, Foreign(r)
    PROVE  IInv'
<1>1. NoFault /\ names' = [names EXCEPT ![r] = Theirs] /\ UNCHANGED <<call, result>>
  BY DEF Foreign, NoFault
<1>2. names'[r] = Theirs /\ ~Theirs.owned
  BY <1>1, Here DEF Theirs
<1>3. ~Owned(r)'
  BY <1>2 DEF Owned
<1>4. NamesOK(r)
  BY <1>1, <1>3, Here, FaultCounts DEF NamesOK
<1> QED
  BY <1>1, <1>3, <1>4, DriftKeeps

LEMMA CrashKeeps ==
    ASSUME IInv, NEW r \in Resources, Crash(r)
    PROVE  IInv'
  BY Untouched, ReturnKeeps DEF Crash, NoFault

LEMMA NextKeeps ==
    ASSUME IInv, [Next]_vars
    PROVE  IInv'
<1>1. CASE UNCHANGED vars
  BY <1>1 DEF vars, IInv, TypeOK, LooksUpItsOwn, StartsItsOwn, HasWant, Owned, Present,
              Listed, At, Converging
<1>2. CASE Next
  <2>1. PICK r \in Resources :
           \/ Method(r) \/ Crash(r) \/ BeginDelete(r)
           \/ \E want \in Wants[r] : Converge(r, want)
           \/ Vanish(r) \/ Stop(r) \/ Foreign(r)
    BY <1>2 DEF Next
  <2>2. CASE Method(r)
    BY <2>2, ObserveKeeps, ListKeeps, RemoveKeeps, CreateRefusedKeeps, CreateKeeps,
       StartKeeps DEF Method
  <2>3. CASE \E want \in Wants[r] : Converge(r, want)
    BY <2>3, ConvergeKeeps
  <2> QED
    BY <2>1, <2>2, <2>3, CrashKeeps, BeginDeleteKeeps, VanishKeeps, StopKeeps, ForeignKeeps
<1> QED
  BY <1>1, <1>2

LEMMA InitHolds == Init => IInv
<1> SUFFICES ASSUME Init
             PROVE  IInv
  OBVIOUS
<1>1. \A r \in Resources : names[r] = NoObj /\ call[r] = Idle
  BY DEF Init
<1>2. faults = 0 /\ MaxFaults \in Nat
  BY DockerAssumption DEF Init, DockerAssumption
<1>3. faults \in 0 .. MaxFaults
  BY <1>2
<1> QED
  BY <1>1, <1>3, IdleOK DEF Init, IInv, TypeOK, LooksUpItsOwn, StartsItsOwn, HasWant, Owned,
     Present, At, Converging

(* A method that has looked an object up or made one meets no other of ours  *)
(* under the name; a container waits to be started as it was made.           *)
THEOREM Invariance == Spec => []IInv
<1>1. Init => IInv
  BY InitHolds
<1>2. IInv /\ [Next]_vars => IInv'
  BY NextKeeps
<1> QED
  BY <1>1, <1>2, PTL DEF Spec

(* Every method is made for a Spec its resource was given, and so is every   *)
(* object that carries our labels.                                           *)
THEOREM TypeCorrect == Spec => []TypeOK
<1>1. IInv => TypeOK
  BY DEF IInv
<1> QED
  BY <1>1, Invariance, PTL

LEMMA LeavesForeign ==
    ASSUME IInv, Next, NEW s \in Resources, Present(s), ~names[s].owned
    PROVE  names'[s] = names[s]
<1>1. PICK r \in Resources :
         \/ Method(r) \/ Crash(r) \/ BeginDelete(r)
         \/ \E want \in Wants[r] : Converge(r, want)
         \/ Vanish(r) \/ Stop(r) \/ Foreign(r)
  BY DEF Next
<1>2. ~Owned(s)
  BY DEF Owned
<1>3. \/ UNCHANGED names
      \/ \E o : names' = [names EXCEPT ![r] = o] /\ (~Present(r) \/ Owned(r))
  <2>1. CASE NetworkRemove(r) \/ ContainerRemove(r)
    BY <2>1, ListedIsOwned DEF NetworkRemove, ContainerRemove, At
  <2>2. CASE ContainerStart(r)
    BY <2>2, ListedIsOwned DEF ContainerStart, At
  <2>3. CASE NetworkCreate(r) \/ ContainerCreate(r)
    BY <2>3 DEF NetworkCreate, ContainerCreate, CanCreate
  <2>4. CASE Observe(r) \/ List(r) \/ CreateRefused(r)
    BY <2>4 DEF Observe, List, CreateRefused
  <2> QED
    BY <1>1, <2>1, <2>2, <2>3, <2>4
    DEF Method, Crash, BeginDelete, Converge, Vanish, Stop, Foreign
<1> QED
  BY <1>2, <1>3, Here

(* What somebody else put under a name stays as it is, whatever the methods  *)
(* under way looked up before.                                               *)
THEOREM ForeignLeftAlone == Spec => ForeignUntouched
<1>1. IInv /\ [Next]_vars =>
         [\A r \in Resources : Present(r) /\ ~names[r].owned => names'[r] = names[r]]_vars
  BY LeavesForeign
<1> QED
  BY <1>1, Invariance, PTL DEF Spec, ForeignUntouched
-------------------------------------------------------------------------------
(* What module Provider sees of it.                                         *)

LEMMA Sees ==
    ASSUME IInv, NEW r \in Resources
    PROVE  /\ Visible(r) =>
                /\ objs[r] = [id |-> names[r].id, spec |-> names[r].spec, up |-> names[r].up]
                /\ objs[r].id = names[r].id /\ objs[r].spec = names[r].spec
                /\ objs[r].up = names[r].up /\ objs[r] # NoObj
           /\ ~Visible(r) => objs[r] = NoObj
<1>1. ASSUME Visible(r)
      PROVE  [id |-> names[r].id, spec |-> names[r].spec, up |-> names[r].up] # NoObj
  <2>1. names[r] \in Ours
    BY <1>1, OwnedIsOurs DEF Visible
  <2>2. [id |-> names[r].id, spec |-> names[r].spec, up |-> names[r].up] \in substrate!Objects
    BY <2>1 DEF Ours, substrate!Objects
  <2> QED
    BY <2>2, DockerAssumption DEF DockerAssumption
<1> QED
  BY <1>1 DEF objs

LEMMA SeesNext ==
    ASSUME NEW r \in Resources
    PROVE  objs'[r] = IF Visible(r)'
                      THEN [id |-> names'[r].id, spec |-> names'[r].spec, up |-> names'[r].up]
                      ELSE NoObj
  BY DEF objs

(* A step on one resource shows at that resource at most.                   *)
LEMMA OneObject ==
    ASSUME NEW r \in Resources, Only(r)
    PROVE  /\ objs' = [objs EXCEPT ![r] = objs'[r]]
           /\ objs'[r] = objs[r] => objs' = objs
<1>1. \A s \in Resources \ {r} : objs'[s] = objs[s]
  BY DEF objs, Visible, Owned, Present, At, Listed, Only
<1>2. objs \in [Resources -> {objs[s] : s \in Resources}]
      /\ objs' \in [Resources -> {objs'[s] : s \in Resources}]
  BY DEF objs
<1> QED
  BY <1>1, <1>2

LEMMA NothingShows ==
    ASSUME IInv, NEW r \in Resources, Only(r), names'[r] = names[r],
           ~At(r, "start") \/ ~Owned(r), ~At(r, "start")' \/ ~Owned(r)
    PROVE  objs' = objs
<1>1. (Visible(r)' <=> Visible(r)) /\ names'[r] = names[r]
  BY DEF Visible, Owned, Present
<1>2. objs'[r] = objs[r]
  BY <1>1 DEF objs
<1> QED
  BY <1>2, OneObject

LEMMA ShowsGone ==
    ASSUME NEW r \in Resources, Only(r), ~Owned(r)'
    PROVE  objs' = [objs EXCEPT ![r] = NoObj]
  BY SeesNext, OneObject DEF Visible

LEMMA ShowsMade ==
    ASSUME NEW r \in Resources, Only(r), Visible(r)'
    PROVE  substrate!Make(r, names'[r].spec, names'[r].id, names'[r].up)
  BY SeesNext, OneObject DEF substrate!Make

(* Networks are seen as the daemon has them, running containers too.        *)
LEMMA AttachedIsInUse ==
    ASSUME IInv, NEW r \in Networks, Owned(r)
    PROVE  substrate!Attached(r) <=> InUse(r)
<1>1. r \in Resources /\ Visible(r)
  BY Here, DockerAssumption DEF Visible, ResourceOK, DockerAssumption
<1>2. \A c \in Resources : Owned(c) /\ names[c].up => Visible(c)
  BY Here DEF Visible, ResourceOK
<1>3. objs[r] # NoObj /\ objs[r].id = names[r].id
  BY <1>1, Sees
<1>4. ASSUME NEW c \in Resources
      PROVE  /\ (Owned(c) /\ names[c].up) <=> (objs[c] # NoObj /\ objs[c].up)
             /\ Owned(c) /\ names[c].up => objs[c].spec = names[c].spec
  <2>1. CASE Visible(c)
    BY <2>1, Sees DEF Visible
  <2>2. CASE ~Visible(c)
    BY <2>2, <1>2, Sees
  <2> QED
    BY <2>1, <2>2
<1> QED
  BY <1>3, <1>4
  DEF substrate!Attached, substrate!Exists, substrate!Ready, InUse, ToSet, substrate!ToSet

(* A method ends, or one call of it is over and the next one to come.       *)
LEMMA OthersBetween ==
    ASSUME NEW r \in Resources, Only(r), Between(r)
    PROVE  \A s \in Resources : Between(s)
  BY DEF Between, Ends, Only

LEMMA Returned ==
    ASSUME IInv, NEW r \in Resources, NEW what, Return(r, what)
    PROVE  /\ Returns(r, what) /\ ~At(r, "start")' /\ call'[r] = Idle
           /\ call[r].at \in Creating => Ends(r, Creating)
           /\ call[r].at \in Deleting => Ends(r, Deleting)
           /\ call[r].at = "observe" \/ call[r].at = "idle" => Between(r)
  BY Here, IdleOK DEF Return, Returns, Ends, Creating, Deleting, Between, At

LEMMA Went ==
    ASSUME IInv, NEW r \in Resources, call[r].at \in Deleting, Deleted(r)
    PROVE  /\ At(r, "create")' \/ Returns(r, "nil")
           /\ Ends(r, Deleting) /\ ~At(r, "start")'
<1>1. CASE call[r].next = "create"
  <2>1. call'[r].at = "create"
    BY <1>1, Here DEF Deleted, Goto, Calls
  <2> QED
    BY <2>1 DEF Ends, Deleting, At
<1>2. CASE call[r].next # "create"
  BY <1>2, Returned DEF Deleted
<1> QED
  BY <1>1, <1>2

(* A Create that fails, or dies, at a call that changes nothing: what was    *)
(* created and not started now shows.                                       *)
LEMMA CreateFails ==
    ASSUME IInv, NEW r \in Resources, Only(r), call[r].at \in Creating,
           NEW what \in {"", "error"}, Return(r, what), UNCHANGED names
    PROVE  CreateStep(r)
<1>1. Ends(r, Creating) /\ (Returns(r, "error") \/ Returns(r, "")) /\ ~At(r, "start")'
  BY Returned
<1>2. CASE At(r, "start") /\ Owned(r)
  <2>1. /\ r \notin Networks /\ call[r].want.base \notin BadBases
        /\ names[r].spec = call[r].want /\ names[r].up = FALSE /\ names[r].id \in Ids
    BY <1>2, Here, OwnedIsOurs DEF ResourceOK, Ours
  <2>2. Visible(r)' /\ names'[r] = names[r]
    BY <1>1, <1>2 DEF Visible, Owned, Present
  <2>3. substrate!Make(r, call[r].want, names[r].id, FALSE)
    BY <2>1, <2>2, ShowsMade
  <2>4. substrate!CreateFaults(r, call[r].want, Needs(r, call[r].want), names[r].id, "start")
    BY <2>1, <2>3 DEF substrate!CreateFaults
  <2> QED
    BY <1>1, <2>1, <2>4 DEF CreateStep
<1>3. CASE ~At(r, "start") \/ ~Owned(r)
  <2>1. objs' = objs
    BY <1>1, <1>3, NothingShows
  <2>2. PICK id \in Ids : TRUE
    BY DockerAssumption DEF DockerAssumption
  <2>3. substrate!CreateFaults(r, call[r].want, Needs(r, call[r].want), id, "call")
    BY <2>1 DEF substrate!CreateFaults
  <2> QED
    BY <1>1, <2>3 DEF CreateStep
<1> QED
  BY <1>2, <1>3

LEMMA CreateRefusedMaps ==
    ASSUME IInv, NEW r \in Resources, Only(r), CreateRefused(r)
    PROVE  CreateStep(r)
  BY CreateFails DEF CreateRefused, At, Creating

(* A network is there at once, if only the answer gets lost.                *)
LEMMA NetworkCreateMaps ==
    ASSUME IInv, NEW r \in Resources, Only(r), NetworkCreate(r)
    PROVE  CreateStep(r)
<1> DEFINE want == call[r].want
<1>1. /\ At(r, "create") /\ call[r].at \in Creating /\ r \in Networks
      /\ want.base \notin BadBases /\ (Fault \/ NoFault)
      /\ Return(r, "nil") \/ Return(r, "error")
  BY DEF NetworkCreate, CanCreate, IsNetwork, At, Creating
<1>2. PICK id \in NewIds : names' = [names EXCEPT ![r] = Stamped(r, id, TRUE)]
  BY DEF NetworkCreate
<1>3. /\ id \in Ids /\ names'[r].id = id /\ names'[r].spec = want
      /\ names'[r].up = TRUE /\ Owned(r)'
  BY <1>1, <1>2, StampedOK
<1>4. /\ Ends(r, Creating) /\ ~At(r, "start")'
      /\ Returns(r, "nil") \/ Returns(r, "error")
  BY <1>1, Returned
<1>5. substrate!Make(r, want, id, TRUE)
  BY <1>3, <1>4, ShowsMade DEF Visible
<1>6. (r \in Networks \/ substrate!Creatable(r, want, Needs(r, want))) = TRUE
  BY <1>1
<1>7. substrate!Create(r, want, Needs(r, want), id)
  BY <1>1, <1>5, <1>6 DEF substrate!Create
<1>8. substrate!Creatable(r, want, Needs(r, want))
  BY <1>1 DEF substrate!Creatable, Needs, IsNetwork
<1>9. substrate!CreateFaults(r, want, Needs(r, want), id, "reply")
  BY <1>7 DEF substrate!CreateFaults
<1> QED
  BY <1>3, <1>4, <1>7, <1>8, <1>9 DEF CreateStep

(* A container does not show before it is started, unless that is the end.   *)
LEMMA ContainerCreateMaps ==
    ASSUME IInv, NEW r \in Resources, Only(r), ContainerCreate(r)
    PROVE  CreateStep(r) \/ (Between(r) /\ objs' = objs)
<1> DEFINE want == call[r].want
<1>1. /\ At(r, "create") /\ call[r].at \in Creating /\ r \notin Networks
      /\ want.base \notin BadBases /\ (Fault \/ NoFault) /\ ~Present(r)
  BY DEF ContainerCreate, CanCreate, IsNetwork, At, Creating
<1>2. PICK id \in NewIds :
         /\ names' = [names EXCEPT ![r] = Stamped(r, id, FALSE)]
         /\ \/ call' = [call EXCEPT ![r].at = "start", ![r].id = id]
            \/ Return(r, "error")
  BY DEF ContainerCreate
<1>3. /\ id \in Ids /\ names'[r].id = id /\ names'[r].spec = want
      /\ names'[r].up = FALSE /\ Owned(r)'
  BY <1>1, <1>2, StampedOK
<1>4. CASE Return(r, "error")
  <2>1. Ends(r, Creating) /\ Returns(r, "error") /\ ~At(r, "start")'
    BY <1>1, <1>4, Returned
  <2>2. substrate!Make(r, want, id, FALSE)
    BY <1>3, <2>1, ShowsMade DEF Visible
  <2>3. substrate!CreateFaults(r, want, Needs(r, want), id, "start")
    BY <1>1, <2>2 DEF substrate!CreateFaults
  <2> QED
    BY <1>3, <2>1, <2>3 DEF CreateStep
<1>5. CASE call' = [call EXCEPT ![r].at = "start", ![r].id = id]
  <2>1. call'[r].at = "start" /\ call'[r].id = id
    BY <1>5, Here DEF Calls
  <2>2. ~Visible(r)'
    BY <1>3, <2>1 DEF Visible, At, Listed, Owned
  <2>3. ~Visible(r)
    BY <1>1 DEF Visible, Owned
  <2>4. objs' = objs
    BY <2>2, <2>3, Sees, SeesNext, OneObject
  <2>5. Between(r)
    BY <1>1, <2>1 DEF Between, Ends, Creating, Deleting, At
  <2> QED
    BY <2>4, <2>5
<1> QED
  BY <1>2, <1>4, <1>5

(* The networks a container can be started on are those Provider sees.      *)
LEMMA NetworksShow ==
    ASSUME IInv, NEW r \in Resources, call[r].want \in Wants[r],
           Needs(r, call[r].want) \subseteq NetworkIds
    PROVE  Needs(r, call[r].want) \subseteq
               {objs[n].id : n \in {m \in Networks : substrate!Exists(m)}}
<1>1. Needs(r, call[r].want) \subseteq Ids
  BY DockerAssumption DEF Needs, ToSet, substrate!Wanted, DockerAssumption
<1>2. ASSUME NEW n \in Networks, Present(n), names[n].id \in Ids
      PROVE  substrate!Exists(n) /\ objs[n].id = names[n].id
  <2>1. n \in Resources /\ names[n] \in Ours \cup {Theirs, NoObj} /\ ~At(n, "start")
    BY Here, DockerAssumption DEF ResourceOK, DockerAssumption
  <2>2. names[n] \in Ours
    BY <1>2, <2>1, DockerAssumption DEF Present, Theirs, DockerAssumption
  <2>3. Visible(n)
    BY <1>2, <2>1, <2>2 DEF Visible, Owned, Ours
  <2> QED
    BY <2>1, <2>3, Sees DEF substrate!Exists
<1> QED
  BY <1>1, <1>2 DEF NetworkIds

LEMMA ContainerStartMaps ==
    ASSUME IInv, NEW r \in Resources, Only(r), ContainerStart(r)
    PROVE  CreateStep(r)
<1> DEFINE want == call[r].want
           needs == Needs(r, want)
<1>1. /\ call[r].at = "start" /\ call[r].at \in Creating
      /\ want \in Wants[r] /\ want.base \notin BadBases
      /\ Return(r, "nil") \/ Return(r, "error")
  BY Here DEF ContainerStart, At, Creating, ResourceOK, Converging
<1>2. CASE UNCHANGED names /\ Return(r, "error")
  BY <1>1, <1>2, CreateFails
<1>3. CASE /\ Listed(r) /\ needs \subseteq NetworkIds
           /\ names' = [names EXCEPT ![r].up = TRUE]
  <2>1. Owned(r)
    BY <1>1, <1>3, ListedIsOwned
  <2>2. names[r].spec = want /\ names[r].id \in Ids
    BY <1>1, <2>1, Here, OwnedIsOurs DEF ResourceOK, At
  <2>3. /\ names'[r].up = TRUE /\ Owned(r)'
        /\ names'[r].id = names[r].id /\ names'[r].spec = want
    BY <1>3, <2>1, <2>2, UpOK
  <2>4. /\ Ends(r, Creating) /\ ~At(r, "start")'
        /\ Returns(r, "nil") \/ Returns(r, "error")
    BY <1>1, Returned
  <2>5. substrate!Make(r, want, names[r].id, TRUE)
    BY <2>3, <2>4, ShowsMade DEF Visible
  <2>6. substrate!Creatable(r, want, needs)
    BY <1>1, <1>3, NetworksShow DEF substrate!Creatable
  <2>7. (r \in Networks \/ substrate!Creatable(r, want, needs)) = TRUE
    BY <2>6
  <2>8. substrate!Create(r, want, needs, names[r].id)
    BY <1>1, <2>5, <2>7 DEF substrate!Create
  <2>9. substrate!CreateFaults(r, want, needs, names[r].id, "reply")
    BY <2>8 DEF substrate!CreateFaults
  <2> QED
    BY <2>2, <2>4, <2>6, <2>8, <2>9 DEF CreateStep
<1> QED
  BY <1>2, <1>3 DEF ContainerStart

(* A Delete that fails, or dies, at a call that changes nothing.            *)
LEMMA DeleteFails ==
    ASSUME IInv, NEW r \in Resources, Only(r), call[r].at \in Deleting,
           NEW what \in {"", "error"}, Return(r, what), UNCHANGED names
    PROVE  DeleteStep(r)
<1>1. /\ Ends(r, Deleting) /\ (Returns(r, "error") \/ Returns(r, ""))
      /\ ~At(r, "start")' /\ ~At(r, "start")
  BY Returned DEF Deleting, At
<1>2. substrate!DeleteFaults(r, "call")
  BY <1>1, NothingShows DEF substrate!DeleteFaults
<1> QED
  BY <1>1, <1>2 DEF DeleteStep

(* Nothing of ours is there any more, whoever removed it.                   *)
LEMMA DeleteOver ==
    ASSUME IInv, NEW r \in Resources, Only(r), call[r].at \in Deleting, ~Owned(r)',
           ~substrate!Attached(r), Deleted(r) \/ Return(r, "error")
    PROVE  DeleteStep(r)
<1>1. substrate!Deletable(r) /\ substrate!Delete(r)
  BY ShowsGone DEF substrate!Deletable, substrate!Delete
<1>2. CASE Deleted(r)
  BY <1>1, <1>2, Went DEF DeleteStep
<1>3. CASE Return(r, "error")
  <2>1. substrate!DeleteFaults(r, "reply")
    BY <1>1 DEF substrate!DeleteFaults
  <2> QED
    BY <1>3, <2>1, Returned DEF DeleteStep
<1> QED
  BY <1>2, <1>3

LEMMA ListMaps ==
    ASSUME IInv, NEW r \in Resources, Only(r), List(r)
    PROVE  DeleteStep(r) \/ (Between(r) /\ objs' = objs)
<1>1. UNCHANGED names /\ call[r].at = "list" /\ call[r].at \in Deleting
  BY DEF List, At, Deleting
<1>2. CASE ~Owned(r) /\ Deleted(r)
  <2>1. ~Owned(r)' /\ ~substrate!Attached(r)
    BY <1>1, <1>2, Sees
    DEF Owned, Present, Visible, substrate!Attached, substrate!Exists
  <2> QED
    BY <1>1, <1>2, <2>1, DeleteOver
<1>3. CASE call' = [call EXCEPT ![r].at = "remove", ![r].id = names[r].id]
  <2>1. call'[r].at = "remove"
    BY <1>3, Here DEF Calls
  <2>2. objs' = objs
    BY <1>1, <2>1, NothingShows DEF At
  <2>3. Between(r)
    BY <1>1, <2>1 DEF Between, Ends, Creating, Deleting
  <2> QED
    BY <2>2, <2>3
<1>4. CASE Return(r, "error")
  BY <1>1, <1>4, DeleteFails
<1> QED
  BY <1>2, <1>3, <1>4 DEF List

LEMMA NetworkRemoveMaps ==
    ASSUME IInv, NEW r \in Resources, Only(r), NetworkRemove(r)
    PROVE  DeleteStep(r)
<1>1. call[r].at = "remove" /\ call[r].at \in Deleting /\ r \in Networks
  BY DEF NetworkRemove, At, Deleting, IsNetwork
<1>2. CASE ~Listed(r) /\ Deleted(r) /\ UNCHANGED names
  <2>1. ~Owned(r)
    BY <1>1, <1>2, Here DEF ResourceOK
  <2>2. ~Owned(r)' /\ ~substrate!Attached(r)
    BY <1>2, <2>1, Sees
    DEF Owned, Present, Visible, substrate!Attached, substrate!Exists
  <2> QED
    BY <1>1, <1>2, <2>2, DeleteOver
<1>3. CASE Listed(r) /\ InUse(r) /\ Return(r, "error") /\ UNCHANGED names
  <2>1. ~substrate!Deletable(r)
    BY <1>1, <1>3, ListedIsOwned, AttachedIsInUse DEF substrate!Deletable
  <2>2. objs' = objs /\ Ends(r, Deleting) /\ Returns(r, "error")
    BY <1>1, <1>3, Returned, NothingShows DEF At
  <2>3. substrate!Delete(r)
    BY <2>1, <2>2 DEF substrate!Delete
  <2> QED
    BY <2>1, <2>2, <2>3 DEF DeleteStep
<1>4. CASE /\ Listed(r) /\ ~InUse(r) /\ names' = [names EXCEPT ![r] = NoObj]
           /\ Deleted(r) \/ Return(r, "error")
  <2>1. ~substrate!Attached(r) /\ ~Owned(r)'
    BY <1>1, <1>4, Here, ListedIsOwned, AttachedIsInUse DEF Owned, Present
  <2> QED
    BY <1>1, <1>4, <2>1, DeleteOver
<1>5. CASE Return(r, "error") /\ UNCHANGED names
  BY <1>1, <1>5, DeleteFails
<1> QED
  BY <1>2, <1>3, <1>4, <1>5 DEF NetworkRemove

LEMMA ContainerRemoveMaps ==
    ASSUME IInv, NEW r \in Resources, Only(r), ContainerRemove(r)
    PROVE  DeleteStep(r)
<1>1. call[r].at = "remove" /\ call[r].at \in Deleting /\ ~substrate!Attached(r)
  BY DEF ContainerRemove, At, Deleting, IsNetwork, substrate!Attached
<1>2. CASE Return(r, "error") /\ UNCHANGED names
  BY <1>1, <1>2, DeleteFails
<1>3. CASE /\ names' = [names EXCEPT ![r] = NoObj]
           /\ Deleted(r) \/ Return(r, "error")
  <2>1. ~Owned(r)'
    BY <1>3, Here DEF Owned, Present
  <2> QED
    BY <1>1, <1>3, <2>1, DeleteOver
<1> QED
  BY <1>2, <1>3 DEF ContainerRemove

LEMMA CrashMaps ==
    ASSUME IInv, NEW r \in Resources, Only(r), Crash(r)
    PROVE  CreateStep(r) \/ DeleteStep(r) \/ (Between(r) /\ objs' = objs)
<1>1. Return(r, "") /\ UNCHANGED names /\ call[r].at # "idle"
  BY DEF Crash, At
<1>2. CASE call[r].at = "observe"
  BY <1>1, <1>2, Returned, NothingShows DEF At
<1>3. CASE call[r].at # "observe"
  <2>1. call[r].at \in Creating \cup Deleting
    BY <1>1, <1>3, Here DEF Calls, Creating, Deleting
  <2> QED
    BY <1>1, <2>1, CreateFails, DeleteFails
<1> QED
  BY <1>2, <1>3

(* Between two methods and in the middle of one: what others do.            *)
LEMMA VanishMaps ==
    ASSUME IInv, NEW r \in Resources, Only(r), Vanish(r)
    PROVE  objs' = objs \/ \E fault \in {"vanish", "unplug"} : substrate!Drift(r, fault)
<1>1. ~Owned(r)'
  BY Here DEF Vanish, Owned, Present
<1>2. objs' = [objs EXCEPT ![r] = NoObj]
  BY <1>1, ShowsGone
<1>3. CASE objs[r] = NoObj
  <2>1. objs'[r] = objs[r]
    BY <1>1, <1>3, SeesNext DEF Visible
  <2> QED
    BY <2>1, OneObject
<1>4. CASE objs[r] # NoObj
  BY <1>2, <1>4 DEF substrate!Drift, substrate!Exists
<1> QED
  BY <1>3, <1>4

LEMMA StopMaps ==
    ASSUME IInv, NEW r \in Resources, Only(r), Stop(r)
    PROVE  substrate!Drift(r, "stop")
<1>1. /\ Owned(r) /\ names[r].up /\ r \notin Networks /\ UNCHANGED call
      /\ names' = [names EXCEPT ![r].up = FALSE]
  BY DEF Stop, IsNetwork
<1>2. ~At(r, "start")
  BY <1>1, Here DEF ResourceOK
<1>3. /\ Visible(r)' /\ Visible(r)
      /\ names'[r].up = FALSE /\ names'[r].id = names[r].id
      /\ names'[r].spec = names[r].spec
  BY <1>1, <1>2, UpOK DEF Visible, At
<1>4. /\ objs[r] = [id |-> names[r].id, spec |-> names[r].spec, up |-> names[r].up]
      /\ objs[r] # NoObj
  BY <1>3, Sees
<1>5. objs'[r] = [id |-> names[r].id, spec |-> names[r].spec, up |-> FALSE]
  BY <1>3, SeesNext
<1>6. objs'[r] = [objs[r] EXCEPT !.up = FALSE]
  <2>1. PICK i, spec, up, down :
           i = names[r].id /\ spec = names[r].spec /\ up = names[r].up /\ down = FALSE
    OBVIOUS
  <2>2. PICK o, p : o = objs[r] /\ p = [o EXCEPT !.up = down]
    OBVIOUS
  <2>3. o = [id |-> i, spec |-> spec, up |-> up]
    BY <1>4, <2>1, <2>2
  <2>4. p = [id |-> i, spec |-> spec, up |-> down]
    BY <2>2, <2>3
  <2> QED
    BY <1>5, <2>1, <2>2, <2>4
<1>7. objs' = [objs EXCEPT ![r].up = FALSE]
  BY <1>6, OneObject DEF objs
<1> QED
  BY <1>1, <1>4, <1>7 DEF substrate!Drift, substrate!Exists

LEMMA ForeignMaps ==
    ASSUME IInv, NEW r \in Resources, Only(r), Foreign(r)
    PROVE  objs' = objs
<1>1. names'[r] = Theirs /\ ~Theirs.owned /\ ~Owned(r)
  BY Here DEF Foreign, Theirs, Owned
<1>2. ~Visible(r) /\ ~Visible(r)'
  BY <1>1 DEF Visible, Owned
<1> QED
  BY <1>2, Sees, SeesNext, OneObject

(* Beginning a method, and Observe, which only looks.                       *)
LEMMA BeginsMap ==
    ASSUME IInv, NEW r \in Resources, Only(r),
           \/ \E want \in Wants[r] : Converge(r, want)
           \/ BeginDelete(r) \/ Observe(r)
    PROVE  Between(r) /\ objs' = objs
<1>1. UNCHANGED names /\ call[r].at \in {"idle", "observe"}
  BY DEF Converge, BeginDelete, Observe, At
<1>2. call'[r].at # "start"
  <2>1. CASE \E want \in Wants[r] : Converge(r, want)
    BY <2>1, Here DEF Converge, Idle
  <2>2. CASE BeginDelete(r)
    BY <2>2, Here DEF BeginDelete, Calls
  <2>3. CASE Observe(r) /\ Goto(r, "create")
    BY <2>3, Here DEF Goto, Calls
  <2>4. CASE call' = [call EXCEPT ![r].at = "list", ![r].next = "create"]
    BY <2>4, Here DEF Calls
  <2>5. CASE Return(r, "nil") \/ Return(r, "error")
    BY <2>5, Here, IdleOK DEF Return
  <2> QED
    BY <2>1, <2>2, <2>3, <2>4, <2>5 DEF Observe
<1> QED
  BY <1>1, <1>2, NothingShows DEF Between, Ends, Creating, Deleting, At

LEMMA StepsOneResource ==
    ASSUME IInv, NEW r \in Resources,
           \/ Method(r) \/ Crash(r) \/ BeginDelete(r)
           \/ \E want \in Wants[r] : Converge(r, want)
           \/ Vanish(r) \/ Stop(r) \/ Foreign(r)
    PROVE  Only(r)
<1>1. \/ UNCHANGED names
      \/ \E o : names' = [names EXCEPT ![r] = o]
  BY DEF Method, Observe, List, NetworkRemove, ContainerRemove, CreateRefused, NetworkCreate,
         ContainerCreate, ContainerStart, Crash, BeginDelete, Converge, Vanish, Stop, Foreign
<1>2. \/ UNCHANGED call
      \/ \E j : call' = [call EXCEPT ![r] = j]
  BY DEF Method, Observe, List, NetworkRemove, ContainerRemove, CreateRefused, NetworkCreate,
         ContainerCreate, ContainerStart, Crash, BeginDelete, Converge, Vanish, Stop, Foreign,
         Goto, Return, Deleted
<1> QED
  BY <1>1, <1>2, Here DEF Only

LEMMA NextMaps ==
    ASSUME IInv, Next
    PROVE  ProviderStep
<1>1. PICK r \in Resources :
         \/ Method(r) \/ Crash(r) \/ BeginDelete(r)
         \/ \E want \in Wants[r] : Converge(r, want)
         \/ Vanish(r) \/ Stop(r) \/ Foreign(r)
  BY DEF Next
<1>2. Only(r)
  BY <1>1, StepsOneResource
<1>3. CASE CreateStep(r) \/ DeleteStep(r)
  BY <1>3 DEF ProviderStep
<1>4. CASE Between(r) /\ objs' = objs
  BY <1>2, <1>4, OthersBetween DEF ProviderStep
<1>5. CASE Vanish(r) \/ Stop(r) \/ Foreign(r)
  <2>1. \A s \in Resources : Between(s)
    BY <1>5 DEF Vanish, Stop, Foreign, Between, Ends
  <2> QED
    BY <1>2, <1>5, <2>1, VanishMaps, StopMaps, ForeignMaps DEF ProviderStep
<1> QED
  BY <1>1, <1>2, <1>3, <1>4, <1>5, CreateRefusedMaps, NetworkCreateMaps,
     ContainerCreateMaps, ContainerStartMaps, ListMaps, NetworkRemoveMaps,
     ContainerRemoveMaps, CrashMaps, BeginsMap DEF Method

(* Calls that fail, answers that are lost, crashes in the middle and races   *)
(* with what others do come to one step of module Provider per method.      *)
THEOREM ProviderPromise == Spec => ImplementsProvider
<1>1. Init => substrate!Init
  BY DEF Init, substrate!Init, objs, Visible, Owned, Present
<1>2. IInv /\ [Next]_vars => [ProviderStep]_<<objs, call, result>>
  <2>1. UNCHANGED vars => UNCHANGED <<objs, call, result>>
    BY DEF vars, objs, Visible, Owned, Present, At, Listed
  <2> QED
    BY <2>1, NextMaps
<1> QED
  BY <1>1, <1>2, Invariance, PTL DEF Spec, ImplementsProvider
===============================================================================

--------------------------------- MODULE Store --------------------------------
(***************************************************************************)
(* The resource store (core/store): Memory's map under one lock, so each   *)
(* method is one step.  A resource keeps what the reconciler tells apart:  *)
(* its Spec up to the references in it (base), the references in the order *)
(* of their names, the deletion mark, the time of creation and the Status. *)
(***************************************************************************)
EXTENDS Naturals, Sequences

CONSTANTS
    Resources,   \* kind/name pairs a client can write
    Fields,      \* the Status.Observed fields a reference can name
    Bases,       \* Spec texts, references aside
    Ids,         \* identities of Substrate objects, what a field can hold
    NoId,        \* the empty string, where no such identity is known
    Absent       \* no resource under this key

VARIABLE items

Phases == {"", "Pending", "Creating", "Ready", "Deleting", "Error"}

References == [target : Resources, field : Fields]

\* What a client sends in a PUT.
Manifests == [base : Bases, refs : Seq(References)]

Statuses == [phase : Phases, observed : Ids \cup {NoId}]

Items == [base : Bases, refs : Seq(References), marked : BOOLEAN,
          createdAt : Nat, status : Statuses]

TypeOK == items \in [Resources -> Items \cup {Absent}]

Init == items = [r \in Resources |-> Absent]

Has(r) == items[r] # Absent
Marked(r) == Has(r) /\ items[r].marked

\* The Ready flag of a Status: converge sets it with Phase Ready, and nothing
\* else sets it.
IsReady(r) == Has(r) /\ items[r].status.phase = "Ready"

\* A slip: a new Spec takes the deletion mark off.
PutUnmarked(r, m, now) ==
    items' = [items EXCEPT ![r] =
        IF Has(r) THEN [@ EXCEPT !.base = m.base, !.refs = m.refs, !.marked = FALSE]
        ELSE [base |-> m.base, refs |-> m.refs, marked |-> FALSE, createdAt |-> now,
              status |-> [phase |-> "", observed |-> NoId]]]

\* A new Spec keeps the Status, the creation time and the deletion mark of the
\* resource it replaces.
Put(r, m, now) ==
    items' = [items EXCEPT ![r] =
        IF Has(r) THEN [@ EXCEPT !.base = m.base, !.refs = m.refs]
        ELSE [base |-> m.base, refs |-> m.refs, marked |-> FALSE, createdAt |-> now,
              status |-> [phase |-> "", observed |-> NoId]]]

\* A slip: a status is written only when the phase is a new one.
UpdatePhase(r, s) ==
    items' = IF Has(r) /\ items[r].status.phase # s.phase
             THEN [items EXCEPT ![r].status = s] ELSE items

\* ErrNotFound in the three calls below changes nothing.
UpdateStatus(r, s) ==
    items' = IF Has(r) THEN [items EXCEPT ![r].status = s] ELSE items

MarkForDeletion(r) ==
    items' = IF Has(r) THEN [items EXCEPT ![r].marked = TRUE] ELSE items

Delete(r) == items' = [items EXCEPT ![r] = Absent]
===============================================================================

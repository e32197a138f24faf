-------------------------------- MODULE MCSystem -------------------------------
(***************************************************************************)
(* A TLC instance of System: one container, whose Spec may be one that     *)
(* cannot be created or may wait for a resource that is not there.         *)
(***************************************************************************)
EXTENDS System, TLC

CONSTANTS web, w1, w2, v1, bad, id

MCOffers ==
    web :> {[base |-> v1, refs |-> <<>>], [base |-> bad, refs |-> <<>>],
            [base |-> v1, refs |-> <<[target |-> web, field |-> id]>>]}
===============================================================================

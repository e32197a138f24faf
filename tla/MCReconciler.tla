----------------------------- MODULE MCReconciler -----------------------------
(***************************************************************************)
(* TLC instances of Reconciler: a network and a container that joins it,   *)
(* as in the demo of the README; two containers that refer to each other;  *)
(* a resource of a kind without a provider.                                *)
(***************************************************************************)
EXTENDS Reconciler, TLC

CONSTANTS net, web, api, odd, w1, w2, v1, v2, bad, id, unset

MCFields == {id, unset}
MCBases  == {v1, v2, bad}

To(t)     == [target |-> t, field |-> id]
M(b, ref) == [base |-> b, refs |-> ref]

\* The network and the container attached to it.
MCPair    == {net, web}
MCPairNet == {net}
MCPairOnce == net :> {M(v1, <<>>)} @@ web :> {M(v1, <<To(net)>>)}
MCPairOffers ==
    net :> {M(v1, <<>>)} @@ web :> {M(v1, <<To(net)>>), M(v2, <<To(net)>>)}

\* The network with two drivers to choose from, and its container.
MCNetOffers ==
    net :> {M(v1, <<>>), M(v2, <<>>)} @@ web :> {M(v1, <<To(net)>>)}

\* One container.
MCLone       == {web}
MCLoneOffers == web :> {M(v1, <<>>), M(v2, <<>>)}
MCLoneOnce   == web :> {M(v1, <<>>)}

\* A kind without a provider, Specs that cannot be created, references to
\* what never becomes Ready and to a field that is never set.
MCCorner  == {api, odd}
MCOwned   == {api}
MCCornerOffers ==
    api :> {M(v1, <<>>), M(bad, <<>>), M(v1, <<To(odd)>>)}
    @@ odd :> {M(v1, <<>>), M(v1, <<[target |-> api, field |-> unset]>>)}

\* A container, and one that does not at first refer back to it.
MCRing       == {api, web}
MCRingOffers == api :> {M(v1, <<To(web)>>)} @@ web :> {M(v1, <<>>), M(v1, <<To(api)>>)}

MCWorkers == {w1, w2}
MCOne     == {w1}
MCSymmetry == Permutations(MCWorkers)
===============================================================================

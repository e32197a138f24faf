------------------------------- MODULE MCDocker -------------------------------
(* A TLC instance of Docker: a network and a container that joins it. *)
EXTENDS Docker, TLC

CONSTANTS net, web, v1, v2, bad

MCResources == {net, web}
MCBases     == {v1, v2, bad}

\* The network with two drivers; the container with one of the networks there
\* have been, or an image that cannot be pulled.
MCWants ==
    net :> {[base |-> v1, vals |-> <<>>], [base |-> v2, vals |-> <<>>]}
    @@ web :> {[base |-> v1, vals |-> <<i>>] : i \in Ids}
                 \cup {[base |-> bad, vals |-> <<>>]}
===============================================================================

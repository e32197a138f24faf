------------------------------- MODULE MCDaemon -------------------------------
(* TLC instances of Daemon. *)
EXTENDS Daemon

CONSTANTS k1, k2, w1, h1, h2

MCKeys     == {k1, k2}
MCHandlers == {h1, h2}

\* One key can be written, removed and written again; the other one is in the
\* listings with it.
MCRequests == {[op |-> "put", key |-> k1], [op |-> "delete", key |-> k1],
               [op |-> "put", key |-> k2]}
===============================================================================

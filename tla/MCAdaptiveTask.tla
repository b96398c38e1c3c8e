---------------------------- MODULE MCAdaptiveTask ----------------------------
(* Two runtimes one after the other, three operations of which the ring     *)
(* remembers one.                                                           *)
EXTENDS AdaptiveTask

CONSTANTS low, high

MCRoutes == {low, high}

\* All of it at once is too many states.  Explored are two operations with any
\* one of: a model the user picks, a route the model picks, a request of
\* another kind, the commands of two runtimes at once; and a third operation
\* on a task that has made no request yet and that nobody stopped.
Picked == picks > 0
Routed == doc.route # FirstRoute
Overlap == \A r \in Runtimes : cmd[r] # NoCmd
Third == issued[3] # <<>>
One(S) == \A i, j \in DOMAIN S : S[i] /\ S[j] => i = j
Focus ==
    /\ One(<<Picked, Routed, aux, Overlap, Third>>)
    /\ Overlap => turn.pc = "none"
    /\ Third => turn.pc = "none" /\ doc.reserved = 0 /\ ~userStopped
    /\ Picked => ~userStopped
=============================================================================

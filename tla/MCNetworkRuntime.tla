-------------------------- MODULE MCNetworkRuntime -------------------------
(* NetworkRuntime for TLC: a network that is stopped while an actor rolls. *)
EXTENDS NetworkRuntime

Heights == <<1, 2, 3, 4, 5, 6>>

Cycles == <<0, 1, 1, 0, 2, 2>>

\* Three gates are complete; the Pod of the actor is replaced once and the network stopped.
Rolled == {[k \in Kinds |-> IF k = "From" THEN 3 ELSE IF k \in {"Stop", "Roll"} THEN 1 ELSE 0]}
=============================================================================

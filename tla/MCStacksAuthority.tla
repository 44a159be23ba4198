-------------------------- MODULE MCStacksAuthority --------------------------
(* StacksAuthority for TLC: a pause and an edit. *)
EXTENDS StacksAuthority

\* The network is paused and the policy of the participant is edited, in either order.
PausedEdit == {[k \in Kinds |-> IF k \in {"Pause", "Policy"} THEN 1 ELSE 0]}
=============================================================================

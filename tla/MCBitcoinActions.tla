-------------------------- MODULE MCBitcoinActions --------------------------
(* BitcoinActions for TLC: one request that may expire. *)
EXTENDS BitcoinActions

\* A generation of one block whose deadline may pass at any moment.
Expiring ==
    {[spec |-> [r \in Requests |-> [kind |-> "Generation", size |-> 1]],
      budget |-> [k \in Kinds |-> IF k = "Expire" THEN 1 ELSE 0]]}
=============================================================================

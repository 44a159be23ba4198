-------------------------- MODULE MCActorLifecycle --------------------------
(* ActorLifecycle for TLC: the decisions and faults its runs combine. *)
EXTENDS ActorLifecycle

Budget(twice, once) ==
    [k \in Kinds |-> IF k \in twice THEN 2 ELSE IF k \in once THEN 1 ELSE 0]

\* Each way to end, with one or two of the faults.
Endings ==
    { Budget({}, {"Stop", "Evict"}),
      Budget({}, {"Remove", "Restart"}),
      Budget({}, {"Stop", "Remove", "Foreground"}),
      Budget({}, {"Remove", "NodeLost"}),
      Budget({"Suspend"}, {"Stop"}) }

\* An actor suspended, resumed and stopped.
Resumed == {Budget({"Suspend"}, {"Stop"})}
=============================================================================

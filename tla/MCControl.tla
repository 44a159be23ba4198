----------------------------- MODULE MCControl ------------------------------
(* Control for TLC: what may happen in each part. *)
EXTENDS Control

Budget(kinds, twice, once) ==
    [k \in kinds |-> IF k \in twice THEN 2 ELSE IF k \in once THEN 1 ELSE 0]

\* A stopped or removed actor, replaced, evicted, on a lost node, suspended and resumed,
\* with a restarted operator, or losing its StatefulSet to the garbage collector.
Troubles ==
    LET B(twice, once) == Budget({"Stop", "Remove", "Suspend", "Policy", "Restart", "Evict",
                                  "NodeLost", "Foreground"}, twice, once) IN
    { B({"Suspend"}, {"Stop", "Evict"}), B({}, {"Suspend", "Remove", "Restart"}),
      B({}, {"Stop", "Policy", "NodeLost"}), B({}, {"Stop", "Policy", "Restart"}),
      B({}, {"Remove", "Evict", "NodeLost"}), B({}, {"Stop", "Remove", "Foreground"}) }

\* Control processes of a network that is deleted, of a participant that is removed, and
\* through a new template, a lost node, an eviction and a Deployment deleted by hand.
Disposals ==
    {Budget({"Delete", "Remove", "Select", "Template", "NodeLost", "Evict", "Drop"}, {}, once) :
        once \in {{"Delete"}, {"Remove", "NodeLost"}, {"Remove", "Evict"}, {"Remove", "Select"},
                  {"Drop"}, {"Template"}}}

ScheduleKinds == {"Pause", "Stop", "Policy", "Producer", "Delete", "Unready", "Crash", "Age"}

\* The scheduler through restarts, a stop, a pause, old observations, an unready node and
\* another producer: two nodes, two gates and the baseline after them.
Schedules ==
    {Budget(ScheduleKinds, {}, {k}) : k \in {"Crash", "Stop", "Pause", "Age", "Producer", "Unready"}}

TwoGates == <<1, 2>>

\* One node and one override that is deleted, stopped, or meets an edited schedule.
Overrides == {Budget(ScheduleKinds, {}, {k}) : k \in {"Delete", "Stop", "Policy"}}

OneGate == <<1>>

Request(kind, size) == [kind |-> kind, size |-> size]

\* Finite actions through restarts, peers, expiry, deletion, lost calls, a pause, a stop, a
\* replaced actor and a disabled profile: a reorganization or a generation alone, or a
\* generation that waits behind a reorganization.
Requested ==
    LET Case(s, once) == [spec |-> s, budget |-> Budget({"Crash", "Lose", "Peer", "Restart", "Delete",
                                                         "Expire", "Pause", "Stop", "Disable"}, {}, once)]
        Two == <<Request("Reorganization", 1), Request("Generation", 1)>>
    IN  {Case(<<Request("Reorganization", 1), None>>, once) :
            once \in {{"Crash", "Peer"}, {"Delete"}, {"Crash", "Expire"}, {"Lose", "Stop"},
                      {"Lose", "Pause"}, {"Restart", "Disable"}}}
        \cup {Case(<<Request("Generation", 2), None>>, once) :
            once \in {{"Crash", "Delete", "Expire"}, {"Lose", "Pause", "Stop"}, {"Restart", "Disable"}}}
        \cup {Case(Two, {})}
=============================================================================

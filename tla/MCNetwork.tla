----------------------------- MODULE MCNetwork ------------------------------
(* Network for TLC: what may happen in each part. *)
EXTENDS Network, TLC

Budget(kinds, twice, once) ==
    [k \in kinds |-> IF k \in twice THEN 2 ELSE IF k \in once THEN 1 ELSE 0]

\* A worker that is stopped, removed, deleted, evicted, paused, whose process or node fails,
\* whose writes fail, or whose shutdown lasts too long.
Ends ==
    LET B(once) == Budget({"Pause", "Stop", "Remove", "Delete", "Evict", "Crash", "NodeLost",
                           "Late", "RoleFails", "WriteFails"}, {}, once) IN
    {B({"Stop", k}) : k \in {"WriteFails", "Late", "NodeLost"}}
    \cup {B({k}) : k \in {"Remove", "Delete", "Evict", "Crash", "RoleFails", "Pause"}}

\* Unanswered reads while the answer the worker is missing changes: up to four in a row, which
\* is an outage that lasts through a whole pass, or up to two.
Outages ==
    LET B(outage, twice, once) ==
            [Budget({"Pause", "Policy", "Source", "Inputs", "Remove", "Outage", "Deny"}, twice, once)
                EXCEPT !["Outage"] = outage] IN
    { B(4, {"Pause"}, {}), B(4, {"Inputs"}, {}), B(4, {}, {"Remove"}),
      B(2, {"Policy"}, {}), B(2, {"Source"}, {}), B(2, {}, {"Deny"}) }

Stacking(initial, shared, twice, once) ==
    [k \in {"initial"} |-> initial] @@ [k \in {"shared"} |-> shared]
        @@ Budget({"Pause", "Amount", "Drop", "Other", "Drain", "Miss"}, twice, once)

\* A stacker of the initial cohort that loses answers, shares its account with its
\* administrator, is paused, has a transaction dropped or another's ahead of its own, and
\* one that joins later and is given another amount.
Cohort ==
    { Stacking(TRUE, TRUE, {}, {"Drain", "Miss"}),
      Stacking(FALSE, FALSE, {}, {"Amount"}), Stacking(TRUE, FALSE, {}, {"Pause", "Drop"}),
      Stacking(TRUE, FALSE, {}, {"Other"}) }

\* A deployer of two sources that loses answers and a transaction, or is not alone.
Deployments ==
    LET B(twice, once) == Budget({"Pause", "Drop", "Other", "Drain", "Miss"}, twice, once) IN
    { B({"Miss"}, {"Drop", "Drain"}), B({}, {"Pause", "Other"}) }

PinnedSources == <<"registry-source", "withdrawal-source">>

\* Six gates with their ceilings and cycles, from the first one, or from a later one with the
\* reports and faults that may hold it; then the pauses, stops and losses of a network that
\* has left its first gates behind.
Lives ==
    LET B(f) == f @@ [k \in {"Pause", "Stop", "Delete", "Regress", "Exceed", "Rebind", "Roll", "Lost",
                             "Late", "Block", "Report", "Tick", "From"} |-> 0] IN
    { B("Exceed" :> 1),
      B("From" :> 2 @@ "Report" :> 2 @@ "Regress" :> 1 @@ "Tick" :> 1),
      B("From" :> 3 @@ "Report" :> 2 @@ "Regress" :> 1 @@ "Tick" :> 1),
      B("From" :> 5 @@ "Report" :> 3 @@ "Regress" :> 1),
      B("From" :> 1 @@ "Report" :> 2 @@ "Exceed" :> 2 @@ "Tick" :> 1),
      B("From" :> 4 @@ "Report" :> 1 @@ "Block" :> 1 @@ "Tick" :> 2),
      B("From" :> 1 @@ "Report" :> 2 @@ "Rebind" :> 1),
      B("From" :> 3 @@ "Pause" :> 2 @@ "Block" :> 1 @@ "Report" :> 1),
      B("From" :> 3 @@ "Stop" :> 1 @@ "Late" :> 1), B("From" :> 3 @@ "Stop" :> 1 @@ "Roll" :> 1),
      B("From" :> 3 @@ "Delete" :> 1 @@ "Lost" :> 1) }

Heights == <<1, 2, 3, 4, 5, 6>>

Cycles == <<0, 1, 1, 0, 2, 2>>

\* Two miners that are rebound, lag, diverge or turn unready, and a network that is paused,
\* suspended, stopped, failed or under a timing override while its health is judged.
Conditions ==
    LET B(f) == f @@ [k \in {"Pause", "Control", "Suspend", "Stop", "Fail", "Override", "Rebind", "Unready",
                             "Diverge", "Block", "Transfer", "Report", "Tick", "Started"} |-> 0] IN
    { B("Report" :> 2 @@ "Tick" :> 1 @@ "Started" :> 1 @@ "Rebind" :> 1),
      B("Report" :> 2 @@ "Block" :> 1 @@ "Started" :> 1 @@ "Rebind" :> 1),
      B("Report" :> 1 @@ "Tick" :> 1 @@ "Started" :> 1 @@ "Control" :> 1 @@ "Override" :> 1) }
    \cup {B("Report" :> 2 @@ "Block" :> 1 @@ "Transfer" :> 1 @@ k :> 1) : k \in {"Stop", "Fail"}}
    \cup {B("Report" :> 1 @@ "Started" :> 1 @@ "Diverge" :> 1 @@ "Pause" :> 1),
          B("Report" :> 1 @@ "Started" :> 1 @@ "Unready" :> 1 @@ "Suspend" :> 1)}

\* The first participant depends on the second, whose captured policy the first gate releases.
Dependencies == <<{2}, {}>>

Releases == <<2, 1>>

\* Two participants, the first of which depends on the second: edited, removed and added
\* again, lost by hand, paused, stopped, deleted, and with restarts of the operator.
Changes ==
    LET B(f) == f @@ [k \in {"Define", "Remove", "Add", "Pause", "Stop", "Control", "Delete", "Lose",
                             "Crash", "Gate"} |-> 0] IN
    { B("Define" :> 1 @@ "Crash" :> 1), B("Gate" :> 1 @@ "Pause" :> 1),
      B("Define" :> 1 @@ "Gate" :> 2), B("Control" :> 1),
      B("Remove" :> 1 @@ "Add" :> 1 @@ "Crash" :> 1), B("Lose" :> 1 @@ "Crash" :> 1),
      B("Delete" :> 1 @@ "Stop" :> 1) }
=============================================================================

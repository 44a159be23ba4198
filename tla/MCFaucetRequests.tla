-------------------------- MODULE MCFaucetRequests --------------------------
(* FaucetRequests for TLC: the situations its runs look at. *)
EXTENDS FaucetRequests

Calm == [requests |-> {1}, brief |-> {}, capacity |-> 1, operation |-> "Running",
         edits |-> {}, failures |-> {}, deletes |-> 0, foreign |-> 0, late |-> 0]

\* One request whose submission fails in every way, on an account with another writer.
Outcome == [Calm EXCEPT !.brief = {1}, !.edits = {"Pause", "Crash"},
                        !.failures = {"Lost", "Refused", "Native"}, !.foreign = 1, !.late = 1]

\* The same request deleted, on a network that may be stopped.
WithdrawnRequest == [Calm EXCEPT !.brief = {1}, !.edits = {"Stop", "Crash"},
                          !.failures = {"Lost", "Refused", "Native"}, !.deletes = 1, !.late = 1]

\* More requests than places, made while the network is paused.
Crowd == [Calm EXCEPT !.requests = {1, 2, 3}, !.brief = {1, 2}, !.capacity = 2,
                      !.operation = "Paused", !.late = 1]

\* Two requests that follow each other on one account, with another writer on it.
Account == [Calm EXCEPT !.requests = {1, 2}, !.edits = {"RestartController"},
                        !.failures = {"Refused", "Native"}, !.foreign = 1]

Situations == {Outcome, WithdrawnRequest, Crowd, Account}

\* Two requests deleted while the worker holds them.
Orphans == {[Calm EXCEPT !.requests = {1, 2}, !.brief = {2}, !.capacity = 2, !.deletes = 2]}
=============================================================================

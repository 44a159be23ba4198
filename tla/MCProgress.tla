----------------------------- MODULE MCProgress -----------------------------
(* What must eventually happen, for TLC: an actor that is stopped or removed *)
(* among the decisions and faults of MCActorLifecycle, and a faucet request  *)
(* under failures that pass.  The scene says which of the two a behaviour is *)
(* about; the other one rests.                                               *)
EXTENDS MCActorLifecycle

CONSTANT None

VARIABLES scene,
    obj, late, expired, operation, shutdown, grant, uncertain, restarted, wpc, snap, cur, todo, after,
    entries, notices, rescan, last, failed, pend, next, report, pub, acct, wire, paid, aborted,
    sends, env

\* One request, one place; every failure passes; the request may be deleted.
Patience == {[requests |-> {1}, brief |-> {1}, capacity |-> 1, operation |-> "Running",
              edits |-> {}, failures |-> {"Lost", "Refused", "Native"}, deletes |-> 1,
              foreign |-> 0, late |-> 0]}

Faucet == INSTANCE FaucetRequests WITH Environments <- Patience, root <- operation

faucetVars == <<obj, late, expired, operation, shutdown, grant, uncertain, restarted, wpc, snap, cur,
                todo, after, entries, notices, rescan, last, failed, pend, next, report, pub, acct,
                wire, paid, aborted, sends>>

all == <<scene, vars, faucetVars, env>>

MCInit == Init /\ Faucet!Init /\ \/ scene = "Actor"
                                 \/ scene = "Faucet" /\ budget = CHOOSE b \in Budgets : TRUE

ActorNext == scene = "Actor" /\ Next /\ UNCHANGED <<scene, faucetVars, env>>

FaucetNext == scene = "Faucet" /\ Faucet!Next /\ UNCHANGED <<scene, vars>>

\* The fairness of ActorLifecycle and of FaucetRequests, each in its scene.
MCFairness ==
    /\ WF_vars(scene = "Actor" /\ Reconcile) /\ WF_vars(scene = "Actor" /\ Drain)
    /\ WF_vars(scene = "Actor" /\ (SyncSet \/ DeletePod))
    /\ WF_vars(scene = "Actor" /\ (EndProcess \/ ReportTerminated \/ PodVanishes))
    /\ WF_faucetVars(scene = "Faucet" /\ Faucet!Step)
    /\ SF_faucetVars(scene = "Faucet" /\ Faucet!Begin /\ pend' # pend)
    /\ SF_faucetVars(scene = "Faucet" /\ Faucet!flush(TRUE))
    /\ SF_faucetVars(scene = "Faucet" /\ Faucet!flushDeleted)
    /\ SF_faucetVars(scene = "Faucet" /\ Faucet!publish(TRUE, TRUE))
    /\ WF_faucetVars(scene = "Faucet" /\ (Faucet!WriteGrant \/ Faucet!RefuseGrant))
    /\ SF_faucetVars(scene = "Faucet" /\ Faucet!Reconcile(1))

MCSpec == MCInit /\ [][ActorNext \/ FaucetNext]_all /\ MCFairness

\* A worker that goes on gets to its queue again and again (faucet_queue.go).
FaucetServed == scene = "Faucet" => Faucet!QueueServed

\* An included transfer is reported to its request, unless that is gone (faucet.go).
FaucetReported == scene = "Faucet" => Faucet!InclusionReported

\* A stop or a removal is completed by shutdown, unless evidence was lost for good.
ActorStops == scene = "Actor" => StopCompletes
=============================================================================

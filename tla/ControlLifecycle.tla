-------------------------- MODULE ControlLifecycle --------------------------
(***************************************************************************)
(* The control process of one Bitcoin node: WorkloadReconciler of          *)
(* operators/network/internal/bitcoincontrol owns a Deployment with a      *)
(* Recreate strategy, keeps a finalizer on its Pods and infers from the    *)
(* Deployment, its ReplicaSets and its Pods, read one after the other,     *)
(* whether any control process runs or can still start.  CheckDrained      *)
(* trusts the answer (status.bitcoinControl.terminated) when the network   *)
(* is deleted, and so does the finalizer of the participant.               *)
(*                                                                         *)
(* BitcoinWorker takes this answer as its action ConfirmTermination.       *)
(* A write that carries a resourceVersion succeeds when the object is as   *)
(* it was read; Abort stands for the conflict, for any failed call and for *)
(* a restart of the operator.                                              *)
(***************************************************************************)
EXTENDS Naturals, FiniteSets

CONSTANTS MaxPods,   \* bound: Pods ever created
          MaxSets,   \* bound: ReplicaSets ever created
          MaxEpochs, \* bound: Deployments ever created
          Budgets    \* what may happen: one of these in each behaviour

\* Decisions of users and faults, each bounded by a budget.
Kinds == {"Delete", "Remove", "Select", "Template", "NodeLost", "Evict", "Drop"}

\* What the bounds are.
Bounds == /\ MaxPods \in Nat /\ MaxSets \in Nat /\ MaxEpochs \in Nat
          /\ Budgets \subseteq [Kinds -> Nat]

Pods == 1..MaxPods
Sets == 1..MaxSets
Epochs == 1..MaxEpochs

VARIABLES
    root,     \* the StacksNetwork: generation, selection, worker template, deletion
    part,     \* the StacksNetworkParticipant with its status.bitcoinControl
    dep,      \* the Deployment; ep 0 when there is none
    sets,     \* ReplicaSets, each of one Deployment and template; ep 0 when there is none
    pods,     \* Pods; set 0 when there is none; proc is known to the kubelet only
    op,       \* the reconciliation: program counter and what it has read
    used,     \* UIDs handed out so far
    recorded, \* history: Pods whose termination the status has recorded
    budget    \* how often each kind of decision or fault may still happen

vars == <<root, part, dep, sets, pods, op, used, recorded, budget>>

-----------------------------------------------------------------------------
(* State *)

Root == [gen : Nat, selected : BOOLEAN, tmpl : Nat, deleting : BOOLEAN]

\* BitcoinControlPodStatus
Known == [uid : Pods, ep : Epochs, term : BOOLEAN]

\* BitcoinControlRuntimeStatus
Status == [ep : Epochs \cup {0}, pods : SUBSET Known, term : BOOLEAN, gen : Nat]

\* fin: ControlParticipantFinalizer
Participant == [fin : BOOLEAN, deleting : BOOLEAN, st : Status]

\* view: the replica count the controller acts on; seen: status.observedGeneration is
\* current; count: status.replicas.
Workload == [ep : Epochs \cup {0}, want : {0, 1}, view : {0, 1}, tmpl : Nat,
             seen : BOOLEAN, count : Nat]

Pod == [set : Sets \cup {0}, deleting : BOOLEAN, fin : BOOLEAN, scheduled : BOOLEAN,
        proc : {"new", "live", "dead"}, evidence : {"none", "terminal", "unknown"}]

NoWorkload == [ep |-> 0, want |-> 0, view |-> 0, tmpl |-> 0, seen |-> FALSE, count |-> 0]
NoPod == [set |-> 0, deleting |-> FALSE, fin |-> FALSE, scheduled |-> FALSE,
          proc |-> "new", evidence |-> "none"]
NoStatus == [ep |-> 0, pods |-> {}, term |-> FALSE, gen |-> 0]

Steps == {"idle", "root", "adopt", "deployment", "sets", "pods", "finish", "release",
          "unfinal", "stop", "activate"}

\* What a reconciliation has read and what it is going to write.
Operation == [pc : Steps, root : Root, part : Participant, dep : {"absent", "quiet", "busy"},
              quiet : BOOLEAN, none : BOOLEAN, st : Status, rel : SUBSET Pods, ok : BOOLEAN,
              last : BOOLEAN]

NewRoot == [gen |-> 1, selected |-> TRUE, tmpl |-> 0, deleting |-> FALSE]
NewParticipant == [fin |-> FALSE, deleting |-> FALSE, st |-> NoStatus]

Idle == [pc |-> "idle", root |-> NewRoot, part |-> NewParticipant, dep |-> "absent",
         quiet |-> FALSE, none |-> FALSE, st |-> NoStatus, rel |-> {}, ok |-> TRUE,
         last |-> FALSE]

LiveSets == {s \in Sets : sets[s].ep # 0}
LivePods == {p \in Pods : pods[p].set # 0}

\* The values every variable may take.
TypeOK ==
    /\ root \in Root /\ part \in Participant /\ dep \in Workload
    /\ sets \in [Sets -> Workload] /\ pods \in [Pods -> Pod]
    /\ op \in Operation
    /\ used \in [ep : 0..MaxEpochs, set : 0..MaxSets, pod : 0..MaxPods]
    /\ recorded \subseteq Pods
    /\ budget \in [Kinds -> Nat]

Init ==
    /\ root = NewRoot /\ part = NewParticipant /\ dep = NoWorkload
    /\ sets = [s \in Sets |-> NoWorkload]
    /\ pods = [p \in Pods |-> NoPod]
    /\ op = Idle
    /\ used = [ep |-> 0, set |-> 0, pod |-> 0]
    /\ recorded = {}
    /\ budget \in Budgets

-----------------------------------------------------------------------------
(* WorkloadReconciler.Reconcile and ReconcileControlLifecycle *)

Goto(pc) == op' = [op EXCEPT !.pc = pc]
Return == op' = Idle
world == <<root, dep, sets, pods, used, budget>>

\* stopReason(r, p) is not empty: deletion, stop or failure of the root, or removal.
Stopping(r, p) == r.deleting \/ ~r.selected \/ p.deleting

ReadParticipant ==
    /\ op.pc = "idle"
    /\ op' = [Idle EXCEPT !.pc = "root", !.part = part]
    /\ UNCHANGED <<world, part, recorded>>

ReadRoot ==
    /\ op.pc = "root"
    /\ op' = [op EXCEPT !.root = root, !.pc = IF op.part.deleting \/ op.part.fin
                                              THEN "deployment" ELSE "adopt"]
    /\ UNCHANGED <<world, part, recorded>>

Adopt ==
    /\ op.pc = "adopt" /\ part = op.part
    /\ part' = [part EXCEPT !.fin = TRUE]
    /\ op' = [op EXCEPT !.part = part', !.pc = "deployment"]
    /\ UNCHANGED <<world, recorded>>

\* Faulty variant: counts reported for an earlier generation are believed.
replicaEmpty(w) == w.want = 0 /\ w.count = 0

\* replicaQuiesced, and the same of the Deployment: no replica is wanted or left.
replicaQuiesced(w) == w.want = 0 /\ w.seen /\ w.count = 0

\* The status starts from the last one, not terminated, with the Deployment found.
ReadDeployment ==
    /\ op.pc = "deployment"
    /\ op' = [op EXCEPT
         !.dep = IF dep.ep = 0 THEN "absent" ELSE IF replicaQuiesced(dep) THEN "quiet" ELSE "busy",
         !.st = [op.part.st EXCEPT !.gen = op.root.gen, !.term = FALSE,
                                   !.ep = IF dep.ep = 0 THEN @ ELSE dep.ep],
         !.pc = "sets"]
    /\ UNCHANGED <<world, part, recorded>>

\* Deployments the status or the API server still vouch for.
knownEpochs == ({op.st.ep} \cup {k.ep : k \in op.part.st.pods}) \ {0}

\* finish(reason, err): the status is written, the reconciliation ends.
Fail == op' = [op EXCEPT !.pc = "finish", !.ok = FALSE, !.dep = "absent", !.quiet = FALSE,
                         !.none = FALSE]

ListSets ==
    /\ op.pc = "sets"
    /\ IF \A s \in LiveSets : sets[s].ep \in knownEpochs
       THEN op' = [op EXCEPT !.quiet = \A s \in LiveSets : replicaQuiesced(sets[s]),
                             !.none = LiveSets = {}, !.pc = "pods"]
       ELSE Fail
    /\ UNCHANGED <<world, part, recorded>>

controlPodTerminated(p) ==
    \/ pods[p].deleting /\ ~pods[p].scheduled /\ pods[p].evidence = "none"
    \/ pods[p].evidence = "terminal"

\* Missing kubelet evidence, as of a lost node, is not the end of a process.
controlPodUnknown(p) == pods[p].evidence = "unknown"

terminal(p) == ~controlPodUnknown(p) /\ controlPodTerminated(p)

pinned(p) == \E k \in op.part.st.pods : k.uid = p

knownOf(p) == CHOOSE k \in op.part.st.pods : k.uid = p

\* A Pod outside its known chain of owners, or evidence that was taken back.
unaccountable(p) ==
    \/ /\ sets[pods[p].set].ep = 0
       /\ ~(pinned(p) /\ controlPodTerminated(p))
    \/ /\ sets[pods[p].set].ep # 0
       /\ \/ sets[pods[p].set].ep \notin knownEpochs
          \/ pinned(p) /\ sets[pods[p].set].ep # knownOf(p).ep
    \/ pinned(p) /\ knownOf(p).term /\ ~terminal(p)

observedPod(p) ==
    [uid |-> p, term |-> terminal(p),
     ep |-> IF sets[pods[p].set].ep = 0 THEN knownOf(p).ep ELSE sets[pods[p].set].ep]

\* Pods the status knows as running and the API server no longer has.
missing == {k \in op.part.st.pods : k.uid \notin LivePods /\ ~k.term}

quiescedDeployment ==
    \/ op.dep = "quiet"
    \/ /\ op.dep = "absent"
       /\ op.st.ep = 0 \/ op.part.st.term \/ (op.root.deleting /\ op.none)

\* The Pods' own ReplicaSets are read again with them.
quiescedSets == op.quiet /\ \A p \in LivePods : sets[pods[p].set].ep # 0
                                => replicaQuiesced(sets[pods[p].set])

ListPods ==
    /\ op.pc = "pods"
    /\ IF \E p \in LivePods : unaccountable(p)
       THEN Fail
       ELSE op' = [op EXCEPT
              !.st.pods = {observedPod(p) : p \in LivePods} \cup missing,
              !.st.term = /\ missing = {}
                          /\ \A p \in LivePods : terminal(p)
                          /\ quiescedDeployment /\ quiescedSets,
              !.rel = {p \in LivePods : terminal(p) /\ pods[p].fin},
              !.dep = "absent", !.quiet = FALSE, !.none = FALSE, !.pc = "finish"]
    /\ UNCHANGED <<world, part, recorded>>

\* A read fails: the status says that termination is unknown.
ReadFails ==
    /\ op.pc \in {"sets", "pods"}
    /\ Fail
    /\ UNCHANGED <<world, part, recorded>>

Finish ==
    /\ op.pc = "finish" /\ part = op.part
    /\ part' = [part EXCEPT !.st = op.st]
    /\ recorded' = recorded \cup {k.uid : k \in {j \in op.st.pods : j.term}}
    /\ op' = IF op.ok THEN [op EXCEPT !.part = part', !.pc = "release"] ELSE Idle
    /\ UNCHANGED world

\* The finalizer of a terminal Pod goes after the status was written.
Release(p) ==
    /\ op.pc = "release" /\ p \in op.rel /\ pods[p].fin
    /\ pods' = [pods EXCEPT ![p].fin = FALSE]
    /\ op' = [op EXCEPT !.rel = @ \ {p}]
    /\ UNCHANGED <<root, part, dep, sets, used, recorded, budget>>

\* The end of a pass over the lifecycle, and what Reconcile does with it.
Released ==
    /\ op.pc = "release" /\ op.rel = {}
    /\ IF op.part.st.term /\ op.part.deleting /\ op.part.fin
       THEN /\ part = op.part
            /\ part' = [part EXCEPT !.fin = FALSE]
       ELSE UNCHANGED part
    /\ op' = IF op.last THEN Idle
             ELSE [op EXCEPT !.part = IF part' = part THEN @ ELSE part',
                             !.pc = IF Stopping(op.root, op.part) THEN "stop" ELSE "activate"]
    /\ UNCHANGED <<world, recorded>>

\* The last pass of Reconcile, with the root read at its beginning.
Again(o) == [o EXCEPT !.last = TRUE,
                      !.pc = IF o.part.deleting \/ o.part.fin THEN "deployment" ELSE "adopt"]

\* CheckDrained: the record of the worker (BitcoinWorker) is one answer or the other.
CheckDrained(ready) ==
    /\ Stopping(root, op.part)
    /\ \/ root.deleting /\ part.st.term /\ part.st.gen = root.gen
       \/ ready

\* stopControlWorkload
StopControlWorkload(ready) ==
    /\ op.pc = "stop"
    /\ IF dep.ep # 0 /\ dep.want = 0
       THEN op' = Again(op) /\ UNCHANGED dep
       ELSE /\ Return
            /\ IF dep.ep # 0 /\ CheckDrained(ready)
               THEN dep' = [dep EXCEPT !.want = 0, !.seen = FALSE]
               ELSE UNCHANGED dep
    /\ UNCHANGED <<root, part, sets, pods, used, recorded, budget>>

\* The record, the initialization, the cohort or the credentials are not there yet.
NotEnrolled ==
    /\ op.pc = "activate"
    /\ Return
    /\ UNCHANGED <<world, part, recorded>>

\* The objects of workerResources are created, or brought to what they should be.
Activate ==
    /\ op.pc = "activate"
    /\ op' = Again(op)
    /\ IF dep.ep = 0
       THEN /\ used.ep < MaxEpochs
            /\ used' = [used EXCEPT !.ep = @ + 1]
            /\ dep' = [NoWorkload EXCEPT !.ep = used.ep + 1, !.want = 1, !.tmpl = root.tmpl]
       ELSE /\ dep' = [dep EXCEPT !.want = 1, !.tmpl = root.tmpl,
                                  !.seen = @ /\ dep.want = 1 /\ dep.tmpl = root.tmpl]
            /\ UNCHANGED used
    /\ UNCHANGED <<root, part, sets, pods, recorded, budget>>

\* A conflict, a failed call, or a restart of the operator.
Abort ==
    /\ op.pc # "idle"
    /\ Return
    /\ UNCHANGED <<world, part, recorded>>

Reconcile ==
    \/ ReadParticipant \/ ReadRoot \/ Adopt \/ ReadDeployment \/ ListSets \/ ListPods
    \/ ReadFails \/ Finish \/ (\E p \in Pods : Release(p)) \/ Released
    \/ (\E ready \in BOOLEAN : StopControlWorkload(ready))
    \/ NotEnrolled \/ Activate \/ Abort

-----------------------------------------------------------------------------
(* The Deployment and ReplicaSet controllers, which act on what they have    *)
(* observed, the garbage collector and the kubelet.                          *)

mine == <<part, op, recorded>>

ObserveDeployment ==
    /\ dep.ep # 0 /\ dep.view # dep.want
    /\ dep' = [dep EXCEPT !.view = dep.want]
    /\ UNCHANGED <<mine, root, sets, pods, used, budget>>

\* A ReplicaSet is scaled down, by a stopped Deployment or for another template.
ScaleDown(s) ==
    /\ dep.ep # 0 /\ sets[s].ep = dep.ep /\ sets[s].want = 1
    /\ dep.view = 0 \/ sets[s].tmpl # dep.tmpl
    /\ sets' = [sets EXCEPT ![s].want = 0, ![s].seen = FALSE]
    /\ UNCHANGED <<mine, root, dep, pods, used, budget>>

\* Recreate: the ReplicaSet of the current template once no Pod of another one runs.
ScaleUp(s) ==
    /\ dep.ep # 0 /\ dep.view = 1
    /\ \A t \in LiveSets : sets[t].ep = dep.ep /\ sets[t].tmpl # dep.tmpl =>
          /\ sets[t].want = 0
          /\ \A p \in LivePods : pods[p].set = t => pods[p].evidence = "terminal"
    /\ \/ /\ sets[s].ep = dep.ep /\ sets[s].tmpl = dep.tmpl /\ sets[s].want = 0
          /\ sets' = [sets EXCEPT ![s].want = 1, ![s].seen = FALSE]
          /\ UNCHANGED used
       \/ /\ s = used.set + 1
          /\ \A t \in LiveSets : ~(sets[t].ep = dep.ep /\ sets[t].tmpl = dep.tmpl)
          /\ sets' = [sets EXCEPT ![s] = [NoWorkload EXCEPT !.ep = dep.ep, !.want = 1,
                                                            !.tmpl = dep.tmpl]]
          /\ used' = [used EXCEPT !.set = s]
    /\ UNCHANGED <<mine, root, dep, pods, budget>>

\* Every ReplicaSet is as the observed Deployment wants it.
Settled ==
    \A s \in LiveSets : sets[s].ep = dep.ep =>
        sets[s].want = IF sets[s].tmpl = dep.tmpl THEN dep.view ELSE 0

ReportDeployment ==
    LET count == Cardinality({s \in LiveSets : sets[s].ep = dep.ep /\ sets[s].count > 0}) IN
    /\ dep.ep # 0 /\ dep.view = dep.want /\ Settled
    /\ ~dep.seen \/ dep.count # count
    /\ dep' = [dep EXCEPT !.seen = TRUE, !.count = count]
    /\ UNCHANGED <<mine, root, sets, pods, used, budget>>

ObserveSet(s) ==
    /\ sets[s].ep # 0 /\ sets[s].view # sets[s].want
    /\ sets' = [sets EXCEPT ![s].view = sets[s].want]
    /\ UNCHANGED <<mine, root, dep, pods, used, budget>>

\* Pods a ReplicaSet counts: not being deleted and not ended.
Active(s) == {p \in LivePods : pods[p].set = s /\ ~pods[p].deleting
                                /\ pods[p].evidence # "terminal"}

CreatePod(s, p) ==
    /\ sets[s].ep # 0 /\ sets[s].view = 1 /\ Active(s) = {} /\ p = used.pod + 1
    /\ pods' = [pods EXCEPT ![p] = [NoPod EXCEPT !.set = s, !.fin = TRUE]]
    /\ used' = [used EXCEPT !.pod = p]
    /\ UNCHANGED <<mine, root, dep, sets, budget>>

ReportSet(s) ==
    /\ sets[s].ep # 0 /\ sets[s].view = sets[s].want
    /\ Cardinality(Active(s)) = sets[s].want
    /\ ~sets[s].seen \/ sets[s].count # Cardinality(Active(s))
    /\ sets' = [sets EXCEPT ![s].seen = TRUE, ![s].count = Cardinality(Active(s))]
    /\ UNCHANGED <<mine, root, dep, pods, used, budget>>

\* By its ReplicaSet, or by the collector after the ReplicaSet went.
DeletePod(p) ==
    /\ p \in LivePods /\ ~pods[p].deleting
    /\ sets[pods[p].set].view = 0
    /\ pods' = [pods EXCEPT ![p].deleting = TRUE]
    /\ UNCHANGED <<mine, root, dep, sets, used, budget>>

Take(k) == budget[k] > 0 /\ budget' = [budget EXCEPT ![k] = @ - 1]

\* By a user, or in the foreground deletion of the network.
DeleteDeployment ==
    /\ dep.ep # 0
    /\ \/ part.deleting /\ (root.deleting \/ ~part.fin) /\ UNCHANGED budget
       \/ Take("Drop")
    /\ dep' = NoWorkload
    /\ UNCHANGED <<mine, root, sets, pods, used>>

CollectSet(s) ==
    /\ sets[s].ep # 0 /\ sets[s].ep # dep.ep
    /\ sets' = [sets EXCEPT ![s] = NoWorkload]
    /\ UNCHANGED <<mine, root, dep, pods, used, budget>>

SetPod(p, q) == pods' = [pods EXCEPT ![p] = q] /\ UNCHANGED <<mine, root, dep, sets, used>>

StartProcess(p) ==
    /\ p \in LivePods /\ pods[p].proc = "new" /\ ~pods[p].deleting
    /\ SetPod(p, [pods[p] EXCEPT !.scheduled = TRUE, !.proc = "live"])
    /\ UNCHANGED budget

\* The kubelet ends the process of a deleted or evicted Pod, and reports it.
EndProcess(p) ==
    /\ p \in LivePods /\ pods[p].proc = "live"
    /\ \/ pods[p].deleting /\ UNCHANGED budget
       \/ Take("Evict")
    /\ SetPod(p, [pods[p] EXCEPT !.proc = "dead"])

ReportProcess(p) ==
    /\ p \in LivePods /\ pods[p].proc = "dead" /\ pods[p].evidence = "none"
    /\ SetPod(p, [pods[p] EXCEPT !.evidence = "terminal"])
    /\ UNCHANGED budget

\* The node does not answer; the process may still run.
LoseNode(p) ==
    /\ p \in LivePods /\ pods[p].scheduled /\ pods[p].evidence = "none"
    /\ Take("NodeLost")
    /\ SetPod(p, [pods[p] EXCEPT !.evidence = "unknown"])

\* A deleted Pod without finalizers goes once its process is gone.
Vanish(p) ==
    /\ p \in LivePods /\ pods[p].deleting /\ ~pods[p].fin /\ pods[p].proc # "live"
    /\ SetPod(p, NoPod)
    /\ UNCHANGED budget

Cluster ==
    \/ ObserveDeployment \/ ReportDeployment \/ DeleteDeployment
    \/ \E s \in Sets : \/ ScaleDown(s) \/ ScaleUp(s) \/ ObserveSet(s) \/ ReportSet(s)
                       \/ CollectSet(s) \/ (\E p \in Pods : CreatePod(s, p))
    \/ \E p \in Pods : \/ DeletePod(p) \/ StartProcess(p) \/ EndProcess(p)
                       \/ ReportProcess(p) \/ LoseNode(p) \/ Vanish(p)

-----------------------------------------------------------------------------
(* Users *)

objects == <<dep, sets, pods, used, op, recorded>>

DeleteNetwork ==
    /\ ~root.deleting /\ Take("Delete")
    /\ root' = [root EXCEPT !.deleting = TRUE, !.gen = @ + 1]
    /\ UNCHANGED <<objects, part>>

RemoveParticipant ==
    /\ ~part.deleting
    /\ \/ root.deleting /\ UNCHANGED budget
       \/ Take("Remove")
    /\ part' = [part EXCEPT !.deleting = TRUE]
    /\ UNCHANGED <<objects, root>>

SelectParticipant ==
    /\ ~root.deleting /\ Take("Select")
    /\ root' = [root EXCEPT !.selected = ~@, !.gen = @ + 1]
    /\ UNCHANGED <<objects, part>>

ChangeTemplate ==
    /\ Take("Template")
    /\ root' = [root EXCEPT !.tmpl = @ + 1]
    /\ UNCHANGED <<objects, part>>

Users == DeleteNetwork \/ RemoveParticipant \/ SelectParticipant \/ ChangeTemplate

Next == Reconcile \/ Cluster \/ Users

Spec == Init /\ [][Next]_vars

-----------------------------------------------------------------------------
(* Properties *)

Running == {p \in Pods : pods[p].proc = "live"}

\* What CheckDrained accepts in place of an acknowledgement when the network is deleted
\* is the truth: no control process runs.  As it holds in every state, none starts later.
TerminationTrue ==
    root.deleting /\ part.st.term /\ part.st.gen = root.gen => Running = {}

\* A participant that lost the finalizer of its control processes has outlived them, and
\* a Pod whose process ran goes only after its end was recorded.
OwnerOutlivesProcess ==
    /\ part.deleting /\ ~part.fin => Running = {}
    /\ \A p \in LivePods : pods[p].proc # "new" /\ ~pods[p].fin => p \in recorded
=============================================================================

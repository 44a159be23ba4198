--------------------------- MODULE ActorLifecycle ---------------------------
(***************************************************************************)
(* The life of one actor process (bitcoind, stacks-node, stacks-signer):   *)
(* the reconciler of operators/network/internal/participantworkload, which *)
(* owns the actor's StatefulSet, keeps a finalizer on its Pod so that the  *)
(* kubelet's evidence of termination cannot be lost, records that evidence *)
(* in status.runtime of the participant, and only then lets the Pod go.    *)
(*                                                                         *)
(* A reconciliation is a sequence of API reads and writes; between any two *)
(* of them users, the StatefulSet controller, the kubelet and the garbage  *)
(* collector act.  Writes carry the resourceVersion that was read.         *)
(***************************************************************************)
EXTENDS Naturals

CONSTANTS MaxPods,   \* bound: Pods the StatefulSet controller creates
          Budgets    \* what may happen to the actor: one of these in each behaviour

\* Decisions of users and faults, each bounded by a budget.
Kinds == {"Stop", "Remove", "Suspend", "Policy", "Restart", "Evict", "NodeLost", "Foreground"}

\* What the bounds are.
Bounds == MaxPods \in Nat /\ Budgets \subseteq [Kinds -> Nat]

VARIABLES
    root,      \* the StacksNetwork: suspension edits so far, spec.operation = Stopped
    part,      \* the StacksNetworkParticipant: finalizer, policy, status.runtime, condition
    sts,       \* the StatefulSet; view is the replica count its controller acts on
    pod,       \* the Pod of the fixed name; proc is its process, known to the kubelet only
    drained,   \* what BeforeStop answers: the control executor acknowledged its drain
    op,        \* the reconciliation: program counter and what it has read
    stale,     \* objects changed by others since the reconciliation read them
    born,      \* Pods created so far; the last UID
    recorded,  \* history: Pods whose termination status.runtime has recorded
    budget     \* how often each kind of decision or fault may still happen

vars == <<root, part, sts, pod, drained, op, stale, born, recorded, budget>>

world == <<root, part, sts, pod, drained, born, recorded, budget>>

-----------------------------------------------------------------------------
(* State *)

Bit == {0, 1}

Uids == 0 .. MaxPods   \* 0: no Pod, a nil PodRef

\* Reasons of the WorkloadReady condition; "Active" stands for those of the activation
\* path, from a refused gate to Ready.
Reasons == {"", "Active", "DrainingControl", "Stopping", "TerminationUnknown",
            "Terminated", "Stopped", "Suspended"}

Runtime == [ref : Uids, term : BOOLEAN]

Participant == [deleting : BOOLEAN, template : Nat, fin : BOOLEAN,
                run : Runtime, reason : Reasons, gone : BOOLEAN]

Root == [toggles : Nat, stopped : BOOLEAN]

\* seen: status.observedGeneration is current; count: status.replicas.
StatefulSet == [exists : BOOLEAN, replicas : Bit, template : Nat,
                view : Bit, seen : BOOLEAN, count : Bit]

Pod == [uid : Uids, deleting : BOOLEAN, fin : BOOLEAN, scheduled : BOOLEAN,
        template : Nat, proc : {"new", "live", "dead"},
        evidence : {"none", "terminal", "unknown"}]

NoPod == [uid |-> 0, deleting |-> FALSE, fin |-> FALSE, scheduled |-> FALSE,
          template |-> 0, proc |-> "new", evidence |-> "none"]

NoSet == [exists |-> FALSE, replicas |-> 0, template |-> 0, view |-> 0,
          seen |-> FALSE, count |-> 0]

Steps == {"idle", "root", "confirmed", "drain", "workload", "remaining", "actor",
          "retain", "scale", "release", "delete", "finish", "unfinal",
          "adopt", "recheck", "converge", "capture", "patch", "observe"}

\* then: the step after a successful write; err: the reason a failed one reports,
\* or "" when Reconcile returns the error without a status write.
Operation == [pc : Steps, part : Participant, root : Root, st : Runtime,
              sts : StatefulSet, reason : Reasons, then : Steps, err : Reasons]

NoParticipant == [deleting |-> FALSE, template |-> 0, fin |-> FALSE,
                  run |-> [ref |-> 0, term |-> FALSE], reason |-> "", gone |-> FALSE]

Idle == [pc |-> "idle", part |-> NoParticipant, root |-> [toggles |-> 0, stopped |-> FALSE],
         st |-> [ref |-> 0, term |-> FALSE], sts |-> NoSet,
         reason |-> "", then |-> "idle", err |-> ""]

\* One type invariant: values of API objects and of the reconciliation.
TypeOK ==
    /\ root \in Root
    /\ part \in Participant
    /\ sts \in StatefulSet
    /\ pod \in Pod
    /\ drained \in BOOLEAN
    /\ op \in Operation
    /\ stale \subseteq {"part", "sts", "pod"}
    /\ born \in Uids
    /\ recorded \subseteq 1 .. MaxPods
    /\ budget \in [Kinds -> Nat]

Init ==
    /\ root = [toggles |-> 0, stopped |-> FALSE]
    /\ part = NoParticipant
    /\ sts = NoSet
    /\ pod = NoPod
    /\ drained = FALSE
    /\ op = Idle
    /\ stale = {}
    /\ born = 0
    /\ recorded = {}
    /\ budget \in Budgets

-----------------------------------------------------------------------------
(* Decisions of the reconciler *)

suspended(r) == r.toggles % 2 = 1

\* Intent as it is now, and as the reconciliation read it.
Stopping == root.stopped \/ part.deleting

stopping == op.root.stopped \/ op.part.deleting

\* terminated: a deleted Pod that never had a node, or kubelet evidence for every container.
terminated(p) == \/ p.deleting /\ ~p.scheduled
                 \/ p.evidence = "terminal"

\* terminationRecorded trusting the observation of this reconciliation.
terminationObserved(p) == op.st.ref = p.uid \/ op.part.run.ref = p.uid

\* The participant as it was read already records the termination of this Pod.
terminationRecorded(p) == op.part.run.term /\ op.part.run.ref = p.uid

\* Copies the reconciliation may still write; stale is kept for these only.
copies == (IF op.pc = "idle" THEN {} ELSE {"part"})
          \cup (IF op.pc \in {"actor", "capture", "retain", "scale", "patch"} THEN {"sts"} ELSE {})
          \cup (IF op.pc \in {"retain", "release"} THEN {"pod"} ELSE {})

\* Someone else changes object x.
Changed(x) == stale' = stale \cup ({x} \cap copies)

\* Return from Reconcile; go on with a step that has nothing to write; finish with a
\* reason; write the object just read or the StatefulSet read before it.
Return == op' = Idle /\ stale' = {}

Goto(pc) == /\ op' = [op EXCEPT !.pc = pc]
            /\ stale' = stale \cap {"part"}

Finish(st, reason) ==
    /\ op' = [op EXCEPT !.pc = "finish", !.st = st, !.reason = reason,
                        !.sts = NoSet, !.then = "idle", !.err = ""]
    /\ stale' = stale \cap {"part"}

Write(pc, st, then, reason, err) ==
    /\ op' = [op EXCEPT !.pc = pc, !.st = st, !.then = then, !.reason = reason, !.err = err]
    /\ stale' = stale \ {"pod"}

\* After a write: the next step, with nothing kept that it does not need.
Proceed == IF op.then = "finish" THEN Finish(op.st, op.reason)
           ELSE /\ op' = [op EXCEPT !.pc = op.then, !.then = "finish"]
                /\ stale' = stale \ {"pod"}

-----------------------------------------------------------------------------
(* Reconcile: what is intended *)

\* Reconcile reads the participant and copies its status.runtime.
ReadParticipant ==
    /\ op.pc = "idle" /\ ~part.gone
    /\ op' = [op EXCEPT !.pc = "root", !.part = part, !.st = part.run]
    /\ UNCHANGED stale
    /\ UNCHANGED world

\* Reconcile reads the root and chooses between stopActor, shutdown and activation.
ReadRoot ==
    /\ op.pc = "root"
    /\ op' = [op EXCEPT !.root = root,
                        !.pc = IF root.stopped \/ op.part.deleting
                               THEN IF op.st.term THEN "confirmed" ELSE "drain"
                               ELSE IF suspended(root) THEN "workload"
                               ELSE IF op.part.fin THEN "recheck" ELSE "adopt"]
    /\ UNCHANGED <<world, stale>>

\* stopActor: a process that is confirmed and absent needs no second drain.
stopConfirmed ==
    /\ op.pc = "confirmed"
    /\ Goto(IF pod.uid = 0 THEN "workload" ELSE "drain")
    /\ UNCHANGED world

\* stopActor that goes on to shut down whatever BeforeStop answers.
BeforeStopIgnored ==
    /\ op.pc = "drain"
    /\ Goto("workload")
    /\ UNCHANGED world

\* stopActor: BeforeStop holds the actor until the control executor has drained.
BeforeStop ==
    /\ op.pc = "drain"
    /\ IF drained THEN Goto("workload") ELSE Finish(op.st, "DrainingControl")
    /\ UNCHANGED world

-----------------------------------------------------------------------------
(* shutdown *)

\* shutdown reads the StatefulSet.
shutdownWorkload ==
    /\ op.pc = "workload"
    /\ op' = [op EXCEPT !.pc = IF sts.exists THEN "actor" ELSE "remaining", !.sts = sts]
    /\ UNCHANGED <<world, stale>>

\* shutdown without a StatefulSet: the Pod that remains must be the recorded one, and
\* terminated; a recorded Pod that is absent must have been confirmed.
shutdownRemaining ==
    /\ op.pc = "remaining"
    /\ LET ended == [op.st EXCEPT !.term = TRUE] IN
       IF pod.uid # 0
       THEN IF op.st.ref # pod.uid \/ ~terminated(pod)
            THEN Finish(op.st, "TerminationUnknown")
            ELSE IF ~terminationRecorded(pod)
            THEN Finish(ended, "Stopping")
            ELSE Write("release", ended, "finish", "Terminated", "TerminationUnknown")
       ELSE IF op.st.ref # 0 /\ ~op.st.term
            THEN Finish(op.st, "TerminationUnknown")
            ELSE Finish(ended, "Terminated")
    /\ UNCHANGED world

\* shutdown with a Pod of another UID than the recorded one, whose end is not confirmed.
unconfirmed(ref, p) == ref # 0 /\ ref # p.uid /\ ~op.st.term

\* A scale-down is settled when the StatefulSet controller has seen it and counts no Pod.
scaleDownObserved == op.sts.seen /\ op.sts.count = 0

\* shutdown observes the Pod, retains it, scales down, and once the termination is
\* recorded releases it; without a Pod it waits for the scale-down to be observed and
\* disposes of the StatefulSet of a removed participant.
shutdownActor ==
    /\ op.pc = "actor"
    /\ LET down == op.sts.replicas # 0
           seen == [ref |-> pod.uid, term |-> terminated(pod)]
           ended == [op.st EXCEPT !.term = TRUE]
       IN IF pod.uid # 0
          THEN IF unconfirmed(op.st.ref, pod)
               THEN IF down
                    THEN Write("scale", op.st, "finish", "TerminationUnknown", "TerminationUnknown")
                    ELSE Finish(op.st, "TerminationUnknown")
               ELSE IF ~seen.term /\ ~pod.deleting /\ ~pod.fin
               THEN Write("retain", seen, IF down THEN "scale" ELSE "finish",
                          "Stopping", "TerminationUnknown")
               ELSE IF down
               THEN Write("scale", seen, "finish", "Stopping", "TerminationUnknown")
               ELSE IF seen.term /\ terminationRecorded(pod)
               THEN Write("release", seen, "finish", "Stopping", "TerminationUnknown")
               ELSE Finish(seen, "Stopping")
          ELSE IF down
               THEN Write("scale", op.st, "finish", "Stopping", "TerminationUnknown")
               ELSE IF op.st.ref # 0 /\ ~op.st.term
               THEN Finish(op.st, "TerminationUnknown")
               ELSE IF ~scaleDownObserved
               THEN Finish(op.st, "Stopping")
               ELSE IF op.part.deleting
               THEN Write("delete", ended, "finish", "Terminated", "TerminationUnknown")
               ELSE Finish(ended, "Terminated")
    /\ UNCHANGED world

-----------------------------------------------------------------------------
(* Writes on the StatefulSet and the Pod *)

\* retainPod adds the Pod's finalizer.
retainPod ==
    /\ op.pc = "retain" /\ "pod" \notin stale
    /\ pod' = [pod EXCEPT !.fin = TRUE]
    /\ Proceed
    /\ UNCHANGED <<root, part, sts, drained, born, recorded, budget>>

\* releasePod that removes the finalizer from its copy and sends no patch.
releasePodUnsent ==
    /\ op.pc = "release" /\ ("pod" \notin stale \/ ~pod.fin)
    /\ Proceed
    /\ UNCHANGED world

\* releasePod removes it; a Pod that lost it is left alone.
releasePod ==
    /\ op.pc = "release" /\ ("pod" \notin stale \/ ~pod.fin)
    /\ pod' = [pod EXCEPT !.fin = FALSE]
    /\ Proceed
    /\ UNCHANGED <<root, part, sts, drained, born, recorded, budget>>

\* shutdown patches spec.replicas to zero.
scaleDown ==
    /\ op.pc = "scale" /\ "sts" \notin stale
    /\ sts' = [sts EXCEPT !.replicas = 0, !.seen = FALSE]
    /\ Proceed
    /\ UNCHANGED <<root, part, pod, drained, born, recorded, budget>>

\* shutdown deletes the StatefulSet of a removed participant; absence is no error.
deleteWorkload ==
    /\ op.pc = "delete"
    /\ sts' = NoSet
    /\ Proceed
    /\ UNCHANGED <<root, part, pod, drained, born, recorded, budget>>

\* The StatefulSet that was read needs no patch.
converged == op.sts.replicas = 1 /\ op.sts.template = op.part.template

\* A write on an object that has changed is refused: the error is reported or returned.
conflict ==
    /\ \/ op.pc = "retain" /\ "pod" \in stale
       \/ op.pc = "release" /\ "pod" \in stale /\ pod.fin
       \/ op.pc = "scale" /\ "sts" \in stale
       \/ op.pc = "patch" /\ "sts" \in stale /\ ~converged
    /\ IF op.err = "" THEN Return ELSE Finish(op.st, op.err)
    /\ UNCHANGED world

-----------------------------------------------------------------------------
(* Reconcile: the status *)

\* The condition's reason: Terminated is only reported of a removed participant.
reported == IF op.reason # "Terminated" \/ (op.part.deleting /\ op.part.fin) THEN op.reason
            ELSE IF suspended(op.root) /\ ~stopping THEN "Suspended" ELSE "Stopped"

\* finish applies status.runtime and the condition, unless nothing changed; a confirmed
\* termination of a removed participant goes on to its finalizer.
finish ==
    /\ op.pc = "finish"
    /\ LET new == [op.part EXCEPT !.run = op.st, !.reason = reported]
           done == reported = "Terminated"
       IN \/ /\ new = op.part \/ "part" \notin stale
             /\ IF new = op.part THEN UNCHANGED part ELSE part' = new
             /\ recorded' = IF op.st.term /\ op.st.ref # 0
                            THEN recorded \cup {op.st.ref} ELSE recorded
             /\ IF done THEN op' = [op EXCEPT !.pc = "unfinal", !.part = new] /\ UNCHANGED stale
                ELSE Return
          \/ /\ new # op.part /\ "part" \in stale
             /\ Return
             /\ UNCHANGED <<part, recorded>>
    /\ UNCHANGED <<root, sts, pod, drained, born, budget>>

\* Reconcile removes the participant's finalizer, the last thing that keeps a deleted one.
dropFinalizer ==
    /\ op.pc = "unfinal"
    /\ part' = IF "part" \in stale THEN part
               ELSE [part EXCEPT !.fin = FALSE, !.gone = part.deleting]
    /\ Return
    /\ UNCHANGED <<root, sts, pod, drained, born, recorded, budget>>

-----------------------------------------------------------------------------
(* Reconcile: activation *)

\* Reconcile adds the participant's finalizer before anything is created.
addFinalizer ==
    /\ op.pc = "adopt"
    /\ IF "part" \in stale
       THEN Return /\ UNCHANGED part
       ELSE /\ part' = [part EXCEPT !.fin = TRUE]
            /\ op' = [op EXCEPT !.pc = "recheck", !.part.fin = TRUE]
            /\ UNCHANGED stale
    /\ UNCHANGED <<root, sts, pod, drained, born, recorded, budget>>

\* Authorization, pause, placement, configuration, storage or start gates may refuse.
refuseActivation ==
    /\ op.pc \in {"recheck", "patch"}
    /\ Finish(op.st, "Active")
    /\ UNCHANGED world

\* After the gates intent is read again, and must be the one they were judged by.
recheckIntent ==
    /\ op.pc = "recheck"
    /\ IF \/ root # op.root \/ part.deleting # op.part.deleting
          \/ part.template # op.part.template
       THEN Return
       ELSE /\ op' = [op EXCEPT !.pc = "converge", !.part = part]
            /\ stale' = {}
    /\ UNCHANGED world

\* reconcileStatefulSet creates the StatefulSet or reads it.
convergeWorkload ==
    /\ op.pc = "converge"
    /\ IF sts.exists
       THEN /\ op' = [op EXCEPT !.pc = "capture", !.sts = sts]
            /\ UNCHANGED <<sts, stale>>
       ELSE /\ sts' = [NoSet EXCEPT !.exists = TRUE, !.replicas = 1,
                                    !.template = op.part.template]
            /\ Goto("observe")
    /\ UNCHANGED <<root, part, pod, drained, born, recorded, budget>>

\* reconcileStatefulSet captures the existing Pod before it changes template or replicas.
capturePod ==
    /\ op.pc = "capture"
    /\ IF pod.uid # 0 /\ ~pod.deleting /\ ~pod.fin
       THEN Write("retain", op.st, "patch", "Active", "Active")
       ELSE Write("patch", op.st, "observe", "Active", "Active")
    /\ UNCHANGED world

\* patchWorkload that adds a replica instead of setting the number.
patchWorkloadSurging ==
    /\ op.pc = "patch"
    /\ converged \/ "sts" \notin stale
    /\ IF converged THEN UNCHANGED sts
       ELSE sts' = [sts EXCEPT !.replicas = @ + 1, !.template = op.part.template, !.seen = FALSE]
    /\ op' = [op EXCEPT !.pc = "observe", !.sts = NoSet]
    /\ stale' = stale \cap {"part"}
    /\ UNCHANGED <<root, part, pod, drained, born, recorded, budget>>

\* reconcileStatefulSet patches the replicas and the template that differ.
patchWorkload ==
    /\ op.pc = "patch"
    /\ converged \/ "sts" \notin stale
    /\ IF converged THEN UNCHANGED sts
       ELSE sts' = [sts EXCEPT !.replicas = 1, !.template = op.part.template, !.seen = FALSE]
    /\ op' = [op EXCEPT !.pc = "observe", !.sts = NoSet]
    /\ stale' = stale \cap {"part"}
    /\ UNCHANGED <<root, part, pod, drained, born, recorded, budget>>

\* Reconcile observes the Pod: a deleted one is recorded and then released, a live one retained.
observeActor ==
    /\ op.pc = "observe"
    /\ LET started == [op.st EXCEPT !.term = FALSE]
           seen == [ref |-> pod.uid, term |-> pod.deleting /\ terminated(pod)]
       IN IF pod.uid = 0
          THEN Finish(started, "Active")
          ELSE IF pod.deleting
          THEN IF seen.term /\ terminationRecorded(pod)
               THEN Write("release", seen, "finish", "Active", "")
               ELSE Finish(seen, "Active")
          ELSE IF ~pod.fin THEN Write("retain", seen, "finish", "Active", "")
          ELSE Finish(seen, "Active")
    /\ UNCHANGED world

-----------------------------------------------------------------------------
(* Users and faults *)

Spend(kind) == /\ budget[kind] > 0
               /\ budget' = [budget EXCEPT ![kind] = @ - 1]

\* spec.participants[].control.suspended is edited.
ToggleSuspended ==
    /\ Spend("Suspend")
    /\ root' = [root EXCEPT !.toggles = @ + 1]
    /\ UNCHANGED <<part, sts, pod, drained, op, stale, born, recorded>>

\* spec.operation becomes Stopped, which is terminal (and makes no difference to a
\* participant that is being removed).
StopNetwork ==
    /\ Spend("Stop") /\ ~root.stopped /\ ~part.deleting
    /\ root' = [root EXCEPT !.stopped = TRUE]
    /\ UNCHANGED <<part, sts, pod, drained, op, stale, born, recorded>>

\* The participant is deleted; without finalizer it is gone at once.
RemoveParticipant ==
    /\ Spend("Remove") /\ ~part.deleting
    /\ part' = [part EXCEPT !.deleting = TRUE, !.gone = ~part.fin]
    /\ Changed("part")
    /\ UNCHANGED <<root, sts, pod, drained, op, born, recorded>>

\* The foundation admits a new policy for the participant.
AdmitPolicy ==
    /\ Spend("Policy") /\ ~Stopping
    /\ part' = [part EXCEPT !.template = @ + 1]
    /\ Changed("part")
    /\ UNCHANGED <<root, sts, pod, drained, op, born, recorded>>

\* The operator restarts, the answer to its last call is lost, or the next one fails (as a
\* status apply does when another manager has written the participant).
Restart ==
    /\ Spend("Restart") /\ op.pc # "idle"
    /\ Return
    /\ UNCHANGED <<root, part, sts, pod, drained, born, recorded>>

\* The control executor acknowledges the drain that a stop or a removal asks for.
Drain ==
    /\ Stopping /\ ~drained
    /\ drained' = TRUE
    /\ UNCHANGED <<root, part, sts, pod, op, stale, born, recorded, budget>>

-----------------------------------------------------------------------------
(* Kubernetes *)

\* The StatefulSet controller observes the spec and reports what it counts.
SyncSet ==
    /\ sts.exists
    /\ sts' = [sts EXCEPT !.view = sts.replicas, !.seen = TRUE,
                          !.count = IF pod.uid = 0 THEN 0 ELSE 1]
    /\ sts' # sts
    /\ Changed("sts")
    /\ UNCHANGED <<root, part, pod, drained, op, born, recorded, budget>>

\* It creates the Pod from the template, which carries the finalizer.
CreatePod ==
    /\ sts.exists /\ sts.view = 1 /\ pod.uid = 0 /\ born < MaxPods
    /\ born' = born + 1
    /\ pod' = [NoPod EXCEPT !.uid = born + 1, !.fin = TRUE, !.template = sts.template]
    /\ Changed("pod")
    /\ UNCHANGED <<root, part, sts, drained, op, recorded, budget>>

\* It deletes a surplus, outdated or failed Pod; without it the garbage collector does.
DeletePod ==
    /\ pod.uid # 0 /\ ~pod.deleting
    /\ \/ sts.exists /\ (sts.view = 0 \/ pod.template # sts.template \/ pod.evidence = "terminal")
       \/ ~sts.exists
    /\ pod' = [pod EXCEPT !.deleting = TRUE]
    /\ Changed("pod")
    /\ UNCHANGED <<root, part, sts, drained, op, born, recorded, budget>>

\* Foreground deletion of an owner removes the StatefulSet under the reconciler.
CollectSet ==
    /\ Spend("Foreground")
    /\ part.deleting /\ sts.exists
    /\ sts' = NoSet
    /\ Changed("sts")
    /\ UNCHANGED <<root, part, pod, drained, op, born, recorded>>

\* The Pod's status or process changes.
ChangePod(p) ==
    /\ pod.uid # 0
    /\ pod' = p
    /\ IF [p EXCEPT !.proc = pod.proc] = pod THEN UNCHANGED stale ELSE Changed("pod")
    /\ UNCHANGED <<root, part, sts, drained, op, born, recorded>>

SchedulePod ==
    /\ ~pod.scheduled /\ ~pod.deleting
    /\ ChangePod([pod EXCEPT !.scheduled = TRUE])
    /\ UNCHANGED budget

StartProcess ==
    /\ pod.scheduled /\ ~pod.deleting /\ pod.proc = "new"
    /\ ChangePod([pod EXCEPT !.proc = "live"])
    /\ UNCHANGED budget

\* The process of a deleted Pod ends; that of an evicted one ends for good.
EndProcess ==
    /\ pod.proc = "live" /\ pod.deleting
    /\ ChangePod([pod EXCEPT !.proc = "dead"])
    /\ UNCHANGED budget

EvictProcess ==
    /\ Spend("Evict") /\ pod.proc = "live" /\ ~pod.deleting
    /\ ChangePod([pod EXCEPT !.proc = "dead"])

ReportTerminated ==
    /\ pod.scheduled /\ pod.evidence # "terminal"
    /\ pod.proc = "dead" \/ (pod.proc = "new" /\ pod.deleting)
    /\ ChangePod([pod EXCEPT !.proc = "dead", !.evidence = "terminal"])
    /\ UNCHANGED budget

\* The node is unreachable: the Pod is deleted and marked failed, its process may run on.
LoseNode ==
    /\ Spend("NodeLost")
    /\ pod.scheduled /\ pod.evidence = "none"
    /\ ChangePod([pod EXCEPT !.deleting = TRUE, !.evidence = "unknown"])

\* The API server removes a deleted Pod without finalizers when the kubelet is done with it.
PodVanishes ==
    /\ pod.deleting /\ ~pod.fin
    /\ ~pod.scheduled \/ pod.evidence = "terminal"
    /\ ChangePod(NoPod)
    /\ UNCHANGED budget

-----------------------------------------------------------------------------
Shutdown == shutdownWorkload \/ shutdownRemaining \/ shutdownActor

Activate == addFinalizer \/ refuseActivation \/ recheckIntent \/ convergeWorkload
                \/ capturePod \/ patchWorkload \/ observeActor

Reconcile ==
    \/ ReadParticipant \/ ReadRoot \/ stopConfirmed \/ BeforeStop
    \/ Shutdown \/ Activate
    \/ retainPod \/ releasePod \/ scaleDown \/ deleteWorkload \/ conflict
    \/ finish \/ dropFinalizer

Users == ToggleSuspended \/ StopNetwork \/ RemoveParticipant \/ AdmitPolicy \/ Restart

Kubelet == SchedulePod \/ StartProcess \/ EndProcess \/ EvictProcess
               \/ ReportTerminated \/ LoseNode \/ PodVanishes

Controllers == SyncSet \/ CreatePod \/ DeletePod \/ CollectSet

Next == Reconcile \/ Users \/ Drain \/ Controllers \/ Kubelet

Spec == Init /\ [][Next]_vars

\* The operator retries, the executor drains, and Kubernetes does its part; users, faults,
\* the start of Pods and a refused gate owe nothing.
FairSpec ==
    /\ Spec
    /\ WF_vars(Reconcile)
    /\ WF_vars(Drain)
    /\ WF_vars(SyncSet \/ DeletePod)
    /\ WF_vars(EndProcess \/ ReportTerminated \/ PodVanishes)

-----------------------------------------------------------------------------
(* Properties *)

\* No process, and nothing that could still start one.
Quiet ==
    /\ pod.proc # "live"
    /\ pod.uid # 0 => pod.deleting \/ pod.evidence = "terminal"
    /\ sts.exists => sts.replicas = 0 /\ sts.view = 0

\* status.runtime says that a Pod terminated (shutdown, the Restarting branch of
\* Reconcile) only when its process has ended: also after a lost node, an eviction or a
\* replacement.
EvidenceTrue ==
    part.run.term /\ part.run.ref = pod.uid => pod.proc # "live"

\* A Pod is only gone, and replaced by another, when status.runtime has recorded its
\* termination (terminationRecorded before releasePod), whatever restarts and conflicts
\* came between the record and the release.
EvidenceBeforeRelease ==
    \A u \in 1 .. born : (u = pod.uid /\ pod.fin) \/ u \in recorded

\* The stop or the removal is complete, for everyone who reads the participant.
Done == part.gone \/ part.reason \in {"Stopped", "Terminated"}

\* A participant that reports Stopped or Terminated, or whose finalizer was removed, has no
\* process left, and none can come: not from the StatefulSet controller acting on an older
\* spec, not from a Pod the reconciler never observed, not from a retry.
DoneIsQuiet == Done => Quiet

\* The process that serves the control executor is scaled down by a stop or a removal only
\* after the executor has drained (BeforeStop), or while status.runtime still holds the
\* termination of an earlier process that let stopActor pass.
ScaledAfterDrain ==
    sts.replicas = 1 /\ sts'.replicas = 0 /\ op.pc = "scale" /\ stopping => drained \/ part.run.term

\* What status.runtime holds can no longer be confirmed: the recorded Pod is absent and
\* unconfirmed, or the Pod that is left is another one and its StatefulSet is gone.
EvidenceLost ==
    \/ part.run.ref # 0 /\ part.run.ref # pod.uid /\ ~part.run.term
    \/ ~sts.exists /\ pod.uid # 0 /\ pod.uid # part.run.ref

\* A stop or a removal is completed by shutdown, unless evidence was lost for good.
StopCompletes == <>Stopping => <>Done \/ <>[]EvidenceLost

\* docs/network-operator/operations.md: on Stopped "actors scale to zero with confirmed
\* termination".
StopConfirmed == <>Stopping => <>Done
=============================================================================

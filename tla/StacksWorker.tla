---------------------------- MODULE StacksWorker ----------------------------
(***************************************************************************)
(* The session of one Stacks mutation worker: the domain controller        *)
(* (operators/network/internal/stacksworker/controller.go) creates one     *)
(* inactive candidate Pod, the aggregate (networkruntime/workers.go,       *)
(* ProjectSession) binds it in the root ledger, asks it to shut down and   *)
(* records how it was disposed of, and the process itself                  *)
(* (stacksworker/runtime.go) reports, submits, drains and acknowledges.    *)
(* A Pod is never restarted, and a bound worker is never replaced.         *)
(*                                                                         *)
(* Every write carries a resourceVersion and succeeds when the object is   *)
(* as it was read; AbortController and AbortAggregate stand for the        *)
(* conflict, for a failed call and for a restart of the operator.          *)
(***************************************************************************)
EXTENDS Naturals

CONSTANTS MaxPods, \* bound: Pods ever created
          MaxSent, \* bound: submissions of one process
          Budgets  \* what may happen: one of these in each behaviour

\* Decisions of users and faults, each bounded by a budget.
Kinds == {"Pause", "Stop", "Remove", "Delete", "Evict", "Crash", "NodeLost", "Late",
          "RoleFails", "WriteFails"}

VARIABLES
    root,   \* the StacksNetwork: desired operation, deletion, membership, failure latch
    ses,    \* status.identities[i].worker: binding, shutdown record, disposal
    part,   \* the StacksNetworkParticipant with its execution report
    pod,    \* the Pod of the worker's only name; uid 0 when there is none
    w,      \* memory of the process in that Pod, and what it has read
    ctl,    \* the domain controller: program counter and what it has read
    agg,    \* the aggregate: program counter, what it has read, what it will write
    used,   \* UIDs handed out so far
    late,   \* ShutdownBound has passed since the shutdown was recorded
    sent,   \* history: submissions made by the process of each Pod
    open,   \* history: submissions of each Pod not settled yet
    budget  \* how often each kind of decision or fault may still happen

vars == <<root, ses, part, pod, w, ctl, agg, used, late, sent, open, budget>>

\* What the constants are.
Bounds == MaxPods \in Nat /\ Budgets \subseteq [Kinds -> Nat]

-----------------------------------------------------------------------------
(* State *)

Pods == 1..MaxPods

Reasons == {"none", "NetworkDeleting", "NetworkStopped", "ParticipantRemoved"}
Phases == {"none", "Inactive", "Active", "Paused", "Blocked", "Failed", "Draining",
           "Settled", "Unsettled"}

Root == [op : {"Running", "Paused", "Stopped"}, gen : Nat, deleting : BOOLEAN,
         listed : BOOLEAN, failed : BOOLEAN]

\* api.WorkerSession; pod 0: id.Worker is nil; down: Shutdown; disp: Disposal
Session == [pod : Pods \cup {0}, down : Reasons, gen : Nat,
            disp : {"none", "Settled", "Unsettled"}, term : BOOLEAN]

\* api.WorkerExecutionStatus; pod 0: there is none
Execution == [pod : Pods \cup {0}, phase : Phases, gen : Nat, reason : Reasons,
              sent : Nat, open : Nat]

NoSession == [pod |-> 0, down |-> "none", gen |-> 0, disp |-> "none", term |-> FALSE]
NoExecution == [pod |-> 0, phase |-> "none", gen |-> 0, reason |-> "none", sent |-> 0, open |-> 0]

\* fin: Finalizer; cand: status.runtime.workerCandidate
Participant == [there : BOOLEAN, deleting : BOOLEAN, fin : BOOLEAN, cand : Pods \cup {0},
                exec : Execution]

\* proc is what the kubelet knows; evidence is what the Pod's status says of the end of it
Pod == [uid : Pods \cup {0}, deleting : BOOLEAN, fin : BOOLEAN,
        proc : {"pending", "live", "dead"}, evidence : {"none", "known", "unknown"}]

NoPod == [uid |-> 0, deleting |-> FALSE, fin |-> FALSE, proc |-> "pending", evidence |-> "none"]

NewRoot == [op |-> "Running", gen |-> 1, deleting |-> FALSE, listed |-> TRUE, failed |-> FALSE]
NewParticipant == [there |-> TRUE, deleting |-> FALSE, fin |-> FALSE, cand |-> 0,
                   exec |-> NoExecution]

\* The worker's memory, and what the controller and the aggregate have read and will write.
Process == [pc : {"idle", "read", "step", "send", "publish", "exit"}, root : Root, ses : Session,
            part : Participant, activated : BOOLEAN, pend : Execution, final : Execution,
            sent : Nat, open : Nat, report : Execution]
Controller == [pc : {"idle", "root", "pod", "decide", "adopt", "unbind", "unfinal", "release"},
               root : Root, ses : Session, part : Participant, pod : Pod]
Aggregate == [pc : {"idle", "part", "pod", "write"}, root : Root, ses : Session,
              part : Participant, next : Session, fail : BOOLEAN]

\* activated, pendingReport, acknowledged and the role's own counters of Runtime
NewProcess == [pc |-> "idle", root |-> NewRoot, ses |-> NoSession, part |-> NewParticipant,
               activated |-> FALSE, pend |-> NoExecution, final |-> NoExecution,
               sent |-> 0, open |-> 0, report |-> NoExecution]

IdleController == [pc |-> "idle", root |-> NewRoot, ses |-> NoSession, part |-> NewParticipant,
                   pod |-> NoPod]
IdleAggregate == [pc |-> "idle", root |-> NewRoot, ses |-> NoSession, part |-> NewParticipant,
                  next |-> NoSession, fail |-> FALSE]

\* The values every variable may take.
TypeOK ==
    /\ root \in Root /\ ses \in Session /\ part \in Participant /\ pod \in Pod
    /\ w \in Process /\ ctl \in Controller /\ agg \in Aggregate
    /\ sent \in [Pods -> Nat] /\ open \in [Pods -> Nat]
    /\ late \in BOOLEAN /\ used \in 0..MaxPods /\ budget \in [Kinds -> Nat]

Init ==
    /\ root = NewRoot /\ ses = NoSession /\ part = NewParticipant /\ pod = NoPod
    /\ w = NewProcess /\ ctl = IdleController /\ agg = IdleAggregate
    /\ late = FALSE /\ used = 0
    /\ sent = [u \in Pods |-> 0] /\ open = [u \in Pods |-> 0]
    /\ budget \in Budgets

-----------------------------------------------------------------------------
(* Predicates shared by the controller, the aggregate and the process *)

stoppedReason(r, p) ==
    CASE r.deleting -> "NetworkDeleting"
      [] ~r.deleting /\ r.op = "Stopped" -> "NetworkStopped"
      [] ~r.deleting /\ r.op # "Stopped" /\ (p.deleting \/ ~r.listed) -> "ParticipantRemoved"
      [] OTHER -> "none"

paused(r) == r.op # "Running" \/ r.failed

terminal(x) == x.evidence # "none"

\* Kubelet evidence of the end, or a deleted Pod that was never scheduled.
Terminated(x) == x.evidence = "known" \/ (x.deleting /\ x.proc = "pending" /\ x.evidence = "none")

controlAllows(r, s, p) ==
    /\ s.pod # 0 /\ s.down = "none" /\ s.disp = "none"
    /\ ~paused(r) /\ stoppedReason(r, p) = "none"

Live == pod.uid # 0 /\ pod.proc = "live"

\* CheckActorStop: Stacks nodes and signers of a stopped network may go.
CheckActorStop == (root.op # "Stopped" /\ ~root.deleting) \/ ses.pod = 0 \/ ses.disp # "none"

-----------------------------------------------------------------------------
(* Users and faults *)

Spend(k) == budget[k] > 0 /\ budget' = [budget EXCEPT ![k] = @ - 1]

EditRoot ==
    /\ \/ /\ Spend("Pause") /\ root.op # "Stopped"
          /\ root' = [root EXCEPT !.op = IF @ = "Running" THEN "Paused" ELSE "Running",
                                  !.gen = @ + 1]
       \/ /\ Spend("Stop") /\ root.op # "Stopped"
          /\ root' = [root EXCEPT !.op = "Stopped", !.gen = @ + 1]
       \/ /\ Spend("Remove") /\ root.listed
          /\ root' = [root EXCEPT !.listed = FALSE, !.gen = @ + 1]
       \/ /\ Spend("Delete") /\ ~root.deleting
          /\ root' = [root EXCEPT !.deleting = TRUE, !.gen = @ + 1]
    /\ UNCHANGED <<ses, part, pod, w, ctl, agg, used, late, sent, open>>

\* The foundation deletes the participant of a removed member or a deleted network.
DeleteParticipant ==
    /\ part.there /\ ~part.deleting /\ (root.deleting \/ ~root.listed)
    /\ part' = [part EXCEPT !.deleting = TRUE, !.there = part.fin]
    /\ UNCHANGED <<root, ses, pod, w, ctl, agg, used, late, sent, open, budget>>

\* A user, a drain of the node or garbage collection deletes the Pod.
Evict ==
    /\ Spend("Evict") /\ pod.uid # 0 /\ ~pod.deleting
    /\ pod' = IF pod.fin THEN [pod EXCEPT !.deleting = TRUE] ELSE NoPod
    /\ UNCHANGED <<root, ses, part, w, ctl, agg, used, late, sent, open>>

\* The scheduler places the Pod and the kubelet starts its only process.
Schedule ==
    /\ pod.uid # 0 /\ pod.proc = "pending" /\ ~pod.deleting
    /\ pod' = [pod EXCEPT !.proc = "live"]
    /\ w' = NewProcess
    /\ UNCHANGED <<root, ses, part, ctl, agg, used, late, sent, open, budget>>

\* The process ends: its own decision, termination of a deleted Pod, or a crash.
Exit ==
    /\ Live
    /\ \/ w.pc = "exit" /\ UNCHANGED budget
       \/ pod.deleting /\ UNCHANGED budget
       \/ Spend("Crash")
    /\ pod' = [pod EXCEPT !.proc = "dead", !.evidence = "known"]
    /\ w' = NewProcess
    /\ UNCHANGED <<root, ses, part, ctl, agg, used, late, sent, open>>

\* Kubernetes declares the Pod failed when its node is unreachable: the process may run on.
LoseNode ==
    /\ Spend("NodeLost") /\ pod.uid # 0 /\ pod.proc = "live" /\ ~terminal(pod)
    /\ pod' = [pod EXCEPT !.evidence = "unknown"]
    /\ UNCHANGED <<root, ses, part, w, ctl, agg, used, late, sent, open>>

\* ShutdownBound passes.
PassDeadline ==
    /\ Spend("Late") /\ ses.down # "none" /\ ~late
    /\ late' = TRUE
    /\ UNCHANGED <<root, ses, part, pod, w, ctl, agg, used, sent, open>>

-----------------------------------------------------------------------------
(* Reconciler.Reconcile of the domain controller *)

actors == <<root, ses, w, agg, late, sent, open, budget>>

GetParticipant ==
    /\ ctl.pc = "idle" /\ part.there
    /\ ctl' = [IdleController EXCEPT !.pc = "root", !.part = part]
    /\ UNCHANGED <<actors, used, part, pod>>

GetRoot ==
    /\ ctl.pc = "root"
    /\ ctl' = [ctl EXCEPT !.pc = "pod", !.root = root, !.ses = ses]
    /\ UNCHANGED <<actors, used, part, pod>>

GetPod ==
    /\ ctl.pc = "pod"
    /\ ctl' = [ctl EXCEPT !.pc = "decide", !.pod = pod]
    /\ UNCHANGED <<actors, used, part, pod>>

AbortController ==
    /\ ctl.pc # "idle" /\ ctl' = IdleController
    /\ UNCHANGED <<actors, used, part, pod>>

\* Requests carry the UID: they miss a Pod that replaced the one that was read.
deletedPod(x) == IF pod.uid # x.uid THEN pod
                 ELSE IF pod.fin THEN [pod EXCEPT !.deleting = TRUE] ELSE NoPod

\* The bound session: its Pod is deleted once a disposal is recorded, and freed once
\* both the Pod and the ledger say that the process ended.
DisposeBound ==
    /\ ctl.pc = "decide" /\ ctl.ses.pod # 0 /\ ctl.pod.uid = ctl.ses.pod
    /\ ctl.ses.disp # "none"
    /\ \/ ~ctl.pod.deleting /\ pod' = deletedPod(ctl.pod) /\ ctl' = IdleController
       \/ /\ ctl.pod.deleting /\ Terminated(ctl.pod) /\ ctl.ses.term /\ ctl.pod.fin
          /\ pod = ctl.pod /\ pod' = NoPod /\ ctl' = IdleController
    /\ UNCHANGED <<actors, used, part>>

\* The Pod is gone and its termination is recorded: the participant is released.
ReleaseBound ==
    /\ ctl.pc = "decide" /\ ctl.ses.pod # 0 /\ ctl.pod.uid = 0 /\ ctl.ses.term
    /\ \/ stoppedReason(ctl.root, ctl.part) = "ParticipantRemoved"
       \/ ctl.part.deleting \/ ctl.root.deleting
    /\ ctl' = [ctl EXCEPT !.pc = "release"]
    /\ UNCHANGED <<actors, used, part, pod>>

\* releaseParticipant, with the optimistic lock of the patch.
releaseParticipant ==
    /\ ctl.pc = "release" /\ part = ctl.part /\ part.there
    /\ part' = [part EXCEPT !.fin = FALSE, !.there = ~part.deleting]
    /\ ctl' = IdleController
    /\ UNCHANGED <<actors, used, pod>>

held(p) == p.exec.pod # 0 /\ p.exec.phase # "Inactive"

\* An unbound candidate that must not activate any more.
DisposeCandidate ==
    /\ ctl.pc = "decide" /\ ctl.ses.pod = 0 /\ ~held(ctl.part)
    /\ stoppedReason(ctl.root, ctl.part) # "none"
    /\ \/ /\ ctl.pod.uid # 0
          /\ pod' = IF ctl.pod.deleting THEN pod ELSE deletedPod(ctl.pod)
          /\ ctl' = IF Terminated(ctl.pod) THEN [ctl EXCEPT !.pc = "unfinal"]
                    ELSE IdleController
       \/ /\ ctl.pod.uid = 0
          /\ ctl' = [ctl EXCEPT !.pc = "release"] /\ UNCHANGED pod
    /\ UNCHANGED <<actors, used, part>>

\* The patch that removes the Pod's finalizer: it conflicts unless the Pod is as read.
removePodFinalizer ==
    /\ ctl.pc = "unfinal" /\ pod = ctl.pod
    /\ pod' = IF pod.deleting THEN NoPod ELSE [pod EXCEPT !.fin = FALSE]
    /\ ctl' = IdleController
    /\ UNCHANGED <<actors, used, part>>

mayProvision ==
    /\ ctl.pc = "decide" /\ ctl.ses.pod = 0 /\ ~held(ctl.part)
    /\ stoppedReason(ctl.root, ctl.part) = "none"
    /\ ctl.root.op = "Running" /\ ~ctl.root.failed

\* The finalizer precedes everything that is created for the participant.
AdoptParticipant ==
    /\ mayProvision /\ ~ctl.part.fin
    /\ part = ctl.part /\ part.there
    /\ part' = [part EXCEPT !.fin = TRUE]
    /\ ctl' = [ctl EXCEPT !.part = part']
    /\ UNCHANGED <<actors, used, pod>>

\* ensureSupport, Create, and the read of what the name now stands for.
CreateCandidate ==
    /\ mayProvision /\ ctl.part.fin /\ ctl.pod.uid = 0 /\ ctl.pod = NoPod
    /\ IF pod.uid = 0
       THEN /\ used < MaxPods /\ used' = used + 1
            /\ pod' = [NoPod EXCEPT !.uid = used', !.fin = TRUE]
       ELSE UNCHANGED <<pod, used>>
    /\ ctl' = [ctl EXCEPT !.pod = pod', !.pc = "adopt"]
    /\ UNCHANGED <<actors, part>>

\* The candidate: published when it can still run, otherwise deleted and forgotten.
ProvisionCandidate ==
    /\ \/ mayProvision /\ ctl.part.fin /\ ctl.pod.uid # 0
       \/ ctl.pc = "adopt"
    /\ \/ /\ ~terminal(ctl.pod) /\ ~ctl.pod.deleting
          /\ part = ctl.part /\ part' = [part EXCEPT !.cand = ctl.pod.uid]
          /\ ctl' = IdleController /\ UNCHANGED pod
       \/ /\ terminal(ctl.pod) /\ ~ctl.pod.deleting
          /\ pod' = deletedPod(ctl.pod) /\ ctl' = IdleController /\ UNCHANGED part
       \/ /\ ctl.pod.deleting /\ Terminated(ctl.pod)
          /\ pod = ctl.pod /\ pod' = NoPod
          /\ ctl' = [ctl EXCEPT !.pc = "unbind"] /\ UNCHANGED part
    /\ UNCHANGED <<actors, used>>

\* finish publishes that there is no candidate any more.
ForgetCandidate ==
    /\ ctl.pc = "unbind" /\ part = ctl.part
    /\ part' = [part EXCEPT !.cand = 0]
    /\ ctl' = IdleController
    /\ UNCHANGED <<actors, used, pod>>

-----------------------------------------------------------------------------
(* ProjectSession and projectWorkers of the aggregate *)

others == <<part, pod, used, w, ctl, sent, open, budget>>

AggregateReadRoot ==
    /\ agg.pc = "idle"
    /\ agg' = [IdleAggregate EXCEPT !.pc = "part", !.root = root, !.ses = ses]
    /\ UNCHANGED <<others, root, ses, late>>

\* The confirming read of the participant.
AggregateReadParticipant ==
    /\ agg.pc = "part" /\ part.there
    /\ agg' = [agg EXCEPT !.pc = "pod", !.part = part]
    /\ UNCHANGED <<others, root, ses, late>>

AbortAggregate ==
    /\ agg.pc # "idle" /\ agg' = IdleAggregate
    /\ UNCHANGED <<others, root, ses, late>>

shutdown(s, r, p) == [s EXCEPT !.down = stoppedReason(r, p), !.gen = r.gen]
disposed(s, outcome, x) == [s EXCEPT !.disp = outcome, !.term = Terminated(x)]

acknowledges(e, s) ==
    /\ e.pod = s.pod /\ e.gen = s.gen /\ e.reason = s.down
    /\ e.phase \in {"Settled", "Unsettled"}

outcome(e) == IF e.open > 0 THEN "Unsettled" ELSE e.phase

ended(x) == x.deleting \/ terminal(x)

\* The unbound session: bind the published candidate if it can still run.
projectUnbound(r, s, p, x) ==
    IF held(p) THEN [next |-> s, fail |-> TRUE]
    ELSE IF stoppedReason(r, p) # "none" \/ r.op # "Running" \/ r.failed \/ p.cand = 0 \/ x.uid = 0
         THEN [next |-> s, fail |-> FALSE]
    ELSE IF p.cand # x.uid THEN [next |-> s, fail |-> TRUE]
    ELSE IF ended(x) THEN [next |-> s, fail |-> FALSE]
    ELSE [next |-> [s EXCEPT !.pod = x.uid], fail |-> FALSE]

\* A recorded disposal: only the evidence of the end may still be added.
projectDisposed(s, x) ==
    [next |-> [s EXCEPT !.term = @ \/ Terminated(x)], fail |-> s.disp = "Unsettled"]

\* No shutdown yet: record one, or fail the experiment when the process cannot go on.
projectRunning(r, s, p, x) ==
    IF ended(x)
    THEN IF stoppedReason(r, p) # "none"
         THEN [next |-> disposed(shutdown(s, r, p), "Unsettled", x), fail |-> TRUE]
         ELSE [next |-> s, fail |-> TRUE]
    ELSE IF stoppedReason(r, p) # "none" THEN [next |-> shutdown(s, r, p), fail |-> FALSE]
    ELSE [next |-> s, fail |-> p.exec.pod = s.pod /\ p.exec.phase = "Failed"]

\* Faulty variant: the last report of the process serves as its acknowledgement.
projectDrainingSoon(s, p, x) ==
    [next |-> disposed(s, IF p.exec.pod = s.pod /\ p.exec.open = 0 THEN "Settled" ELSE "Unsettled", x),
     fail |-> FALSE]

\* A shutdown is under way: take the acknowledgement, or give up at the bound.
projectDraining(s, p, x) ==
    IF acknowledges(p.exec, s)
    THEN [next |-> disposed(s, outcome(p.exec), x), fail |-> outcome(p.exec) = "Unsettled"]
    ELSE IF ended(x) \/ late THEN [next |-> disposed(s, "Unsettled", x), fail |-> TRUE]
    ELSE [next |-> s, fail |-> FALSE]

ProjectSession(r, s, p, x) ==
    IF s.pod = 0 THEN projectUnbound(r, s, p, x)
    ELSE IF x.uid # s.pod THEN [next |-> s, fail |-> ~(x.uid = 0 /\ s.term)]
    ELSE IF s.disp # "none" THEN projectDisposed(s, x)
    ELSE IF s.down = "none" THEN projectRunning(r, s, p, x)
    ELSE projectDraining(s, p, x)

\* The read of the Pod, and the projection of what was read.
AggregateReadPod ==
    /\ agg.pc = "pod"
    /\ LET fact == ProjectSession(agg.root, agg.ses, agg.part, pod)
       IN  agg' = IF fact.next = agg.ses /\ (fact.fail => agg.root.failed) THEN IdleAggregate
                  ELSE [agg EXCEPT !.pc = "write", !.next = fact.next, !.fail = fact.fail,
                                   !.part = NewParticipant]
    /\ UNCHANGED <<others, root, ses, late>>

\* The conflict-checked status update; a failure is latched in the root's condition.
AggregateWrite ==
    /\ agg.pc = "write" /\ root = agg.root /\ ses = agg.ses
    /\ ses' = agg.next
    /\ root' = [root EXCEPT !.failed = @ \/ agg.fail]
    /\ agg' = IdleAggregate
    /\ UNCHANGED <<others, late>>

-----------------------------------------------------------------------------
(* Runtime.Reconcile of the process *)

outside == <<root, ses, pod, ctl, agg, used, late>>

\* fresh reads the root, and then the participant and the Pod.
ReadControl ==
    /\ w.pc = "idle" /\ Live
    /\ w' = [w EXCEPT !.pc = "read", !.root = root, !.ses = ses]
    /\ UNCHANGED <<outside, part, sent, open, budget>>

\* The report carries the evidence of this process and of no other.
carried(p) ==
    LET e == IF w.pend # NoExecution THEN w.pend ELSE p.exec
    IN  IF e.pod = pod.uid THEN e ELSE NoExecution

report(p, phase, reason) ==
    [pod |-> pod.uid, phase |-> phase, reason |-> reason, gen |-> w.root.gen,
     sent |-> carried(p).sent, open |-> carried(p).open]

identityLost(p) ==
    \/ ~p.there \/ ended(pod)
    \/ w.ses.pod # 0 /\ w.ses.pod # pod.uid
    \/ w.ses.pod = 0 /\ w.activated

\* Between passes only the fields of Runtime remain.
rest(m) == [m EXCEPT !.pc = "idle", !.root = NewRoot, !.ses = NoSession,
                     !.part = NewParticipant, !.report = NoExecution]

\* Another process reported under this participant, and it was more than a candidate.
foreign(p) ==
    /\ p.exec.pod # 0 /\ p.exec.pod # pod.uid
    /\ ~(p.exec.phase = "Inactive" /\ w.ses.pod \in {0, pod.uid})

\* Drain observes: some or all of what is pending settles.
DrainTo(p, left) ==
    LET base == [pod |-> pod.uid, phase |-> "Draining", reason |-> w.ses.down, gen |-> w.ses.gen,
                 sent |-> w.sent, open |-> left]
    IN  IF left = 0 THEN [base EXCEPT !.phase = "Settled"]
        ELSE IF late THEN [base EXCEPT !.phase = "Unsettled"]
        ELSE base

\* The rest of fresh reads the participant and the Pod; one of these follows.
Fresh == w.pc = "read" /\ Live /\ ~identityLost(part) /\ ~foreign(part)

\* A bound pass: the process has activated.
Bound == Fresh /\ w.ses.pod # 0 /\ w.ses.disp = "none"

quietly == UNCHANGED <<outside, part, sent, open, budget>>

say(r) == [w EXCEPT !.pc = "publish", !.part = part, !.report = r,
                    !.activated = w.ses.pod # 0]

LoseIdentity ==
    /\ w.pc = "read" /\ Live /\ identityLost(part)
    /\ w' = rest(w) /\ quietly

\* A second process, or a process whose disposal is recorded.
Leave ==
    /\ w.pc = "read" /\ Live /\ ~identityLost(part)
    /\ (w.ses.disp # "none" \/ foreign(part))
    /\ w' = [rest(w) EXCEPT !.pc = "exit"] /\ quietly

ReportCandidate ==
    /\ Fresh /\ w.ses.pod = 0
    /\ w' = say(report(part, "Inactive", "none")) /\ quietly

\* An unpublished report goes first, before the shutdown is looked at.
RetryReport ==
    /\ Bound /\ w.pend # NoExecution
    /\ w' = say(w.pend) /\ quietly

AwaitShutdownRecord ==
    /\ Bound /\ w.pend = NoExecution /\ w.ses.down = "none" /\ stoppedReason(w.root, part) # "none"
    /\ w' = say(report(part, "Blocked", "none")) /\ quietly

RepeatAcknowledgement ==
    /\ Bound /\ w.pend = NoExecution /\ w.ses.down # "none" /\ w.final # NoExecution
    /\ w' = say(w.final) /\ quietly

Drain ==
    /\ Bound /\ w.pend = NoExecution /\ w.ses.down # "none" /\ w.final = NoExecution
    /\ \E left \in 0..w.open :
         LET r == DrainTo(part, left)
         IN  /\ w' = [say(r) EXCEPT !.open = left,
                        !.final = IF r.phase = "Draining" THEN NoExecution ELSE r]
             /\ open' = [open EXCEPT ![pod.uid] = left]
    /\ UNCHANGED <<outside, part, sent, budget>>

Unhindered ==
    Bound /\ w.pend = NoExecution /\ w.ses.down = "none" /\ stoppedReason(w.root, part) = "none"

\* A role that failed is never stepped again.
RestFailed ==
    /\ Unhindered /\ part.exec.pod = pod.uid /\ part.exec.phase = "Failed"
    /\ w' = [rest(w) EXCEPT !.activated = TRUE] /\ quietly

\* The process identity is persisted before the role may submit.
BindProcess ==
    /\ Unhindered /\ part.exec.pod # pod.uid
    /\ w' = say(report(part, "Inactive", "none")) /\ quietly

BeginStep ==
    /\ Unhindered /\ part.exec.pod = pod.uid /\ part.exec.phase # "Failed"
    /\ w' = [w EXCEPT !.pc = "step", !.part = part, !.activated = TRUE] /\ quietly

\* Role.Step without a submission: pending work may settle, and the pass reports.
stepReport(phase, left) ==
    [pod |-> pod.uid, phase |-> phase, reason |-> "none", gen |-> w.root.gen,
     sent |-> w.sent, open |-> left]

Observe ==
    /\ w.pc = "step" /\ Live
    /\ \E left \in 0..w.open, phase \in {"Active", "Failed"} :
         LET said == stepReport(IF phase = "Failed" THEN "Failed"
                                ELSE IF paused(w.root) THEN "Paused" ELSE "Active", left)
         IN  /\ IF phase = "Failed" THEN Spend("RoleFails") ELSE UNCHANGED budget
             /\ w' = [w EXCEPT !.pc = "publish", !.open = left, !.report = said, !.pend = said]
             /\ open' = [open EXCEPT ![pod.uid] = left]
    /\ UNCHANGED <<outside, part, sent>>

\* Authorize: fresh reads, equal to what the pass was decided on, that allow a submission.
Authorize ==
    /\ w.pc = "step" /\ Live /\ w.open = 0 /\ w.sent < MaxSent
    /\ ~paused(w.root) /\ ~ended(pod) /\ part.there
    /\ root.gen = w.root.gen
    /\ controlAllows(root, ses, part)
    /\ part.exec.pod = pod.uid /\ part.exec.phase # "Failed"
    /\ w' = [w EXCEPT !.pc = "send"]
    /\ UNCHANGED <<outside, part, sent, open, budget>>

\* The only send of the step; its outcome is not known yet.
Submit ==
    /\ w.pc = "send" /\ Live
    /\ LET said == [stepReport("Active", 1) EXCEPT !.sent = w.sent + 1]
       IN  w' = [w EXCEPT !.pc = "publish", !.sent = @ + 1, !.open = 1, !.report = said, !.pend = said]
    /\ sent' = [sent EXCEPT ![pod.uid] = @ + 1]
    /\ open' = [open EXCEPT ![pod.uid] = 1]
    /\ UNCHANGED <<outside, part, budget>>

\* participantstatus.Apply with the resourceVersion that was read: a conflict, an
\* unavailable API, or success.  An unbound candidate of a stopped network then exits, and
\* a process that has just bound itself goes on to its first step.
publish ==
    /\ w.pc = "publish" /\ Live
    /\ LET unused == w.ses.pod = 0 /\ stoppedReason(w.root, w.part) # "none"
           after == IF unused THEN "exit" ELSE "idle"
           binding == w.ses.pod # 0 /\ w.report.phase = "Inactive"
       IN  \/ /\ part = w.part
              /\ part' = [part EXCEPT !.exec = w.report]
              /\ w' = IF binding THEN [w EXCEPT !.pc = "step", !.part = part', !.report = NoExecution]
                      ELSE [rest(w) EXCEPT !.pc = after, !.pend = NoExecution]
              /\ UNCHANGED budget
           \/ /\ part # w.part
              /\ w' = [rest(w) EXCEPT !.pc = after] /\ UNCHANGED <<part, budget>>
           \/ /\ part = w.part /\ Spend("WriteFails")
              /\ w' = [rest(w) EXCEPT !.pc = after] /\ UNCHANGED part
    /\ UNCHANGED <<outside, sent, open>>

-----------------------------------------------------------------------------
Next ==
    \/ EditRoot \/ DeleteParticipant \/ Evict \/ Schedule \/ Exit \/ LoseNode \/ PassDeadline
    \/ GetParticipant \/ GetRoot \/ GetPod \/ AbortController
    \/ DisposeBound \/ ReleaseBound \/ releaseParticipant
    \/ DisposeCandidate \/ removePodFinalizer
    \/ AdoptParticipant \/ CreateCandidate \/ ProvisionCandidate \/ ForgetCandidate
    \/ AggregateReadRoot \/ AggregateReadParticipant \/ AggregateReadPod \/ AggregateWrite
    \/ AbortAggregate
    \/ ReadControl \/ LoseIdentity \/ Leave \/ ReportCandidate \/ RetryReport
    \/ AwaitShutdownRecord \/ RepeatAcknowledgement \/ Drain \/ RestFailed \/ BindProcess
    \/ BeginStep \/ Observe \/ Authorize \/ Submit \/ publish

Spec == Init /\ [][Next]_vars

-----------------------------------------------------------------------------
(* Properties *)

\* A session disposed of as Settled is the truth: its process settled everything it ever
\* submitted, the last report counts exactly that, and it submits nothing more (the
\* acknowledgement of Runtime.Reconcile, taken by ProjectSession).  Unless the ledger says
\* Unsettled, no submission is open or under way once CheckActorStop lets the actors go.
SettledIsFinal ==
    /\ ses.disp = "Settled" =>
        /\ open[ses.pod] = 0
        /\ ses.pod = part.exec.pod => part.exec.sent = sent[ses.pod]
        /\ ~(Live /\ pod.uid = ses.pod /\ w.pc \in {"step", "send"})
    /\ (root.op = "Stopped" \/ root.deleting) /\ CheckActorStop /\ ses.disp # "Unsettled" =>
        (\A u \in Pods : open[u] = 0) /\ ~(w.pc = "send" /\ Live)

\* No process outlives the evidence of its end: neither a session recorded as terminated
\* nor a participant released by the domain's finalizer has a process that can still run.
EndedIsGone ==
    /\ ses.term => ~(Live /\ pod.uid = ses.pod)
    /\ ~part.there => ~Live /\ (pod.uid # 0 => pod.deleting)

\* What the ledger records of a worker's end is the truth: a settled session left nothing
\* open and submits nothing more, a terminated one has no process (workers.go, runtime.go).
WorkerEndTrue == SettledIsFinal /\ EndedIsGone

\* Only the process of the bound Pod ever submits: a candidate that was never bound, or one
\* that lost the race for the session, sends nothing (Runtime.Reconcile, authorizeInvocation).
SubmissionsAuthorised ==
    \A u \in Pods : sent[u] > 0 => ses.pod = u

=============================================================================

------------------------- MODULE StacksWorkerProofs -------------------------
(***************************************************************************)
(* Theorems about StacksWorker, for any number of Pods, submissions and    *)
(* faults.  What a process said last (Quiet), that a Pod is over (Gone)    *)
(* and what is bound stay true once they are, so that they survive in the  *)
(* copies which the aggregate, the controller and the process read earlier *)
(* and act upon later.                                                     *)
(***************************************************************************)
EXTENDS StacksWorker, TLAPS

USE DEF actors, others, outside, quietly

-----------------------------------------------------------------------------
(* The inductive invariant *)

\* The process of Pod u has ended, or will never begin.
Gone(u) ==
    /\ u \in 1..used
    /\ pod.uid = u => pod.proc = "dead" \/ (pod.proc = "pending" /\ pod.deleting)

\* The process of Pod u has said its last word, that everything is settled, and it is so.
Quiet(u) ==
    /\ u \in 1..used /\ open[u] = 0
    /\ part.exec.pod = u => part.exec.sent = sent[u]
    /\ pod.uid = u => pod.proc # "pending" /\ (pod.proc = "live" => w.final # NoExecution)

\* What a session says, now or in an earlier copy of it.
SessionInv(s) ==
    /\ s.pod = 0 => s = NoSession
    /\ s.pod # 0 => s.pod \in 1..used
    /\ s.disp = "Settled" => Quiet(s.pod)
    /\ s.term => Gone(s.pod)

\* A session is bound once, and its shutdown is not taken back.
Follows(s, t) == (s.pod # 0 => t.pod = s.pod) /\ (s.down # "none" => t.down # "none")

PodInv ==
    /\ pod.uid = 0 => pod = NoPod
    /\ pod.uid <= used
    /\ pod.evidence = "known" <=> pod.proc = "dead"
    /\ pod.evidence = "unknown" => pod.proc = "live"
    /\ pod.uid # 0 => part.fin
    /\ ~part.there => ~part.fin

\* Nothing is submitted by a process that did not start, nor by an unbound one.
SentInv ==
    /\ SubmissionsAuthorised
    /\ \A u \in Pods : open[u] <= sent[u]
    /\ \A u \in Pods : u > used \/ (u = pod.uid /\ pod.proc = "pending") => sent[u] = 0

ControllerInv ==
    /\ ctl.pc \in {"decide", "release"} /\ ctl.pod.uid = 0 => pod.uid = 0
    /\ ctl.pc = "release" => ctl.pod.uid = 0
    /\ ctl.pc # "idle" /\ ctl.part.fin => part.fin

AggregateInv ==
    /\ SessionInv(agg.ses) /\ Follows(agg.ses, ses)
    /\ SessionInv(agg.next) /\ (agg.pc = "write" => Follows(agg.ses, agg.next))
    /\ agg.part.exec.phase = "Settled" => Quiet(agg.part.exec.pod)

\* What the running process remembers and is about to say.
ProcessInv ==
    Live =>
        /\ w.sent = sent[pod.uid] /\ w.open = open[pod.uid]
        /\ Follows(w.ses, ses) /\ (w.ses.pod = 0 => w.ses = NoSession)
        /\ w.pend # NoExecution => w.pend.pod = pod.uid /\ w.pend.phase \in {"Active", "Paused", "Failed"}
        /\ w.pc \in {"step", "send"} => /\ w.ses.pod = pod.uid /\ w.ses.down = "none"
                                        /\ w.final = NoExecution
        /\ w.pc = "publish" => /\ w.report.pod = pod.uid
                               /\ w.ses.pod \in {0, pod.uid}
                               /\ w.report.phase = "Settled" => w.report = w.final
                               /\ w.report.phase = "Inactive" => w.ses.down = "none"
        /\ w.final # NoExecution =>
             /\ w.pend = NoExecution /\ ses.down # "none"
             /\ w.final.pod = pod.uid /\ w.final.sent = w.sent
             /\ w.final.phase \in {"Settled", "Unsettled"}
             /\ w.final.phase = "Settled" => w.open = 0
             /\ w.pc \in {"read", "publish"} => w.ses.down # "none"
             /\ w.pc = "publish" => w.report = w.final

WorkerInv ==
    /\ PodInv /\ SentInv /\ ControllerInv /\ AggregateInv /\ ProcessInv
    /\ SessionInv(ses)
    /\ part.exec.phase = "Settled" => Quiet(part.exec.pod)

-----------------------------------------------------------------------------
(* Types *)

LEMMA Constants ==
  /\ NewRoot \in Root /\ NoSession \in Session /\ NewParticipant \in Participant
  /\ NoPod \in Pod /\ NoExecution \in Execution
  BY DEF NewRoot, Root, NoSession, Session, Reasons, NewParticipant, Participant, NoExecution,
         Execution, Phases, NoPod, Pod

LEMMA Idles ==
  NewProcess \in Process /\ IdleController \in Controller /\ IdleAggregate \in Aggregate
  BY Constants DEF NewProcess, Process, IdleController, Controller, IdleAggregate, Aggregate

LEMMA ReasonType ==
  ASSUME NEW r, NEW p PROVE stoppedReason(r, p) \in Reasons
  BY DEF stoppedReason, Reasons

LEMMA SpendType ==
  ASSUME TypeOK, NEW k \in Kinds, Spend(k) PROVE budget' \in [Kinds -> Nat]
  BY DEF TypeOK, Spend

\* Users and faults.
LEMMA FaultType ==
  ASSUME Bounds, TypeOK,
         EditRoot \/ DeleteParticipant \/ Evict \/ Schedule \/ Exit \/ LoseNode \/ PassDeadline
  PROVE  TypeOK'
  <1>0. Kinds = {"Pause", "Stop", "Remove", "Delete", "Evict", "Crash", "NodeLost", "Late",
          "RoleFails", "WriteFails"} BY DEF Kinds
  <1>1. CASE EditRoot
    <2>1. budget' \in [Kinds -> Nat] BY <1>0, <1>1, SpendType DEF EditRoot
    <2>2. root' \in Root
      <3>0. root \in Root /\ root.gen + 1 \in Nat BY DEF TypeOK, Root
      <3>1. CASE root' = [root EXCEPT !.op = IF @ = "Running" THEN "Paused" ELSE "Running",
                                      !.gen = @ + 1]
        BY <3>0, <3>1 DEF Root
      <3>2. CASE root' = [root EXCEPT !.op = "Stopped", !.gen = @ + 1] BY <3>0, <3>2 DEF Root
      <3>3. CASE root' = [root EXCEPT !.listed = FALSE, !.gen = @ + 1] BY <3>0, <3>3 DEF Root
      <3>4. CASE root' = [root EXCEPT !.deleting = TRUE, !.gen = @ + 1] BY <3>0, <3>4 DEF Root
      <3> QED BY <1>1, <3>1, <3>2, <3>3, <3>4 DEF EditRoot
    <2> QED BY <1>1, <2>1, <2>2 DEF EditRoot, TypeOK
  <1>2. CASE DeleteParticipant
    <2>1. part' \in Participant BY <1>2 DEF DeleteParticipant, TypeOK, Participant
    <2> QED BY <1>2, <2>1 DEF DeleteParticipant, TypeOK
  <1>3. CASE Evict
    <2>1. budget' \in [Kinds -> Nat] BY <1>0, <1>3, SpendType DEF Evict
    <2>2. pod' \in Pod BY <1>3, Constants DEF Evict, TypeOK, Pod
    <2> QED BY <1>3, <2>1, <2>2 DEF Evict, TypeOK
  <1>4. CASE Schedule
    <2>2. pod' \in Pod BY <1>4 DEF Schedule, TypeOK, Pod
    <2> QED BY <1>4, <2>2, Idles DEF Schedule, TypeOK
  <1>5. CASE Exit
    <2>1. budget' \in [Kinds -> Nat] BY <1>0, <1>5, SpendType DEF Exit, TypeOK
    <2>2. pod' \in Pod BY <1>5 DEF Exit, TypeOK, Pod
    <2> QED BY <1>5, <2>1, <2>2, Idles DEF Exit, TypeOK
  <1>6. CASE LoseNode
    <2>1. budget' \in [Kinds -> Nat] BY <1>0, <1>6, SpendType DEF LoseNode
    <2>2. pod' \in Pod BY <1>6 DEF LoseNode, TypeOK, Pod
    <2> QED BY <1>6, <2>1, <2>2 DEF LoseNode, TypeOK
  <1>7. CASE PassDeadline
    <2>1. budget' \in [Kinds -> Nat] BY <1>0, <1>7, SpendType DEF PassDeadline
    <2> QED BY <1>7, <2>1 DEF PassDeadline, TypeOK
  <1> QED BY <1>1, <1>2, <1>3, <1>4, <1>5, <1>6, <1>7

\* Steps of the domain controller.
Controls ==
    \/ GetParticipant \/ GetRoot \/ GetPod \/ AbortController
    \/ DisposeBound \/ ReleaseBound \/ releaseParticipant
    \/ DisposeCandidate \/ removePodFinalizer
    \/ AdoptParticipant \/ CreateCandidate \/ ProvisionCandidate \/ ForgetCandidate

LEMMA DeletedPodType ==
  ASSUME TypeOK, NEW x PROVE deletedPod(x) \in Pod
  BY Constants DEF deletedPod, TypeOK, Pod

LEMMA ControlsType ==
  ASSUME Bounds, TypeOK, Controls PROVE TypeOK'
  <1>1. ASSUME part' \in Participant, pod' \in Pod, ctl' \in Controller, used' \in 0..MaxPods,
               UNCHANGED actors
        PROVE  TypeOK'
    BY <1>1 DEF TypeOK
  <1>p. ASSUME NEW b \in BOOLEAN, NEW d \in BOOLEAN, NEW u \in Pods \cup {0}
        PROVE  /\ [part EXCEPT !.fin = b] \in Participant
               /\ [part EXCEPT !.fin = b, !.there = d] \in Participant
               /\ [part EXCEPT !.cand = u] \in Participant
    BY DEF TypeOK, Participant
  <1>c. ASSUME NEW pc \in {"idle", "root", "pod", "decide", "adopt", "unbind", "unfinal", "release"},
               NEW p \in Participant
        PROVE  [ctl EXCEPT !.pc = pc] \in Controller /\ [ctl EXCEPT !.part = p] \in Controller
    BY DEF TypeOK, Controller
  <1>t. root \in Root /\ ses \in Session /\ part \in Participant /\ pod \in Pod /\ ctl \in Controller
        /\ used \in 0..MaxPods /\ ctl.pod \in Pod /\ ctl.pod.uid \in Pods \cup {0}
        /\ part.deleting \in BOOLEAN
    BY DEF TypeOK, Controller, Pod, Participant
  <1>2. CASE GetParticipant \/ GetRoot \/ GetPod \/ AbortController \/ ReleaseBound
    <2>1. UNCHANGED <<actors, used, part, pod>>
      BY <1>2 DEF GetParticipant, GetRoot, GetPod, AbortController, ReleaseBound
    <2>2. ctl' \in Controller
      <3>1. CASE GetParticipant BY <1>t, <3>1, Idles DEF GetParticipant, Controller
      <3>2. CASE GetRoot BY <1>t, <3>2 DEF GetRoot, Controller
      <3>3. CASE GetPod BY <1>t, <3>3 DEF GetPod, Controller
      <3>4. CASE AbortController BY <3>4, Idles DEF AbortController
      <3>5. CASE ReleaseBound BY <1>t, <3>5 DEF ReleaseBound, Controller
      <3> QED BY <1>2, <3>1, <3>2, <3>3, <3>4, <3>5
    <2> QED BY <1>1, <1>t, <2>1, <2>2
  <1>3. CASE DisposeBound \/ DisposeCandidate \/ removePodFinalizer
    <2>1. UNCHANGED <<actors, used, part>>
      BY <1>3 DEF DisposeBound, DisposeCandidate, removePodFinalizer
    <2>2. ctl' \in Controller
      BY <1>3, <1>c, <1>t, Idles DEF DisposeBound, DisposeCandidate, removePodFinalizer
    <2>3. pod' \in Pod
      <3>1. [pod EXCEPT !.fin = FALSE] \in Pod BY <1>t DEF Pod
      <3> QED BY <1>3, <1>t, <3>1, DeletedPodType, Constants
              DEF DisposeBound, DisposeCandidate, removePodFinalizer
    <2> QED BY <1>1, <1>t, <2>1, <2>2, <2>3
  <1>4. CASE releaseParticipant \/ AdoptParticipant \/ ForgetCandidate
    <2>1. UNCHANGED <<actors, used, pod>>
      BY <1>4 DEF releaseParticipant, AdoptParticipant, ForgetCandidate
    <2>2. part' \in Participant
      BY <1>4, <1>p, <1>t DEF releaseParticipant, AdoptParticipant, ForgetCandidate
    <2>3. ctl' \in Controller
      BY <1>4, <1>c, <1>t, <2>2, Idles DEF releaseParticipant, AdoptParticipant, ForgetCandidate
    <2> QED BY <1>1, <1>t, <2>1, <2>2, <2>3
  <1>5. CASE CreateCandidate
    <2>1. UNCHANGED <<actors, part>> BY <1>5 DEF CreateCandidate
    <2>2. used' \in 0..MaxPods BY <1>5, <1>t DEF CreateCandidate, Bounds
    <2>3. pod' \in Pod
      <3>1. used' # used => used' \in Pods BY <1>5, <1>t DEF CreateCandidate, Bounds, Pods
      <3>2. \A u \in Pods : [NoPod EXCEPT !.uid = u, !.fin = TRUE] \in Pod BY Constants DEF Pod
      <3>3. pod' = pod \/ (used' # used /\ pod' = [NoPod EXCEPT !.uid = used', !.fin = TRUE])
        BY <1>5, <1>t DEF CreateCandidate
      <3> QED BY <1>t, <3>1, <3>2, <3>3
    <2>4. ctl' \in Controller
      <3>1. ctl' = [ctl EXCEPT !.pod = pod', !.pc = "adopt"] BY <1>5 DEF CreateCandidate
      <3> QED BY <1>t, <2>3, <3>1 DEF Controller
    <2> QED BY <1>1, <1>t, <2>1, <2>2, <2>3, <2>4
  <1>6. CASE ProvisionCandidate
    <2>1. UNCHANGED <<actors, used>> BY <1>6 DEF ProvisionCandidate
    <2>2. part' \in Participant BY <1>6, <1>p, <1>t DEF ProvisionCandidate
    <2>3. pod' \in Pod BY <1>6, <1>t, DeletedPodType, Constants DEF ProvisionCandidate
    <2>4. ctl' \in Controller
      <3>1. ctl' = IdleController \/ ctl' = [ctl EXCEPT !.pc = "unbind"]
        BY <1>6 DEF ProvisionCandidate
      <3> QED BY <1>t, <3>1, Idles DEF Controller
    <2> QED BY <1>1, <1>t, <2>1, <2>2, <2>3, <2>4
  <1> QED BY <1>2, <1>3, <1>4, <1>5, <1>6 DEF Controls

\* Steps of the aggregate.
Aggregates ==
    \/ AggregateReadRoot \/ AggregateReadParticipant \/ AggregateReadPod \/ AggregateWrite
    \/ AbortAggregate

\* What a projection makes of a session.
LEMMA ProjectType ==
  ASSUME NEW r \in Root, NEW s \in Session, NEW p \in Participant, NEW x \in Pod
  PROVE  ProjectSession(r, s, p, x).next \in Session /\ ProjectSession(r, s, p, x).fail \in BOOLEAN
  <1>0. /\ s.term \in BOOLEAN /\ r.gen \in Nat /\ x.uid \in Pods \cup {0} /\ p.exec \in Execution
        /\ Terminated(x) \in BOOLEAN
    BY DEF Session, Root, Pod, Participant, Terminated
  <1>1. shutdown(s, r, p) \in Session BY <1>0, ReasonType DEF shutdown, Session
  <1>2. ASSUME NEW t \in Session, NEW o \in {"Settled", "Unsettled"}
        PROVE  disposed(t, o, x) \in Session
    BY <1>0 DEF disposed, Session
  <1>3. projectUnbound(r, s, p, x).next \in Session /\ projectUnbound(r, s, p, x).fail \in BOOLEAN
    BY <1>0 DEF projectUnbound, Session
  <1>4. projectDisposed(s, x).next \in Session /\ projectDisposed(s, x).fail \in BOOLEAN
    BY <1>0 DEF projectDisposed, Session
  <1>5. projectRunning(r, s, p, x).next \in Session /\ projectRunning(r, s, p, x).fail \in BOOLEAN
    BY <1>1, <1>2 DEF projectRunning
  <1>6. projectDraining(s, p, x).next \in Session /\ projectDraining(s, p, x).fail \in BOOLEAN
    <2>1. acknowledges(p.exec, s) => outcome(p.exec) \in {"Settled", "Unsettled"}
      BY DEF acknowledges, outcome
    <2> QED BY <1>2, <2>1 DEF projectDraining
  <1> QED BY <1>3, <1>4, <1>5, <1>6 DEF ProjectSession

LEMMA AggregatesType ==
  ASSUME Bounds, TypeOK, Aggregates PROVE TypeOK'
  <1>t. root \in Root /\ ses \in Session /\ part \in Participant /\ pod \in Pod /\ agg \in Aggregate
        /\ agg.root \in Root /\ agg.ses \in Session /\ agg.part \in Participant /\ agg.next \in Session
        /\ agg.fail \in BOOLEAN
    BY DEF TypeOK, Aggregate
  <1>1. ASSUME root' \in Root, ses' \in Session, agg' \in Aggregate, UNCHANGED others, UNCHANGED late
        PROVE  TypeOK'
    BY <1>1 DEF TypeOK
  <1>2. CASE AggregateReadRoot \/ AggregateReadParticipant \/ AbortAggregate
    <2>1. CASE AggregateReadRoot
      <3>1. agg' \in Aggregate BY <1>t, <2>1, Idles DEF AggregateReadRoot, Aggregate
      <3> QED BY <1>t, <1>1, <2>1, <3>1 DEF AggregateReadRoot
    <2>2. CASE AggregateReadParticipant
      <3>1. agg' \in Aggregate BY <1>t, <2>2, Idles DEF AggregateReadParticipant, Aggregate
      <3> QED BY <1>t, <1>1, <2>2, <3>1 DEF AggregateReadParticipant
    <2>3. CASE AbortAggregate BY <1>t, <1>1, <2>3, Idles DEF AbortAggregate
    <2> QED BY <1>2, <2>1, <2>2, <2>3
  <1>3. CASE AggregateReadPod
    <2> DEFINE fact == ProjectSession(agg.root, agg.ses, agg.part, pod)
    <2>1. fact.next \in Session /\ fact.fail \in BOOLEAN BY <1>t, ProjectType
    <2>2. agg' = IdleAggregate \/ agg' = [agg EXCEPT !.pc = "write", !.next = fact.next, !.fail = fact.fail,
                                   !.part = NewParticipant]
      BY <1>3 DEF AggregateReadPod
    <2> HIDE DEF fact
    <2>3. agg' \in Aggregate BY <1>t, <2>1, <2>2, Idles, Constants DEF Aggregate
    <2> QED BY <1>t, <1>1, <1>3, <2>3 DEF AggregateReadPod
  <1>4. CASE AggregateWrite
    <2>1. root' \in Root BY <1>t, <1>4 DEF AggregateWrite, Root
    <2> QED BY <1>t, <1>1, <1>4, <2>1, Idles DEF AggregateWrite
  <1> QED BY <1>2, <1>3, <1>4 DEF Aggregates

\* Steps of the process.
Runs ==
    \/ ReadControl \/ LoseIdentity \/ Leave \/ ReportCandidate \/ RetryReport
    \/ AwaitShutdownRecord \/ RepeatAcknowledgement \/ Drain \/ RestFailed \/ BindProcess
    \/ BeginStep \/ Observe \/ Authorize \/ Submit \/ publish

LEMMA ReportType ==
  ASSUME TypeOK, NEW phase \in Phases, Live
  PROVE  report(part, phase, "none") \in Execution
  <1>1. w.pend \in Execution /\ part.exec \in Execution /\ w.root.gen \in Nat /\ pod.uid \in Pods
    BY DEF TypeOK, Process, Participant, Root, Live, Pod
  <1>2. carried(part) \in Execution BY <1>1, Constants DEF carried
  <1> QED BY <1>1, <1>2 DEF report, Execution, Reasons

LEMMA SayType ==
  ASSUME TypeOK, NEW r \in Execution PROVE say(r) \in Process
  BY DEF TypeOK, say, Process

LEMMA RestType ==
  ASSUME TypeOK
  PROVE  /\ rest(w) \in Process
         /\ [rest(w) EXCEPT !.pc = "exit"] \in Process
         /\ [rest(w) EXCEPT !.activated = TRUE] \in Process
         /\ \A pc \in {"exit", "idle"} : /\ [rest(w) EXCEPT !.pc = pc] \in Process
                                         /\ [rest(w) EXCEPT !.pc = pc, !.pend = NoExecution] \in Process
  BY Constants DEF TypeOK, rest, Process

LEMMA RunsType ==
  ASSUME Bounds, TypeOK, Runs PROVE TypeOK'
  <1>t. /\ w \in Process /\ root \in Root /\ ses \in Session /\ part \in Participant /\ pod \in Pod
        /\ w.sent \in Nat /\ w.open \in Nat /\ w.pend \in Execution /\ w.final \in Execution
        /\ w.report \in Execution /\ w.root.gen \in Nat /\ w.ses.gen \in Nat /\ w.ses.down \in Reasons
    BY DEF TypeOK, Process, Root, Session
  <1>l. Live => pod.uid \in Pods BY DEF TypeOK, Live, Pod
  <1>1. ASSUME w' \in Process, part' \in Participant, sent' \in [Pods -> Nat], open' \in [Pods -> Nat],
               budget' \in [Kinds -> Nat], UNCHANGED outside
        PROVE  TypeOK'
    BY <1>1 DEF TypeOK
  <1>2. ASSUME w' \in Process, quietly PROVE TypeOK' BY <1>1, <1>2 DEF TypeOK
  <1>3. CASE ReadControl
    <2>1. w' \in Process BY <1>t, <1>3 DEF ReadControl, Process
    <2> QED BY <1>2, <1>3, <2>1 DEF ReadControl
  <1>4. CASE LoseIdentity \/ Leave \/ RestFailed
    BY <1>2, <1>4, RestType DEF LoseIdentity, Leave, RestFailed
  <1>5. CASE ReportCandidate \/ AwaitShutdownRecord \/ BindProcess
    <2>1. Live /\ {"Inactive", "Blocked"} \subseteq Phases
      BY <1>5 DEF ReportCandidate, AwaitShutdownRecord, BindProcess, Unhindered, Bound, Fresh, Phases
    <2> QED BY <1>2, <1>5, <2>1, ReportType, SayType DEF ReportCandidate, AwaitShutdownRecord, BindProcess
  <1>6. CASE RetryReport \/ RepeatAcknowledgement
    BY <1>2, <1>6, <1>t, SayType DEF RetryReport, RepeatAcknowledgement
  <1>7. CASE Drain
    <2>1. PICK left \in 0..w.open :
             /\ w' = [say(DrainTo(part, left)) EXCEPT !.open = left,
                        !.final = IF DrainTo(part, left).phase = "Draining" THEN NoExecution
                                  ELSE DrainTo(part, left)]
             /\ open' = [open EXCEPT ![pod.uid] = left]
      BY <1>7 DEF Drain
    <2>2. Live BY <1>7 DEF Drain, Bound, Fresh
    <2>3. left \in Nat BY <1>t
    <2>4. DrainTo(part, left) \in Execution
      BY <1>t, <1>l, <2>2, <2>3 DEF DrainTo, Execution, Phases
    <2>5. w' \in Process
      <3>1. PICK f \in Execution : w' = [say(DrainTo(part, left)) EXCEPT !.open = left, !.final = f]
        BY <2>1, <2>4, Constants
      <3>2. say(DrainTo(part, left)) \in Process BY <2>4, SayType
      <3> QED BY <2>3, <3>1, <3>2 DEF Process
    <2>6. open' \in [Pods -> Nat] BY <2>1, <2>3 DEF TypeOK
    <2> QED BY <1>1, <1>7, <2>5, <2>6 DEF Drain, TypeOK
  <1>8. CASE BeginStep \/ Authorize
    <2>1. w' \in Process BY <1>t, <1>8 DEF BeginStep, Authorize, Process
    <2> QED BY <1>2, <1>8, <2>1 DEF BeginStep, Authorize
  <1>9. CASE Observe
    <2>1. PICK left \in 0..w.open, phase \in {"Active", "Failed", "Paused"} :
             /\ w' = [w EXCEPT !.pc = "publish", !.open = left, !.report = stepReport(phase, left),
                              !.pend = stepReport(phase, left)]
             /\ open' = [open EXCEPT ![pod.uid] = left]
      BY <1>9 DEF Observe
    <2>2. Live BY <1>9 DEF Observe
    <2>3. left \in Nat BY <1>t
    <2>4. stepReport(phase, left) \in Execution
      BY <1>t, <1>l, <2>2, <2>3 DEF stepReport, Execution, Phases, Reasons
    <2>5. w' \in Process BY <1>t, <2>1, <2>3, <2>4 DEF Process
    <2>6. open' \in [Pods -> Nat] BY <2>1, <2>3 DEF TypeOK
    <2>7. budget' \in [Kinds -> Nat] BY <1>9, SpendType DEF Observe, TypeOK, Kinds
    <2> QED BY <1>1, <1>9, <2>5, <2>6, <2>7 DEF Observe, TypeOK
  <1>10. CASE Submit
    <2> DEFINE said == [stepReport("Active", 1) EXCEPT !.sent = w.sent + 1]
    <2>2. Live BY <1>10 DEF Submit
    <2>3. said \in Execution
      BY <1>t, <1>l, <2>2 DEF stepReport, Execution, Phases, Reasons
    <2> HIDE DEF said
    <2>4. w' = [w EXCEPT !.pc = "publish", !.sent = @ + 1, !.open = 1, !.report = said, !.pend = said]
      BY <1>10 DEF Submit, said
    <2>5. w' \in Process
      <3>1. w.sent + 1 \in Nat BY <1>t
      <3> QED BY <1>t, <2>3, <2>4, <3>1 DEF Process
    <2>6. open' \in [Pods -> Nat] /\ sent' \in [Pods -> Nat]
      <3>1. open' = [open EXCEPT ![pod.uid] = 1] /\ sent' = [sent EXCEPT ![pod.uid] = @ + 1]
        BY <1>10 DEF Submit
      <3>2. sent[pod.uid] + 1 \in Nat BY <1>l, <2>2 DEF TypeOK
      <3> QED BY <3>1, <3>2 DEF TypeOK
    <2> QED BY <1>1, <1>10, <2>5, <2>6 DEF Submit, TypeOK
  <1>11. CASE publish
    <2>1. part' = part \/ part' = [part EXCEPT !.exec = w.report] BY <1>11 DEF publish
    <2>2. part' \in Participant BY <1>t, <2>1 DEF Participant
    <2>3. budget' \in [Kinds -> Nat] BY <1>11, SpendType DEF publish, TypeOK, Kinds
    <2>4. \/ w' = [w EXCEPT !.pc = "step", !.part = part', !.report = NoExecution]
          \/ \E pc \in {"exit", "idle"} : \/ w' = [rest(w) EXCEPT !.pc = pc]
                                          \/ w' = [rest(w) EXCEPT !.pc = pc, !.pend = NoExecution]
      BY <1>11 DEF publish
    <2>5. w' \in Process
      <3>1. CASE w' = [w EXCEPT !.pc = "step", !.part = part', !.report = NoExecution]
        BY <1>t, <2>2, <3>1, Constants DEF Process
      <3> QED BY <2>4, <3>1, RestType
    <2> QED BY <1>1, <1>11, <2>2, <2>3, <2>5 DEF publish, TypeOK
  <1> QED BY <1>3, <1>4, <1>5, <1>6, <1>7, <1>8, <1>9, <1>10, <1>11 DEF Runs

LEMMA TypeStep ==
  ASSUME Bounds, TypeOK, [Next]_vars PROVE TypeOK'
  <1>1. CASE UNCHANGED vars BY <1>1 DEF vars, TypeOK
  <1> QED BY <1>1, FaultType, ControlsType, AggregatesType, RunsType
          DEF Next, Controls, Aggregates, Runs

-----------------------------------------------------------------------------
(* What stays true *)

\* Last words stay said, and Pods that are over stay over.
Keeps ==
    /\ used <= used'
    /\ \A u \in 1..used : (Quiet(u) => Quiet(u)') /\ (Gone(u) => Gone(u)')

LEMMA SessionKept ==
  ASSUME TypeOK, TypeOK', Keeps, NEW s \in Session, SessionInv(s) PROVE SessionInv(s)'
  <1>1. used \in Nat /\ used' \in Nat /\ used <= used' BY DEF TypeOK, Keeps
  <1>2. s.pod # 0 => s.pod \in 1..used' BY <1>1 DEF SessionInv
  <1>3. s.disp = "Settled" => Quiet(s.pod)'
    BY DEF SessionInv, Keeps, Quiet
  <1>4. s.term => Gone(s.pod)' BY DEF SessionInv, Keeps, Gone
  <1> QED BY <1>2, <1>3, <1>4 DEF SessionInv

\* What an earlier copy of the session follows, it goes on to follow.
LEMMA FollowsOn ==
  ASSUME NEW s, NEW t, NEW v, Follows(s, t), Follows(t, v) PROVE Follows(s, v)
  BY DEF Follows

LEMMA AggregateKept ==
  ASSUME TypeOK, TypeOK', Keeps, AggregateInv, UNCHANGED agg, Follows(ses, ses') PROVE AggregateInv'
  <1>1. agg.ses \in Session /\ agg.next \in Session BY DEF TypeOK, Aggregate
  <1>2. SessionInv(agg.ses)' /\ SessionInv(agg.next)'
    <2>1. SessionInv(agg.ses) /\ SessionInv(agg.next) BY DEF AggregateInv
    <2> DEFINE s == agg.ses  t == agg.next
    <2>2. ASSUME NEW c \in Session, SessionInv(c) PROVE SessionInv(c)' BY <2>2, SessionKept
    <2>3. PICK c \in Session : c = agg.ses BY <1>1
    <2>4. PICK d \in Session : d = agg.next BY <1>1
    <2>5. SessionInv(c)' /\ SessionInv(d)' BY <2>1, <2>2, <2>3, <2>4
    <2>6. c = agg'.ses /\ d = agg'.next BY <2>3, <2>4
    <2> QED BY <2>5, <2>6 DEF SessionInv, Quiet, Gone
  <1>3. Follows(agg.ses, ses)' BY FollowsOn DEF AggregateInv
  <1>4. agg.part.exec.phase = "Settled" => Quiet(agg.part.exec.pod)'
    BY DEF AggregateInv, Keeps, Quiet
  <1> QED BY <1>2, <1>3, <1>4 DEF AggregateInv

\* A Pod goes, is made, ends, starts, or is marked for deletion.
PodStep ==
    \/ pod'.uid = 0 /\ used' = used
    \/ pod'.uid = used + 1 /\ used' = used + 1 /\ pod'.proc = "pending"
    \/ /\ pod'.uid = pod.uid /\ used' = used /\ pod'.proc = pod.proc
       /\ (pod.deleting => pod'.deleting) /\ w' = w
    \/ pod'.uid = pod.uid /\ used' = used /\ pod'.proc = "dead"
    \/ /\ pod'.uid = pod.uid /\ used' = used /\ pod.proc = "pending" /\ ~pod.deleting
       /\ pod'.proc = "live" /\ w' = NewProcess

LEMMA PodStepKeeps ==
  ASSUME TypeOK, TypeOK', PodStep, UNCHANGED <<sent, open>>, part'.exec = part.exec
  PROVE  Keeps
  <1>1. used \in Nat /\ used' \in Nat /\ used <= used' BY DEF TypeOK, PodStep
  <1>2. ASSUME NEW u \in 1..used, Quiet(u) PROVE Quiet(u)'
    <2>1. u \in 1..used' /\ u # 0 /\ u # used + 1 BY <1>1
    <2> QED BY <1>2, <2>1 DEF Quiet, PodStep
  <1>3. ASSUME NEW u \in 1..used, Gone(u) PROVE Gone(u)'
    <2>1. u \in 1..used' /\ u # 0 /\ u # used + 1 BY <1>1
    <2> QED BY <1>3, <2>1 DEF Gone, PodStep
  <1> QED BY <1>1, <1>2, <1>3 DEF Keeps

\* Steps of users, faults and the domain controller.
LEMMA PodStepInv ==
  ASSUME Bounds, TypeOK, TypeOK', WorkerInv, PodStep, UNCHANGED <<ses, agg, sent, open>>,
         part'.exec = part.exec, PodInv', ControllerInv'
  PROVE  WorkerInv'
  <1>1. Keeps BY PodStepKeeps
  <1>2. Follows(ses, ses') BY DEF Follows
  <1>3. AggregateInv' BY <1>1, <1>2, AggregateKept DEF WorkerInv
  <1>4. SessionInv(ses)'
    <2>1. PICK c \in Session : c = ses BY DEF TypeOK
    <2>2. SessionInv(c)' BY <1>1, <2>1, SessionKept DEF WorkerInv
    <2> QED BY <2>1, <2>2 DEF SessionInv, Quiet, Gone
  <1>5. part'.exec.phase = "Settled" => Quiet(part.exec.pod)'
    <2>1. part.exec.phase = "Settled" => Quiet(part.exec.pod) /\ part.exec.pod \in 1..used
      BY DEF WorkerInv, Quiet
    <2> QED BY <1>1, <2>1 DEF Keeps, Quiet
  <1>6. SentInv'
    <2>1. SubmissionsAuthorised' BY DEF WorkerInv, SentInv, SubmissionsAuthorised
    <2>2. \A u \in Pods : u > used' \/ (u = pod'.uid /\ pod'.proc = "pending") => sent[u] = 0
      <3> SUFFICES ASSUME NEW u \in Pods, u > used' \/ (u = pod'.uid /\ pod'.proc = "pending")
                   PROVE  sent[u] = 0
        OBVIOUS
      <3>1. u \in Nat /\ u # 0 /\ used \in Nat BY DEF Pods, TypeOK, Bounds
      <3>2. u > used \/ (u = pod.uid /\ pod.proc = "pending") BY <3>1 DEF PodStep
      <3> QED BY <3>2 DEF WorkerInv, SentInv
    <2> QED BY <2>1, <2>2 DEF WorkerInv, SentInv
  <1>7. ProcessInv'
    <2> SUFFICES ASSUME Live' PROVE ProcessInv' BY DEF ProcessInv
    <2>1. pod'.uid = pod.uid /\ pod.uid # 0 /\ pod'.proc = "live" BY DEF Live, PodStep, TypeOK
    <2>2. CASE Live /\ w' = w
      BY <2>1, <2>2, FollowsOn, <1>2 DEF WorkerInv, ProcessInv
    <2>3. CASE pod.proc = "pending" /\ w' = NewProcess
      <3>1. pod.uid \in Pods BY <2>1 DEF TypeOK, Pod
      <3>2. sent[pod.uid] = 0 /\ open[pod.uid] = 0
        <4>1. sent[pod.uid] = 0 BY <2>3, <3>1 DEF WorkerInv, SentInv
        <4>2. open[pod.uid] \in Nat /\ open[pod.uid] <= sent[pod.uid]
          BY <3>1 DEF WorkerInv, SentInv, TypeOK
        <4> QED BY <4>1, <4>2
      <3> QED BY <2>1, <2>3, <3>2 DEF ProcessInv, NewProcess, NoSession, Follows
    <2> QED BY <2>1, <2>2, <2>3 DEF PodStep, Live
  <1> QED BY <1>3, <1>4, <1>5, <1>6, <1>7 DEF WorkerInv

LEMMA FaultInv ==
  ASSUME Bounds, TypeOK, TypeOK', WorkerInv,
         EditRoot \/ DeleteParticipant \/ Evict \/ Schedule \/ Exit \/ LoseNode \/ PassDeadline
  PROVE  WorkerInv'
  <1>t. /\ pod \in Pod /\ part \in Participant /\ used \in Nat
        /\ PodInv /\ ControllerInv
    BY DEF TypeOK, WorkerInv
  <1>1. CASE EditRoot \/ PassDeadline
    <2>1. UNCHANGED <<ses, part, pod, w, ctl, agg, used, sent, open>>
      BY <1>1 DEF EditRoot, PassDeadline
    <2>2. PodStep BY <2>1 DEF PodStep
    <2>3. PodInv' /\ ControllerInv' BY <1>t, <2>1 DEF PodInv, ControllerInv
    <2> QED BY <2>1, <2>2, <2>3, PodStepInv
  <1>2. CASE DeleteParticipant
    <2>1. UNCHANGED <<ses, pod, w, ctl, agg, used, sent, open>>
          /\ part' = [part EXCEPT !.deleting = TRUE, !.there = part.fin]
      BY <1>2 DEF DeleteParticipant
    <2>2. part'.exec = part.exec /\ part'.fin = part.fin /\ part'.there = part.fin
      BY <1>t, <2>1 DEF Participant
    <2>3. PodStep BY <2>1 DEF PodStep
    <2>4. PodInv' /\ ControllerInv' BY <1>t, <2>1, <2>2 DEF PodInv, ControllerInv
    <2> QED BY <2>1, <2>2, <2>3, <2>4, PodStepInv
  <1>3. CASE Evict
    <2>1. /\ UNCHANGED <<ses, part, w, ctl, agg, used, sent, open>>
          /\ pod.uid # 0 /\ pod' = IF pod.fin THEN [pod EXCEPT !.deleting = TRUE] ELSE NoPod
      BY <1>3 DEF Evict
    <2>2. PodStep BY <1>t, <2>1 DEF PodStep, Pod, NoPod
    <2>3. PodInv' BY <1>t, <2>1 DEF PodInv, Pod, NoPod
    <2>4. ControllerInv' BY <1>t, <2>1 DEF ControllerInv, Pod, NoPod
    <2> QED BY <2>1, <2>2, <2>3, <2>4, PodStepInv
  <1>4. CASE Schedule
    <2>1. /\ UNCHANGED <<ses, part, ctl, agg, used, sent, open>>
          /\ pod.uid # 0 /\ pod.proc = "pending" /\ ~pod.deleting /\ w' = NewProcess
          /\ pod' = [pod EXCEPT !.proc = "live"]
      BY <1>4 DEF Schedule
    <2>2. PodStep BY <1>t, <2>1 DEF PodStep, Pod
    <2>3. PodInv' BY <1>t, <2>1 DEF PodInv, Pod
    <2>4. ControllerInv' BY <1>t, <2>1 DEF ControllerInv, Pod
    <2> QED BY <2>1, <2>2, <2>3, <2>4, PodStepInv
  <1>5. CASE Exit
    <2>1. /\ UNCHANGED <<ses, part, ctl, agg, used, sent, open>> /\ pod.uid # 0
          /\ pod' = [pod EXCEPT !.proc = "dead", !.evidence = "known"]
      BY <1>5 DEF Exit, Live
    <2>2. PodStep BY <1>t, <2>1 DEF PodStep, Pod
    <2>3. PodInv' BY <1>t, <2>1 DEF PodInv, Pod
    <2>4. ControllerInv' BY <1>t, <2>1 DEF ControllerInv, Pod
    <2> QED BY <2>1, <2>2, <2>3, <2>4, PodStepInv
  <1>6. CASE LoseNode
    <2>1. /\ UNCHANGED <<ses, part, w, ctl, agg, used, sent, open>> /\ pod.uid # 0
          /\ pod.proc = "live" /\ pod' = [pod EXCEPT !.evidence = "unknown"]
      BY <1>6 DEF LoseNode
    <2>2. PodStep BY <1>t, <2>1 DEF PodStep, Pod
    <2>3. PodInv' BY <1>t, <2>1 DEF PodInv, Pod
    <2>4. ControllerInv' BY <1>t, <2>1 DEF ControllerInv, Pod
    <2> QED BY <2>1, <2>2, <2>3, <2>4, PodStepInv
  <1> QED BY <1>1, <1>2, <1>3, <1>4, <1>5, <1>6

\* A delete request leaves the Pod, marks it, or removes it.
LEMMA DeletedPod ==
  ASSUME TypeOK, PodInv, NEW x, pod' = deletedPod(x)
  PROVE  pod' = pod \/ pod' = NoPod \/ (pod.uid # 0 /\ pod' = [pod EXCEPT !.deleting = TRUE])
  BY DEF deletedPod, PodInv, NoPod

\* The controller only marks Pods, removes them, and creates one where there is none.
LEMMA ControlsPod ==
  ASSUME TypeOK, PodInv, UNCHANGED <<w, used>>,
         \/ pod' = pod \/ pod' = NoPod
         \/ pod.uid # 0 /\ pod' = [pod EXCEPT !.deleting = TRUE]
         \/ pod.uid # 0 /\ pod' = [pod EXCEPT !.fin = FALSE],
         part'.fin = part.fin, part'.there = part.there
  PROVE  PodStep /\ PodInv' /\ (pod.uid = 0 => pod'.uid = 0)
  <1>1. pod \in Pod /\ used \in Nat BY DEF TypeOK
  <1>2. CASE pod' = pod BY <1>1, <1>2 DEF PodStep, PodInv
  <1>3. CASE pod' = NoPod BY <1>1, <1>3 DEF PodStep, PodInv, NoPod
  <1>4. CASE pod' = [pod EXCEPT !.deleting = TRUE] /\ pod.uid # 0
    BY <1>1, <1>4 DEF PodStep, PodInv, Pod
  <1>5. CASE pod' = [pod EXCEPT !.fin = FALSE] /\ pod.uid # 0
    BY <1>1, <1>5 DEF PodStep, PodInv, Pod
  <1> QED BY <1>2, <1>3, <1>4, <1>5

LEMMA ControlsInv ==
  ASSUME Bounds, TypeOK, TypeOK', WorkerInv, Controls PROVE WorkerInv'
  <1>t. /\ pod \in Pod /\ part \in Participant /\ used \in Nat /\ ctl \in Controller
        /\ ctl.pod \in Pod /\ ctl.part \in Participant
        /\ PodInv /\ ControllerInv
    BY DEF TypeOK, WorkerInv, Controller
  <1>u. UNCHANGED <<ses, w, agg, sent, open>>
    BY DEF Controls, GetParticipant, GetRoot, GetPod, AbortController, DisposeBound, ReleaseBound,
           releaseParticipant, DisposeCandidate, removePodFinalizer, AdoptParticipant,
           CreateCandidate, ProvisionCandidate, ForgetCandidate
  <1>i. IdleController.pc = "idle" BY DEF IdleController
  <1>1. CASE GetParticipant \/ GetRoot \/ GetPod \/ AbortController \/ ReleaseBound
    <2>1. UNCHANGED <<used, part, pod>>
      BY <1>1 DEF GetParticipant, GetRoot, GetPod, AbortController, ReleaseBound
    <2>2. ControllerInv'
      <3>1. CASE GetParticipant
        BY <1>t, <2>1, <3>1, Idles DEF GetParticipant, ControllerInv, Controller
      <3>2. CASE GetRoot BY <1>t, <2>1, <3>2 DEF GetRoot, ControllerInv, Controller
      <3>3. CASE GetPod BY <1>t, <2>1, <3>3 DEF GetPod, ControllerInv, Controller
      <3>4. CASE AbortController BY <1>i, <3>4 DEF AbortController, ControllerInv
      <3>5. CASE ReleaseBound BY <1>t, <2>1, <3>5 DEF ReleaseBound, ControllerInv, Controller
      <3> QED BY <1>1, <3>1, <3>2, <3>3, <3>4, <3>5
    <2>3. PodStep /\ PodInv' BY <1>t, <1>u, <2>1, ControlsPod
    <2> QED BY <1>u, <2>1, <2>2, <2>3, PodStepInv
  <1>2. CASE DisposeBound \/ DisposeCandidate \/ removePodFinalizer
    <2>1. UNCHANGED <<used, part>>
      BY <1>2 DEF DisposeBound, DisposeCandidate, removePodFinalizer
    <2>2. \/ pod' = pod \/ pod' = NoPod
          \/ pod.uid # 0 /\ pod' = [pod EXCEPT !.deleting = TRUE]
          \/ pod.uid # 0 /\ pod' = [pod EXCEPT !.fin = FALSE]
      <3>1. CASE DisposeBound BY <1>t, <3>1, DeletedPod DEF DisposeBound
      <3>2. CASE DisposeCandidate BY <1>t, <3>2, DeletedPod DEF DisposeCandidate
      <3>3. CASE removePodFinalizer
        <4>1. CASE pod.uid = 0
          <5>1. [NoPod EXCEPT !.fin = FALSE] \in Pod /\ NoPod \in Pod BY Constants DEF Pod
          <5>2. ASSUME NEW x \in Pod, ~x.fin PROVE [x EXCEPT !.fin = FALSE] = x BY <5>2 DEF Pod
          <5>3. [NoPod EXCEPT !.fin = FALSE] = NoPod BY <5>1, <5>2 DEF NoPod
          <5> QED BY <1>t, <3>3, <4>1, <5>3 DEF removePodFinalizer, PodInv
        <4> QED BY <3>3, <4>1 DEF removePodFinalizer
      <3> QED BY <1>2, <3>1, <3>2, <3>3
    <2>3. PodStep /\ PodInv' /\ (pod.uid = 0 => pod'.uid = 0) BY <1>t, <1>u, <2>1, <2>2, ControlsPod
    <2>4. \/ ctl' = IdleController
          \/ ctl' = [ctl EXCEPT !.pc = "unfinal"] /\ ctl.pc # "idle"
          \/ ctl' = [ctl EXCEPT !.pc = "release"] /\ ctl.pc = "decide" /\ ctl.pod.uid = 0
      BY <1>2 DEF DisposeBound, DisposeCandidate, removePodFinalizer
    <2>5. ControllerInv' BY <1>t, <1>i, <2>1, <2>3, <2>4 DEF ControllerInv, Controller
    <2> QED BY <1>u, <2>1, <2>3, <2>5, PodStepInv
  <1>3. CASE releaseParticipant
    <2>1. /\ UNCHANGED <<used, pod>> /\ ctl.pc = "release" /\ ctl' = IdleController
          /\ part' = [part EXCEPT !.fin = FALSE, !.there = ~part.deleting]
      BY <1>3 DEF releaseParticipant
    <2>2. pod.uid = 0 BY <1>t, <2>1 DEF ControllerInv
    <2>3. part'.exec = part.exec /\ part'.fin = FALSE BY <1>t, <2>1 DEF Participant
    <2>4. PodStep BY <1>u, <2>1 DEF PodStep
    <2>5. PodInv' BY <1>t, <2>1, <2>2, <2>3 DEF PodInv
    <2>6. ControllerInv' BY <1>i, <2>1 DEF ControllerInv
    <2> QED BY <1>u, <2>3, <2>4, <2>5, <2>6, PodStepInv
  <1>4. CASE AdoptParticipant
    <2>1. /\ UNCHANGED <<used, pod>> /\ ctl.pc = "decide" /\ part.there
          /\ part' = [part EXCEPT !.fin = TRUE] /\ ctl' = [ctl EXCEPT !.part = part']
      BY <1>4 DEF AdoptParticipant, mayProvision
    <2>2. part'.exec = part.exec /\ part'.fin = TRUE /\ part'.there = part.there
      BY <1>t, <2>1 DEF Participant
    <2>3. PodStep BY <1>u, <2>1 DEF PodStep
    <2>4. PodInv' BY <1>t, <2>1, <2>2 DEF PodInv
    <2>5. ControllerInv' BY <1>t, <2>1, <2>2 DEF ControllerInv, Controller
    <2> QED BY <1>u, <2>2, <2>3, <2>4, <2>5, PodStepInv
  <1>5. CASE ForgetCandidate
    <2>1. /\ UNCHANGED <<used, pod>> /\ ctl' = IdleController
          /\ part' = [part EXCEPT !.cand = 0]
      BY <1>5 DEF ForgetCandidate
    <2>2. part'.exec = part.exec /\ part'.fin = part.fin /\ part'.there = part.there
      BY <1>t, <2>1 DEF Participant
    <2>3. PodStep /\ PodInv' BY <1>t, <1>u, <2>1, <2>2, ControlsPod
    <2>4. ControllerInv' BY <1>i, <2>1 DEF ControllerInv
    <2> QED BY <1>u, <2>2, <2>3, <2>4, PodStepInv
  <1>6. CASE CreateCandidate
    <2>1. /\ UNCHANGED part /\ ctl.pc = "decide" /\ ctl.part.fin
          /\ ctl' = [ctl EXCEPT !.pod = pod', !.pc = "adopt"]
          /\ \/ pod' = pod /\ used' = used
             \/ pod.uid = 0 /\ used' = used + 1 /\ pod' = [NoPod EXCEPT !.uid = used + 1, !.fin = TRUE]
      BY <1>6 DEF CreateCandidate, mayProvision
    <2>2. part.fin BY <1>t, <2>1 DEF ControllerInv
    <2>3. ControllerInv' BY <1>t, <2>1, <2>2 DEF ControllerInv, Controller
    <2>4. CASE pod' = pod /\ used' = used
      <3>1. PodStep /\ PodInv' BY <1>t, <1>u, <2>1, <2>4, ControlsPod
      <3> QED BY <1>u, <2>1, <2>3, <3>1, PodStepInv
    <2>5. CASE pod.uid = 0 /\ used' = used + 1 /\ pod' = [NoPod EXCEPT !.uid = used + 1, !.fin = TRUE]
      <3>1. /\ pod'.uid = used + 1 /\ pod'.proc = "pending" /\ pod'.evidence = "none"
        BY <2>5 DEF NoPod
      <3>2. PodStep BY <2>5, <3>1 DEF PodStep
      <3>3. PodInv' BY <1>t, <2>1, <2>2, <2>5, <3>1 DEF PodInv
      <3> QED BY <1>u, <2>1, <2>3, <3>2, <3>3, PodStepInv
    <2> QED BY <2>1, <2>4, <2>5
  <1>7. CASE ProvisionCandidate
    <2>1. UNCHANGED used BY <1>7 DEF ProvisionCandidate
    <2>2. part' = part \/ part' = [part EXCEPT !.cand = ctl.pod.uid]
      BY <1>7 DEF ProvisionCandidate
    <2>3. part'.exec = part.exec /\ part'.fin = part.fin /\ part'.there = part.there
      BY <1>t, <2>2 DEF Participant
    <2>4. \/ pod' = pod \/ pod' = NoPod
          \/ pod.uid # 0 /\ pod' = [pod EXCEPT !.deleting = TRUE]
      BY <1>7, <1>t, DeletedPod DEF ProvisionCandidate
    <2>5. PodStep /\ PodInv' /\ (pod.uid = 0 => pod'.uid = 0)
      BY <1>t, <1>u, <2>1, <2>3, <2>4, ControlsPod
    <2>6. ctl' = IdleController \/ (ctl' = [ctl EXCEPT !.pc = "unbind"] /\ ctl.pc # "idle")
      BY <1>7 DEF ProvisionCandidate, mayProvision
    <2>7. ControllerInv' BY <1>t, <1>i, <2>3, <2>6 DEF ControllerInv, Controller
    <2> QED BY <1>u, <2>3, <2>5, <2>7, PodStepInv
  <1> QED BY <1>1, <1>2, <1>3, <1>4, <1>5, <1>6, <1>7 DEF Controls

\* The evidence in the Pod is the truth.
LEMMA TerminatedIsGone ==
  ASSUME TypeOK, PodInv, pod.uid # 0, Terminated(pod) PROVE Gone(pod.uid)
  <1>1. pod.uid \in 1..used BY DEF TypeOK, PodInv, Pod, Pods
  <1> QED BY <1>1 DEF PodInv, Terminated, Gone

\* What a projection makes of a session that was true is true, and follows from it.
LEMMA ProjectInv ==
  ASSUME Bounds, TypeOK, PodInv, NEW r \in Root, NEW s \in Session, NEW p \in Participant, SessionInv(s),
         p.exec.phase = "Settled" => Quiet(p.exec.pod)
  PROVE  LET n == ProjectSession(r, s, p, pod).next IN SessionInv(n) /\ Follows(s, n)
  <1> DEFINE n == ProjectSession(r, s, p, pod).next
  <1>t. pod \in Pod /\ used \in Nat /\ Follows(s, s) BY DEF TypeOK, Follows
  <1>1. CASE s.pod = 0
    <2>1. s = NoSession BY <1>1 DEF SessionInv
    <2>2. n = s \/ (pod.uid # 0 /\ n = [NoSession EXCEPT !.pod = pod.uid])
      BY <1>1, <2>1 DEF ProjectSession, projectUnbound
    <2>3. CASE pod.uid # 0 /\ n = [NoSession EXCEPT !.pod = pod.uid]
      <3>1. /\ n.pod = pod.uid /\ n.disp = "none" /\ n.term = FALSE
        BY <2>3 DEF NoSession
      <3>2. pod.uid \in 1..used BY <1>t, <2>3 DEF PodInv, Pod, Pods, Bounds
      <3> QED BY <2>1, <2>3, <3>1, <3>2 DEF SessionInv, Follows, NoSession
    <2> QED BY <1>t, <2>2, <2>3
  <1>2. CASE s.pod # 0 /\ pod.uid # s.pod
    BY <1>t, <1>2 DEF ProjectSession
  <1>3. CASE s.pod # 0 /\ pod.uid = s.pod
    <2>1. s.pod \in 1..used /\ (Terminated(pod) => Gone(s.pod))
      BY <1>3, TerminatedIsGone DEF SessionInv
    <2>2. ASSUME NEW t \in Session, NEW o \in {"Settled", "Unsettled"}, t.pod = s.pod,
                 o = "Settled" => Quiet(s.pod)
          PROVE  /\ SessionInv(disposed(t, o, pod)) /\ disposed(t, o, pod).pod = s.pod
                 /\ disposed(t, o, pod).down = t.down
      <3>1. /\ disposed(t, o, pod).pod = s.pod /\ disposed(t, o, pod).disp = o
            /\ disposed(t, o, pod).term = Terminated(pod) /\ disposed(t, o, pod).down = t.down
        BY <2>2 DEF disposed, Session
      <3> QED BY <1>3, <2>1, <2>2, <3>1 DEF SessionInv
    <2>3. CASE s.disp # "none"
      <3>1. n = [s EXCEPT !.term = @ \/ Terminated(pod)]
        BY <1>3, <2>3 DEF ProjectSession, projectDisposed
      <3>2. n.pod = s.pod /\ n.disp = s.disp /\ n.down = s.down /\ (n.term => s.term \/ Terminated(pod))
        BY <3>1 DEF Session
      <3> QED BY <1>3, <2>1, <3>2 DEF SessionInv, Follows
    <2>4. CASE s.disp = "none" /\ s.down = "none"
      <3>1. /\ shutdown(s, r, p) \in Session /\ shutdown(s, r, p).pod = s.pod
            /\ shutdown(s, r, p).disp = s.disp /\ shutdown(s, r, p).term = s.term
        BY ReasonType DEF shutdown, Session, Root
      <3>2. SessionInv(shutdown(s, r, p)) BY <1>3, <3>1 DEF SessionInv
      <3>3. SessionInv(disposed(shutdown(s, r, p), "Unsettled", pod))
            /\ disposed(shutdown(s, r, p), "Unsettled", pod).pod = s.pod
        BY <2>2, <3>1
      <3>4. n = s \/ n = shutdown(s, r, p) \/ n = disposed(shutdown(s, r, p), "Unsettled", pod)
        BY <1>3, <2>4 DEF ProjectSession, projectRunning
      <3> QED BY <1>t, <2>4, <3>1, <3>2, <3>3, <3>4 DEF Follows
    <2>5. CASE s.disp = "none" /\ s.down # "none"
      <3>1. CASE acknowledges(p.exec, s)
        <4>1. /\ outcome(p.exec) \in {"Settled", "Unsettled"}
              /\ outcome(p.exec) = "Settled" => Quiet(s.pod)
          BY <3>1 DEF acknowledges, outcome
        <4>2. n = disposed(s, outcome(p.exec), pod)
          BY <1>3, <2>5, <3>1 DEF ProjectSession, projectDraining
        <4> QED BY <2>2, <4>1, <4>2 DEF Follows
      <3>2. CASE ~acknowledges(p.exec, s)
        <4>1. n = s \/ n = disposed(s, "Unsettled", pod)
          BY <1>3, <2>5, <3>2 DEF ProjectSession, projectDraining
        <4> QED BY <1>t, <2>2, <4>1 DEF Follows
      <3> QED BY <3>1, <3>2
    <2> QED BY <2>3, <2>4, <2>5
  <1> QED BY <1>1, <1>2, <1>3

LEMMA NoSessionInv == SessionInv(NoSession) /\ (\A t : Follows(NoSession, t))
  BY DEF SessionInv, Follows, NoSession

\* Steps of the aggregate touch nothing but the ledger and its own memory.
LEMMA AggregateStepInv ==
  ASSUME TypeOK, TypeOK', WorkerInv, UNCHANGED others, Follows(ses, ses'), SessionInv(ses)', AggregateInv'
  PROVE  WorkerInv'
  <1>1. PodInv' /\ ControllerInv' BY DEF WorkerInv, PodInv, ControllerInv
  <1>2. SentInv'
    <2>1. SubmissionsAuthorised'
      <3> SUFFICES ASSUME NEW u \in Pods, sent[u] > 0 PROVE ses'.pod = u
        BY DEF SubmissionsAuthorised
      <3>1. u # 0 BY DEF Pods
      <3> QED BY <3>1 DEF WorkerInv, SentInv, SubmissionsAuthorised, Follows
    <2> QED BY <2>1 DEF WorkerInv, SentInv
  <1>3. ProcessInv'
    <2> SUFFICES ASSUME Live PROVE ProcessInv' BY DEF ProcessInv, Live
    <2>1. Follows(w.ses, ses) BY DEF WorkerInv, ProcessInv
    <2>2. Follows(w.ses, ses') BY <2>1, FollowsOn
    <2> QED BY <2>2 DEF WorkerInv, ProcessInv, Follows
  <1>4. (part.exec.phase = "Settled" => Quiet(part.exec.pod))'
    BY DEF WorkerInv, Quiet
  <1> QED BY <1>1, <1>2, <1>3, <1>4 DEF WorkerInv

LEMMA AggregatesInv ==
  ASSUME Bounds, TypeOK, TypeOK', WorkerInv, Aggregates PROVE WorkerInv'
  <1>t. /\ agg \in Aggregate /\ ses \in Session /\ part \in Participant
        /\ agg.root \in Root /\ agg.ses \in Session /\ agg.part \in Participant
        /\ AggregateInv /\ PodInv /\ SessionInv(ses)
    BY DEF TypeOK, WorkerInv, Aggregate
  <1>o. UNCHANGED others
    BY DEF Aggregates, AggregateReadRoot, AggregateReadParticipant, AggregateReadPod, AggregateWrite,
           AbortAggregate
  <1>s. ASSUME NEW s, SessionInv(s) PROVE SessionInv(s)' BY <1>o, <1>s DEF SessionInv, Quiet, Gone
  <1>c. ASSUME NEW c \in Session, NEW d \in Session, NEW e, NEW pc,
               SessionInv(c), SessionInv(d), agg'.ses = c, agg'.next = d, agg'.part.exec = e, agg'.pc = pc,
               Follows(c, ses'), pc = "write" => Follows(c, d),
               e.phase = "Settled" => Quiet(e.pod)
        PROVE  AggregateInv'
    <2>1. SessionInv(c)' /\ SessionInv(d)' BY <1>c, <1>s
    <2>2. e.phase = "Settled" => Quiet(e.pod)' BY <1>c, <1>o DEF Quiet
    <2>3. SessionInv(agg.ses)' /\ SessionInv(agg.next)' BY <1>c, <2>1 DEF SessionInv, Quiet, Gone
    <2>4. (agg.part.exec.phase = "Settled" => Quiet(agg.part.exec.pod))' BY <1>c, <2>2 DEF Quiet
    <2> QED BY <1>c, <2>3, <2>4 DEF AggregateInv
  <1>i. /\ IdleAggregate.ses = NoSession /\ IdleAggregate.next = NoSession
        /\ IdleAggregate.part.exec = NoExecution /\ IdleAggregate.pc = "idle"
        /\ NoExecution.phase = "none"
    BY DEF IdleAggregate, NewParticipant, NoExecution
  <1>d. ASSUME agg' = IdleAggregate PROVE AggregateInv'
    BY <1>c, <1>d, <1>i, Constants, NoSessionInv
  <1>u. ASSUME ses' = ses PROVE Follows(ses, ses') /\ SessionInv(ses)'
    BY <1>o, <1>t, <1>u DEF Follows, SessionInv, Quiet, Gone
  <1>1. CASE AbortAggregate
    <2>1. ses' = ses /\ agg' = IdleAggregate BY <1>1 DEF AbortAggregate
    <2> QED BY <1>d, <1>o, <1>u, <2>1, AggregateStepInv
  <1>2. CASE AggregateReadRoot
    <2>1. ses' = ses /\ agg' = [IdleAggregate EXCEPT !.pc = "part", !.root = root, !.ses = ses]
      BY <1>2 DEF AggregateReadRoot
    <2>2. /\ agg'.ses = ses /\ agg'.next = NoSession /\ agg'.part.exec = NoExecution /\ agg'.pc = "part"
      BY <2>1, <1>i DEF IdleAggregate
    <2>3. AggregateInv' BY <1>c, <1>i, <1>t, <1>u, <2>1, <2>2, Constants, NoSessionInv
    <2> QED BY <1>o, <1>u, <2>1, <2>3, AggregateStepInv
  <1>3. CASE AggregateReadParticipant
    <2>1. ses' = ses /\ agg' = [agg EXCEPT !.pc = "pod", !.part = part]
      BY <1>3 DEF AggregateReadParticipant
    <2>2. /\ agg'.ses = agg.ses /\ agg'.next = agg.next /\ agg'.part.exec = part.exec /\ agg'.pc = "pod"
          /\ agg.next \in Session
      BY <1>t, <2>1 DEF Aggregate
    <2>3. AggregateInv'
      <3>1. part.exec.phase = "Settled" => Quiet(part.exec.pod) BY DEF WorkerInv
      <3>2. SessionInv(agg.ses) /\ SessionInv(agg.next) /\ Follows(agg.ses, ses') BY <1>t, <2>1 DEF AggregateInv
      <3> QED BY <1>c, <1>t, <2>2, <3>1, <3>2
    <2> QED BY <1>o, <1>u, <2>1, <2>3, AggregateStepInv
  <1>4. CASE AggregateReadPod
    <2> DEFINE fact == ProjectSession(agg.root, agg.ses, agg.part, pod)
    <2>1. ses' = ses /\ (agg' = IdleAggregate
                          \/ agg' = [agg EXCEPT !.pc = "write", !.next = fact.next, !.fail = fact.fail,
                                   !.part = NewParticipant])
      BY <1>4 DEF AggregateReadPod
    <2>2. SessionInv(fact.next) /\ Follows(agg.ses, fact.next)
      BY <1>t, ProjectInv DEF AggregateInv
    <2>3. fact.next \in Session BY <1>t, ProjectType DEF TypeOK
    <2>4. CASE agg' = IdleAggregate BY <1>d, <1>o, <1>u, <2>1, <2>4, AggregateStepInv
    <2> HIDE DEF fact
    <2>5. CASE agg' = [agg EXCEPT !.pc = "write", !.next = fact.next, !.fail = fact.fail,
                                  !.part = NewParticipant]
      <3>1. /\ agg'.ses = agg.ses /\ agg'.next = fact.next /\ agg'.part.exec = NoExecution
            /\ agg'.pc = "write"
        BY <1>t, <2>5 DEF Aggregate, NewParticipant
      <3>2. SessionInv(agg.ses) /\ Follows(agg.ses, ses') BY <1>t, <2>1 DEF AggregateInv
      <3>3. AggregateInv' BY <1>c, <1>i, <1>t, <2>2, <2>3, <3>1, <3>2
      <3> QED BY <1>o, <1>u, <2>1, <3>3, AggregateStepInv
    <2> QED BY <2>1, <2>4, <2>5
  <1>5. CASE AggregateWrite
    <2>1. agg.pc = "write" /\ ses = agg.ses /\ ses' = agg.next /\ agg' = IdleAggregate
      BY <1>5 DEF AggregateWrite
    <2>2. Follows(ses, ses') BY <1>t, <2>1 DEF AggregateInv
    <2>3. SessionInv(ses)'
      <3>1. PICK c : c = agg.next OBVIOUS
      <3>2. SessionInv(c)' BY <1>s, <1>t, <3>1 DEF AggregateInv
      <3> QED BY <2>1, <3>1, <3>2 DEF SessionInv, Quiet, Gone
    <2> QED BY <1>d, <1>o, <2>1, <2>2, <2>3, AggregateStepInv
  <1> QED BY <1>1, <1>2, <1>3, <1>4, <1>5 DEF Aggregates

\* Steps of the process, which runs in the Pod of the moment.
LEMMA RunInv ==
  ASSUME Bounds, TypeOK, TypeOK', WorkerInv, Live, UNCHANGED outside, ProcessInv', SentInv',
         part'.fin = part.fin, part'.there = part.there,
         \A u \in 1..used : Quiet(u) => Quiet(u)',
         (part.exec.phase = "Settled" => Quiet(part.exec.pod))'
  PROVE  WorkerInv'
  <1>1. Keeps
    <2>1. used <= used' BY DEF TypeOK
    <2> QED BY <2>1 DEF Keeps, Gone
  <1>2. Follows(ses, ses') BY DEF Follows
  <1>3. AggregateInv' BY <1>1, <1>2, AggregateKept DEF WorkerInv
  <1>4. SessionInv(ses)'
    <2>1. PICK c \in Session : c = ses BY DEF TypeOK
    <2>2. SessionInv(c)' BY <1>1, <2>1, SessionKept DEF WorkerInv
    <2> QED BY <2>1, <2>2 DEF SessionInv, Quiet, Gone
  <1>5. PodInv' /\ ControllerInv' BY DEF WorkerInv, PodInv, ControllerInv
  <1> QED BY <1>3, <1>4, <1>5 DEF WorkerInv

\* A pass that neither submits nor writes keeps what it remembers.
Remembers == w'.sent = w.sent /\ w'.open = w.open /\ w'.pend = w.pend /\ w'.final = w.final

LEMMA QuietInv ==
  ASSUME Bounds, TypeOK, TypeOK', WorkerInv, Live, quietly, Remembers,
         Follows(w'.ses, ses), w'.ses.pod = 0 => w'.ses = NoSession,
         w'.pc \in {"step", "send"} => /\ w'.ses.pod = pod.uid /\ w'.ses.down = "none"
                                       /\ w.final = NoExecution,
         w'.pc = "publish" => /\ w'.report.pod = pod.uid /\ w'.ses.pod \in {0, pod.uid}
                              /\ w'.report.phase = "Settled" => w'.report = w.final
                              /\ w'.report.phase = "Inactive" => w'.ses.down = "none",
         w.final # NoExecution /\ w'.pc \in {"read", "publish"} => w'.ses.down # "none",
         w.final # NoExecution /\ w'.pc = "publish" => w'.report = w.final
  PROVE  WorkerInv'
  <1>1. ProcessInv' BY DEF WorkerInv, ProcessInv, Remembers, Live
  <1>2. SentInv' BY DEF WorkerInv, SentInv, SubmissionsAuthorised
  <1>3. \A u \in 1..used : Quiet(u) => Quiet(u)' BY DEF Quiet, Remembers
  <1>4. (part.exec.phase = "Settled" => Quiet(part.exec.pod))'
    BY DEF WorkerInv, Quiet, Remembers
  <1> QED BY <1>1, <1>2, <1>3, <1>4, RunInv

\* What say announces.
LEMMA SayInv ==
  ASSUME Bounds, TypeOK, TypeOK', WorkerInv, Live, quietly, NEW r, w' = say(r), w.pc = "read",
         w.ses.pod \in {0, pod.uid}, r.pod = pod.uid,
         r.phase = "Settled" => r = w.final,
         r.phase = "Inactive" => w.ses.down = "none",
         w.final # NoExecution => r = w.final
  PROVE  WorkerInv'
  <1>1. w \in Process BY DEF TypeOK
  <1>2. Remembers /\ w'.ses = w.ses /\ w'.pc = "publish" /\ w'.report = r
    BY <1>1 DEF say, Remembers, Process
  <1>3. /\ Follows(w.ses, ses) /\ (w.ses.pod = 0 => w.ses = NoSession)
        /\ w.final # NoExecution => w.ses.down # "none"
    BY DEF WorkerInv, ProcessInv
  <1> QED BY <1>2, <1>3, QuietInv

LEMMA QuietRunsInv ==
  ASSUME Bounds, TypeOK, TypeOK', WorkerInv,
         \/ ReadControl \/ LoseIdentity \/ Leave \/ ReportCandidate \/ RetryReport
         \/ AwaitShutdownRecord \/ RepeatAcknowledgement \/ RestFailed \/ BindProcess
         \/ BeginStep \/ Authorize
  PROVE  WorkerInv'
  <1>t. /\ w \in Process /\ pod \in Pod /\ part \in Participant /\ ProcessInv /\ SessionInv(ses)
    BY DEF TypeOK, WorkerInv
  <1>f. Fresh => w.pc = "read" /\ Live /\ w.ses.pod \in {0, pod.uid}
    BY DEF Fresh, identityLost
  <1>b. Bound => w.pc = "read" /\ Live /\ w.ses.pod = pod.uid BY <1>f DEF Bound
  <1>u. Unhindered => /\ Bound /\ w.ses.down = "none" /\ (w.final = NoExecution)
    BY <1>t, <1>b DEF Unhindered, ProcessInv
  <1>r. ASSUME NEW phase \in {"Inactive", "Blocked"}
        PROVE  /\ report(part, phase, "none").pod = pod.uid
               /\ report(part, phase, "none").phase = phase
    BY DEF report
  <1>1. CASE ReadControl
    <2>1. Live /\ quietly /\ w' = [w EXCEPT !.pc = "read", !.root = root, !.ses = ses]
      BY <1>1 DEF ReadControl
    <2>2. Remembers /\ w'.ses = ses /\ w'.pc = "read" BY <1>t, <2>1 DEF Remembers, Process
    <2>3. Follows(ses, ses) /\ (ses.pod = 0 => ses = NoSession)
          /\ (w.final # NoExecution => ses.down # "none")
      BY <1>t, <2>1 DEF Follows, SessionInv, ProcessInv
    <2> QED BY <2>1, <2>2, <2>3, QuietInv
  <1>2. CASE LoseIdentity \/ Leave \/ RestFailed
    <2>1. Live /\ quietly /\ (\/ w' = rest(w) \/ w' = [rest(w) EXCEPT !.pc = "exit"]
                              \/ w' = [rest(w) EXCEPT !.activated = TRUE])
      BY <1>2, <1>u, <1>b DEF LoseIdentity, Leave, RestFailed
    <2>2. Remembers /\ w'.ses = NoSession /\ w'.pc \in {"idle", "exit"}
      BY <1>t, <2>1 DEF Remembers, Process, rest
    <2> QED BY <2>1, <2>2, NoSessionInv, QuietInv
  <1>3. CASE ReportCandidate
    <2>1. Fresh /\ quietly /\ w.ses.pod = 0 /\ w' = say(report(part, "Inactive", "none"))
      BY <1>3 DEF ReportCandidate
    <2>2. w.ses.down = "none" BY <1>t, <1>f, <2>1 DEF ProcessInv, NoSession
    <2>3. w.final = NoExecution BY <1>t, <1>f, <2>1, <2>2 DEF ProcessInv
    <2> QED BY <1>f, <1>r, <2>1, <2>2, <2>3, SayInv
  <1>4. CASE AwaitShutdownRecord
    <2>1. Bound /\ quietly /\ w.ses.down = "none" /\ w' = say(report(part, "Blocked", "none"))
      BY <1>4 DEF AwaitShutdownRecord
    <2>2. w.final = NoExecution BY <1>t, <1>b, <2>1 DEF ProcessInv
    <2> QED BY <1>b, <1>r, <2>1, <2>2, SayInv
  <1>5. CASE BindProcess
    <2>1. Unhindered /\ quietly /\ w' = say(report(part, "Inactive", "none"))
      BY <1>5 DEF BindProcess
    <2> QED BY <1>b, <1>u, <1>r, <2>1, SayInv
  <1>6. CASE RetryReport
    <2>1. Bound /\ quietly /\ w.pend # NoExecution /\ w' = say(w.pend) BY <1>6 DEF RetryReport
    <2>2. w.final = NoExecution /\ w.pend.pod = pod.uid /\ w.pend.phase \in {"Active", "Paused", "Failed"}
      BY <1>t, <1>b, <2>1 DEF ProcessInv
    <2> QED BY <1>b, <2>1, <2>2, SayInv
  <1>7. CASE RepeatAcknowledgement
    <2>1. Bound /\ quietly /\ w.final # NoExecution /\ w' = say(w.final)
      BY <1>7 DEF RepeatAcknowledgement
    <2>2. w.final.pod = pod.uid /\ w.final.phase \in {"Settled", "Unsettled"}
      BY <1>t, <1>b, <2>1 DEF ProcessInv
    <2> QED BY <1>b, <2>1, <2>2, SayInv
  <1>8. CASE BeginStep \/ Authorize
    <2>1. /\ Live /\ quietly
          /\ w.ses.pod = pod.uid /\ w.ses.down = "none" /\ w.final = NoExecution
          /\ Follows(w.ses, ses) /\ (w.ses.pod = 0 => w.ses = NoSession)
      <3>1. CASE BeginStep
        <4>1. Unhindered /\ quietly BY <3>1 DEF BeginStep
        <4> QED BY <1>t, <1>b, <1>u, <4>1 DEF ProcessInv
      <3>2. CASE Authorize BY <1>t, <3>2 DEF Authorize, ProcessInv
      <3> QED BY <1>8, <3>1, <3>2
    <2>2. \/ w' = [w EXCEPT !.pc = "step", !.part = part, !.activated = TRUE]
          \/ w' = [w EXCEPT !.pc = "send"]
      BY <1>8 DEF BeginStep, Authorize
    <2>3. Remembers /\ w'.ses = w.ses /\ w'.pc \in {"step", "send"}
      BY <1>t, <2>2 DEF Remembers, Process
    <2> QED BY <2>1, <2>3, QuietInv
  <1> QED BY <1>1, <1>2, <1>3, <1>4, <1>5, <1>6, <1>7, <1>8

\* The running process has not said its last word: nothing it does breaks a promise.
LEMMA TalkingKeeps ==
  ASSUME Bounds, TypeOK, WorkerInv, Live, w.final = NoExecution, UNCHANGED <<outside, part>>,
         \A u \in Pods : u # pod.uid => open'[u] = open[u] /\ sent'[u] = sent[u]
  PROVE  /\ \A u \in 1..used : Quiet(u) => Quiet(u)'
         /\ (part.exec.phase = "Settled" => Quiet(part.exec.pod))'
  <1>1. ASSUME NEW u, Quiet(u) PROVE Quiet(u)'
    <2>1. u # pod.uid /\ u \in 1..used BY <1>1 DEF Quiet, Live
    <2>2. u \in Pods BY <2>1 DEF TypeOK, Pods, Bounds
    <2> QED BY <1>1, <2>1, <2>2 DEF Quiet
  <1>2. part.exec.phase = "Settled" => Quiet(part.exec.pod)' BY <1>1 DEF WorkerInv
  <1> QED BY <1>1, <1>2 DEF Quiet

LEMMA DrainInv ==
  ASSUME Bounds, TypeOK, TypeOK', WorkerInv, Drain PROVE WorkerInv'
  <1>t. /\ w \in Process /\ pod \in Pod /\ ProcessInv /\ open \in [Pods -> Nat] /\ sent \in [Pods -> Nat]
        /\ w.open \in Nat
    BY DEF TypeOK, WorkerInv, Process
  <1>1. PICK left \in 0..w.open :
           /\ w' = [say(DrainTo(part, left)) EXCEPT !.open = left,
                      !.final = IF DrainTo(part, left).phase = "Draining" THEN NoExecution
                                ELSE DrainTo(part, left)]
           /\ open' = [open EXCEPT ![pod.uid] = left]
    BY DEF Drain
  <1>2. /\ Live /\ w.pend = NoExecution /\ w.ses.down # "none" /\ w.final = NoExecution
        /\ w.ses.pod = pod.uid /\ UNCHANGED <<outside, part, sent, budget>>
    BY DEF Drain, Bound, Fresh, identityLost
  <1> DEFINE r == DrainTo(part, left)
  <1>3. /\ r.pod = pod.uid /\ r.sent = w.sent /\ r.phase \in {"Draining", "Settled", "Unsettled"}
        /\ r.phase = "Settled" => left = 0
    BY DEF DrainTo
  <1> HIDE DEF r
  <1>4. PICK f : f = IF r.phase = "Draining" THEN NoExecution ELSE r OBVIOUS
  <1>5. w' = [say(r) EXCEPT !.open = left, !.final = f] BY <1>1, <1>4 DEF r
  <1>6. /\ w'.sent = w.sent /\ w'.open = left /\ w'.pend = w.pend /\ w'.final = f
        /\ w'.ses = w.ses /\ w'.pc = "publish" /\ w'.report = r
    BY <1>5, <1>t DEF say, Process
  <1>7. pod.uid \in Pods BY <1>t, <1>2 DEF Live, Pod
  <1>8. open'[pod.uid] = left /\ (\A u \in Pods : u # pod.uid => open'[u] = open[u])
    BY <1>1, <1>7, <1>t
  <1>9. ProcessInv'
    <2>1. Follows(w.ses, ses) /\ w.sent = sent[pod.uid] /\ (w.ses.pod = 0 => w.ses = NoSession)
      BY <1>t, <1>2 DEF ProcessInv
    <2>2. ses.down # "none" BY <1>2, <2>1 DEF Follows
    <2>3. (f # NoExecution => f = r /\ r.phase # "Draining") /\ (r.phase = "Settled" => f = r) BY <1>4
    <2> QED BY <1>2, <1>3, <1>6, <1>8, <2>1, <2>2, <2>3 DEF ProcessInv
  <1>10. SentInv'
    <2>1. left \in Nat /\ left <= open[pod.uid] BY <1>t, <1>2 DEF ProcessInv
    <2>2. open[pod.uid] <= sent[pod.uid] /\ open[pod.uid] \in Nat /\ sent[pod.uid] \in Nat
      BY <1>7, <1>t DEF WorkerInv, SentInv
    <2>3. left <= sent[pod.uid] BY <2>1, <2>2
    <2>4. \A u \in Pods : open'[u] <= sent'[u] BY <1>2, <1>8, <2>3 DEF WorkerInv, SentInv
    <2> QED BY <1>2, <2>4 DEF WorkerInv, SentInv, SubmissionsAuthorised
  <1> QED BY <1>2, <1>8, <1>9, <1>10, TalkingKeeps, RunInv

LEMMA ObserveInv ==
  ASSUME Bounds, TypeOK, TypeOK', WorkerInv, Observe PROVE WorkerInv'
  <1>t. /\ w \in Process /\ pod \in Pod /\ ProcessInv /\ open \in [Pods -> Nat] /\ sent \in [Pods -> Nat]
        /\ w.open \in Nat
    BY DEF TypeOK, WorkerInv, Process
  <1>1. PICK left \in 0..w.open, phase \in {"Active", "Failed", "Paused"} :
           /\ w' = [w EXCEPT !.pc = "publish", !.open = left, !.report = stepReport(phase, left),
                            !.pend = stepReport(phase, left)]
           /\ open' = [open EXCEPT ![pod.uid] = left]
    BY DEF Observe
  <1>2. /\ Live /\ w.pc = "step" /\ UNCHANGED <<outside, part, sent>> BY DEF Observe
  <1>3. /\ w.ses.pod = pod.uid /\ w.ses.down = "none" /\ w.final = NoExecution
        /\ Follows(w.ses, ses) /\ w.sent = sent[pod.uid] /\ w.open = open[pod.uid]
        /\ w.ses.pod = 0 => w.ses = NoSession
    BY <1>t, <1>2 DEF ProcessInv
  <1> DEFINE r == stepReport(phase, left)
  <1>4. r.pod = pod.uid /\ r.phase = phase BY DEF stepReport
  <1> HIDE DEF r
  <1>5. w' = [w EXCEPT !.pc = "publish", !.open = left, !.report = r, !.pend = r] BY <1>1 DEF r
  <1>6. /\ w'.sent = w.sent /\ w'.open = left /\ w'.pend = r /\ w'.final = w.final
        /\ w'.ses = w.ses /\ w'.pc = "publish" /\ w'.report = r
    BY <1>5, <1>t DEF Process
  <1>7. pod.uid \in Pods BY <1>t, <1>2 DEF Live, Pod
  <1>8. open'[pod.uid] = left /\ (\A u \in Pods : u # pod.uid => open'[u] = open[u])
    BY <1>1, <1>7, <1>t
  <1>9. ProcessInv' BY <1>1, <1>2, <1>3, <1>4, <1>6, <1>8 DEF ProcessInv
  <1>10. SentInv'
    <2>1. left \in Nat /\ left <= open[pod.uid] BY <1>t, <1>3
    <2>2. open[pod.uid] <= sent[pod.uid] /\ open[pod.uid] \in Nat /\ sent[pod.uid] \in Nat
      BY <1>7, <1>t DEF WorkerInv, SentInv
    <2>3. left <= sent[pod.uid] BY <2>1, <2>2
    <2>4. \A u \in Pods : open'[u] <= sent'[u] BY <1>2, <1>8, <2>3 DEF WorkerInv, SentInv
    <2> QED BY <1>2, <2>4 DEF WorkerInv, SentInv, SubmissionsAuthorised
  <1> QED BY <1>2, <1>3, <1>8, <1>9, <1>10, TalkingKeeps, RunInv

LEMMA SubmitInv ==
  ASSUME Bounds, TypeOK, TypeOK', WorkerInv, Submit PROVE WorkerInv'
  <1>t. /\ w \in Process /\ pod \in Pod /\ ProcessInv /\ open \in [Pods -> Nat] /\ sent \in [Pods -> Nat]
        /\ w.sent \in Nat
    BY DEF TypeOK, WorkerInv, Process
  <1> DEFINE r == [stepReport("Active", 1) EXCEPT !.sent = w.sent + 1]
  <1>1. /\ w' = [w EXCEPT !.pc = "publish", !.sent = @ + 1, !.open = 1, !.report = r, !.pend = r]
        /\ sent' = [sent EXCEPT ![pod.uid] = @ + 1]
        /\ open' = [open EXCEPT ![pod.uid] = 1]
        /\ Live /\ w.pc = "send" /\ UNCHANGED <<outside, part>>
    BY DEF Submit
  <1>2. /\ w.ses.pod = pod.uid /\ w.ses.down = "none" /\ w.final = NoExecution
        /\ Follows(w.ses, ses) /\ w.sent = sent[pod.uid]
        /\ w.ses.pod = 0 => w.ses = NoSession
    BY <1>t, <1>1 DEF ProcessInv
  <1>3. r.pod = pod.uid /\ r.phase = "Active" BY DEF stepReport
  <1> HIDE DEF r
  <1>4. /\ w'.sent = w.sent + 1 /\ w'.open = 1 /\ w'.pend = r /\ w'.final = w.final
        /\ w'.ses = w.ses /\ w'.pc = "publish" /\ w'.report = r
    BY <1>1, <1>t DEF Process
  <1>5. pod.uid \in Pods /\ pod.uid # 0 BY <1>t, <1>1 DEF Live, Pod
  <1>6. /\ open'[pod.uid] = 1 /\ sent'[pod.uid] = sent[pod.uid] + 1
        /\ \A u \in Pods : u # pod.uid => open'[u] = open[u] /\ sent'[u] = sent[u]
    BY <1>1, <1>5, <1>t
  <1>7. ProcessInv' BY <1>1, <1>2, <1>3, <1>4, <1>6 DEF ProcessInv
  <1>8. SentInv'
    <2>1. SubmissionsAuthorised'
      <3>1. ses.pod = pod.uid BY <1>2, <1>5 DEF Follows
      <3> QED BY <1>1, <1>6, <3>1 DEF WorkerInv, SentInv, SubmissionsAuthorised
    <2>2. \A u \in Pods : open'[u] <= sent'[u]
      <3>1. sent[pod.uid] \in Nat BY <1>5, <1>t
      <3> QED BY <1>6, <3>1 DEF WorkerInv, SentInv
    <2>3. \A u \in Pods : u > used \/ (u = pod.uid /\ pod.proc = "pending") => sent'[u] = 0
      <3>1. pod.uid <= used /\ pod.uid \in Nat /\ used \in Nat /\ pod.proc = "live"
        BY <1>1, <1>5 DEF WorkerInv, PodInv, TypeOK, Live, Pods
      <3> QED BY <1>6, <3>1 DEF WorkerInv, SentInv
    <2> QED BY <1>1, <2>1, <2>2, <2>3 DEF SentInv
  <1> QED BY <1>1, <1>2, <1>6, <1>7, <1>8, TalkingKeeps, RunInv

LEMMA PublishInv ==
  ASSUME Bounds, TypeOK, TypeOK', WorkerInv, publish PROVE WorkerInv'
  <1>t. /\ w \in Process /\ pod \in Pod /\ part \in Participant /\ ProcessInv
        /\ w.open \in Nat
    BY DEF TypeOK, WorkerInv, Process
  <1>1. /\ Live /\ w.pc = "publish" /\ UNCHANGED <<outside, sent, open>>
        /\ \/ part' = part /\ \E pc \in {"exit", "idle"} : w' = [rest(w) EXCEPT !.pc = pc]
           \/ /\ part' = [part EXCEPT !.exec = w.report]
              /\ \E pc \in {"exit", "idle"} : w' = [rest(w) EXCEPT !.pc = pc, !.pend = NoExecution]
           \/ /\ part' = [part EXCEPT !.exec = w.report]
              /\ w.ses.pod # 0 /\ w.report.phase = "Inactive"
              /\ w' = [w EXCEPT !.pc = "step", !.part = part', !.report = NoExecution]
    BY DEF publish
  <1>2. /\ w.sent = sent[pod.uid] /\ w.open = open[pod.uid] /\ Follows(w.ses, ses)
        /\ w.report.pod = pod.uid /\ w.ses.pod \in {0, pod.uid}
        /\ w.report.phase = "Settled" => w.report = w.final
        /\ w.report.phase = "Inactive" => w.ses.down = "none"
        /\ w.final # NoExecution => /\ w.final.sent = w.sent /\ w.report = w.final
                                    /\ w.final.phase \in {"Settled", "Unsettled"}
                                    /\ w.final.phase = "Settled" => w.open = 0
    BY <1>t, <1>1 DEF ProcessInv
  <1>3. w'.final = w.final /\ w'.sent = w.sent /\ w'.open = w.open
    BY <1>t, <1>1 DEF rest, Process
  <1>4. SentInv' BY <1>1 DEF WorkerInv, SentInv, SubmissionsAuthorised
  <1>5. ProcessInv'
    <2>1. CASE \E pc \in {"exit", "idle"} : \/ w' = [rest(w) EXCEPT !.pc = pc]
                                           \/ w' = [rest(w) EXCEPT !.pc = pc, !.pend = NoExecution]
      <3>1. /\ w'.pc \in {"exit", "idle"} /\ w'.ses = NoSession
            /\ w'.pend = w.pend \/ w'.pend = NoExecution
        BY <1>t, <2>1 DEF rest, Process
      <3> QED BY <1>t, <1>1, <1>3, <3>1, NoSessionInv DEF ProcessInv
    <2>2. CASE /\ w.ses.pod # 0 /\ w.report.phase = "Inactive"
               /\ w' = [w EXCEPT !.pc = "step", !.part = part', !.report = NoExecution]
      <3>1. w'.pc = "step" /\ w'.ses = w.ses /\ w'.pend = w.pend BY <1>t, <2>2 DEF Process
      <3>2. w.final = NoExecution BY <1>2, <2>2
      <3> QED BY <1>t, <1>1, <1>2, <1>3, <2>2, <3>1, <3>2 DEF ProcessInv
    <2> QED BY <1>1, <2>1, <2>2
  <1>6. /\ part'.fin = part.fin /\ part'.there = part.there
        /\ part'.exec = part.exec \/ part'.exec = w.report
    BY <1>t, <1>1 DEF Participant
  <1>7. ASSUME NEW u, Quiet(u) PROVE Quiet(u)'
    <2>1. part'.exec.pod = u => part'.exec.sent = sent[u]
      <3>1. CASE part'.exec = w.report /\ u = pod.uid
        <4>1. w.final # NoExecution BY <1>1, <1>7, <3>1 DEF Quiet, Live
        <4> QED BY <1>2, <3>1, <4>1
      <3> QED BY <1>2, <1>6, <1>7, <3>1 DEF Quiet
    <2> QED BY <1>1, <1>3, <1>7, <2>1 DEF Quiet
  <1>8. (part.exec.phase = "Settled" => Quiet(part.exec.pod))'
    <2>1. CASE part'.exec = part.exec
      <3>1. PICK u : u = part.exec.pod OBVIOUS
      <3>2. part.exec.phase = "Settled" => Quiet(u)' BY <1>7, <3>1 DEF WorkerInv
      <3> QED BY <2>1, <3>1, <3>2 DEF Quiet
    <2>2. CASE part'.exec = w.report /\ w.report.phase = "Settled"
      <3>1. w.final # NoExecution /\ w.report = w.final BY <1>2, <2>2 DEF NoExecution
      <3>2. open[pod.uid] = 0 /\ w.report.sent = sent[pod.uid] /\ w.report.pod = pod.uid
        BY <1>2, <2>2, <3>1
      <3>3. pod.uid \in 1..used /\ pod.proc = "live"
        BY <1>1, <1>t DEF Live, WorkerInv, PodInv, Pod, Pods, TypeOK, Bounds
      <3> QED BY <1>1, <1>3, <2>2, <3>1, <3>2, <3>3 DEF Quiet
    <2> QED BY <1>6, <2>1, <2>2
  <1> QED BY <1>1, <1>4, <1>5, <1>6, <1>7, <1>8, RunInv

-----------------------------------------------------------------------------
(* The theorems *)

LEMMA InitInv ==
  ASSUME Bounds, Init PROVE TypeOK /\ WorkerInv
  <1>1. TypeOK
    <2>1. /\ root \in Root /\ ses \in Session /\ part \in Participant /\ pod \in Pod
          /\ w \in Process /\ ctl \in Controller /\ agg \in Aggregate
      BY Constants, Idles DEF Init
    <2>2. sent \in [Pods -> Nat] /\ open \in [Pods -> Nat] BY DEF Init
    <2>3. late \in BOOLEAN /\ used \in 0..MaxPods /\ budget \in [Kinds -> Nat]
      <3>1. late = FALSE /\ used = 0 /\ budget \in Budgets BY DEF Init
      <3>2. MaxPods \in Nat /\ (\A b \in Budgets : b \in [Kinds -> Nat]) BY DEF Bounds
      <3>3. late \in BOOLEAN BY <3>1
      <3>4. used \in 0..MaxPods BY <3>1, <3>2
      <3>5. budget \in [Kinds -> Nat] BY <3>1, <3>2, Zenon
      <3> QED BY <3>3, <3>4, <3>5
    <2> QED BY <2>1, <2>2, <2>3 DEF TypeOK
  <1>2. pod.uid = 0 /\ pod = NoPod /\ pod.evidence = "none" /\ pod.proc = "pending" /\ ~Live
    BY DEF Init, NoPod, Live
  <1>3. PodInv BY <1>2 DEF Init, PodInv, NewParticipant
  <1>4. SentInv BY DEF Init, SentInv, SubmissionsAuthorised
  <1>5. ControllerInv BY DEF Init, ControllerInv, IdleController
  <1>6. AggregateInv
    <2>1. agg.ses = NoSession /\ agg.next = NoSession /\ agg.part.exec.phase = "none" /\ agg.pc = "idle"
      BY DEF Init, IdleAggregate, NewParticipant, NoExecution
    <2> QED BY <2>1, NoSessionInv DEF AggregateInv
  <1>7. part.exec.phase = "none" BY DEF Init, NewParticipant, NoExecution
  <1> QED BY <1>1, <1>2, <1>3, <1>4, <1>5, <1>6, <1>7, NoSessionInv DEF Init, WorkerInv, ProcessInv

LEMMA WorkerStep ==
  ASSUME Bounds, TypeOK, TypeOK', WorkerInv, [Next]_vars PROVE WorkerInv'
  <1>1. CASE UNCHANGED vars
    BY <1>1 DEF vars, WorkerInv, PodInv, SentInv, SubmissionsAuthorised, ControllerInv, AggregateInv,
                ProcessInv, SessionInv, Quiet, Gone, Live
  <1>2. CASE Runs
    BY <1>2, QuietRunsInv, DrainInv, ObserveInv, SubmitInv, PublishInv DEF Runs
  <1> QED BY <1>1, <1>2, FaultInv, ControlsInv, AggregatesInv DEF Next, Controls, Aggregates, Runs

\* Every variable keeps its type: root, session and participant, the Pod, the three programs
\* and what they have read, for any number of Pods and any budget of faults.
THEOREM TypeTheorem ==
  ASSUME Bounds PROVE Spec => []TypeOK
  <1>1. Init => TypeOK BY InitInv
  <1>2. TypeOK /\ [Next]_vars => TypeOK' BY TypeStep
  <1> QED BY <1>1, <1>2, PTL DEF Spec

\* What is true of the ledger and of every copy of it that is still acted upon.
THEOREM WorkerInvariant ==
  ASSUME Bounds PROVE Spec => [](TypeOK /\ WorkerInv)
  <1>1. Init => TypeOK /\ WorkerInv BY InitInv
  <1>2. TypeOK /\ WorkerInv /\ [Next]_vars => (TypeOK /\ WorkerInv)' BY TypeStep, WorkerStep
  <1> QED BY <1>1, <1>2, PTL DEF Spec

\* The invariant says that what the ledger records of the end of a worker is the truth.
LEMMA EndTrue ==
  ASSUME Bounds, TypeOK, WorkerInv PROVE WorkerEndTrue
  <1>t. sent \in [Pods -> Nat] /\ open \in [Pods -> Nat] /\ ses \in Session BY DEF TypeOK
  <1>1. ses.disp = "Settled" => Quiet(ses.pod) BY DEF WorkerInv, SessionInv
  <1>2. Live /\ w.pc \in {"step", "send"} =>
          w.final = NoExecution /\ ses.pod = pod.uid /\ pod.uid # 0
    BY DEF WorkerInv, ProcessInv, Follows, Live
  <1>3. \A u \in Pods : u # ses.pod => open[u] = 0
    <2> SUFFICES ASSUME NEW u \in Pods, u # ses.pod PROVE open[u] = 0 OBVIOUS
    <2>1. open[u] \in Nat /\ sent[u] \in Nat /\ open[u] <= sent[u] /\ ~(sent[u] > 0)
      BY <1>t DEF WorkerInv, SentInv, SubmissionsAuthorised
    <2> QED BY <2>1
  <1>4. SettledIsFinal
    <2>1. ASSUME ses.disp = "Settled"
          PROVE  /\ open[ses.pod] = 0
                 /\ ses.pod = part.exec.pod => part.exec.sent = sent[ses.pod]
                 /\ ~(Live /\ pod.uid = ses.pod /\ w.pc \in {"step", "send"})
      BY <1>1, <1>2, <2>1 DEF Quiet, Live
    <2>2. ASSUME root.op = "Stopped" \/ root.deleting, CheckActorStop, ses.disp # "Unsettled"
          PROVE  (\A u \in Pods : open[u] = 0) /\ ~(w.pc = "send" /\ Live)
      <3>1. ses.pod = 0 \/ ses.disp = "Settled" BY <1>t, <2>2 DEF CheckActorStop, Session
      <3>2. CASE ses.pod = 0
        <4>1. \A u \in Pods : u # ses.pod BY <3>2 DEF Pods
        <4> QED BY <1>2, <1>3, <3>2, <4>1
      <3>3. CASE ses.disp = "Settled" BY <1>2, <1>3, <2>1, <3>3
      <3> QED BY <3>1, <3>2, <3>3
    <2> QED BY <2>1, <2>2 DEF SettledIsFinal
  <1>5. EndedIsGone BY DEF EndedIsGone, WorkerInv, SessionInv, Gone, PodInv, Live
  <1> QED BY <1>4, <1>5 DEF WorkerEndTrue

\* A session recorded as Settled left nothing open and its process submits nothing more; one
\* recorded as terminated, or whose participant is gone, has no process; and the actors of a
\* stopped network go only when no submission is open or the ledger says Unsettled
\* (ProjectSession, Runtime.Reconcile, Reconciler.Reconcile, CheckActorStop).
THEOREM EndTheorem ==
  ASSUME Bounds PROVE Spec => []WorkerEndTrue
  <1>1. TypeOK /\ WorkerInv => WorkerEndTrue BY EndTrue
  <1> QED BY <1>1, WorkerInvariant, PTL

\* Only the process of the Pod that the ledger binds ever submits, whatever copies of root,
\* participant and Pod its decision was taken on (Runtime.Reconcile, authorizeInvocation).
THEOREM SubmissionTheorem ==
  ASSUME Bounds PROVE Spec => []SubmissionsAuthorised
  <1>1. TypeOK /\ WorkerInv => SubmissionsAuthorised BY DEF WorkerInv, SentInv
  <1> QED BY <1>1, WorkerInvariant, PTL
=============================================================================

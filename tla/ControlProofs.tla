---------------------------- MODULE ControlProofs ----------------------------
(***************************************************************************)
(* What the parts of the control plane keep, for every value of their      *)
(* constants, as theorems of the control plane.  Each part has an          *)
(* inductive invariant of its own; a behaviour is one of a single part,    *)
(* and every step of it is a step of that part or leaves that part alone.  *)
(***************************************************************************)
EXTENDS Control, FiniteSetTheorems, TLAPS

-----------------------------------------------------------------------------
(* Control processes *)

LEMMA ProcessBounds ==
  /\ ProcessPods \in Nat /\ ProcessSets \in Nat /\ ProcessEpochs \in Nat
  /\ ProcessCases \subseteq [Processes!Kinds -> Nat]
  BY ControlAssumption DEF Processes!Bounds

LEMMA ProcessCardinality == \A S : Processes!Cardinality(S) = Cardinality(S)
  BY DEF Processes!Cardinality, Cardinality


USE DEF Processes!world, Processes!mine, Processes!objects

-----------------------------------------------------------------------------
(* The inductive invariant *)

\* No replica is wanted by the Deployment, nor by the ReplicaSets.
DeploymentQuiet == dep.ep # 0 => dep.want = 0 /\ dep.view = 0

SetsQuiet == \A s \in Processes!LiveSets : sets[s].want = 0 /\ sets[s].view = 0

\* No process runs, and none can start: nobody asks for another one.
Ended ==
    /\ DeploymentQuiet /\ SetsQuiet
    /\ \A p \in Processes!LivePods : pods[p].proc = "dead" \/ (pods[p].proc = "new" /\ pods[p].deleting)

\* Counts are of what is wanted, evidence is of a process that ended, a Pod without its
\* finalizer was recorded.
ClusterInv ==
    /\ dep.seen => dep.view = dep.want
    /\ \A s \in Processes!Sets : sets[s].seen => sets[s].view = sets[s].want
    /\ \A p \in Processes!Pods : /\ pods[p].evidence = "terminal" => pods[p].proc = "dead"
                                 /\ pods[p].proc # "new" => pods[p].scheduled /\ pods[p].set # 0
                                 /\ pods[p].set # 0 /\ ~pods[p].fin => p \in recorded

\* What the reconciliation has read lasts until it is written.
ReadInv ==
    /\ op.pc \in {"sets", "pods"} => ~op.st.term /\ (op.dep # "busy" => DeploymentQuiet)
    /\ op.pc = "pods" /\ op.dep # "busy" /\ op.quiet => SetsQuiet
    /\ op.pc \in {"sets", "pods", "finish"} => op.st.gen = op.root.gen
    /\ op.pc = "finish" /\ op.st.term => Ended
    /\ op.pc = "finish" /\ op.ok => op.rel \subseteq {k.uid : k \in {j \in op.st.pods : j.term}}
    /\ op.pc = "release" => op.rel \subseteq recorded
    /\ op.pc = "release" /\ op.part.st.term => Ended
    /\ op.pc = "activate" => ~Processes!Stopping(op.root, op.part)

Adopted == {"deployment", "sets", "pods", "finish", "release", "stop", "activate"}

\* What the status and the finalizer of the participant vouch for.
OwnerInv ==
    /\ part.st.gen <= root.gen /\ op.root.gen <= root.gen
    /\ root.gen >= 1 /\ (root.deleting => root.gen > 1)
    /\ root.deleting /\ ~op.root.deleting => op.root.gen < root.gen
    /\ op.pc \in Adopted \cup {"adopt"} => part.st.gen <= op.root.gen
    /\ op.pc \in Adopted => op.part.fin \/ op.part.deleting
    /\ op.part.fin /\ ~op.part.deleting => part.fin
    /\ ~part.fin => Ended
    /\ root.deleting /\ part.st.term /\ part.st.gen = root.gen => Ended

ProcessInv == Processes!TypeOK /\ ClusterInv /\ ReadInv /\ OwnerInv

-----------------------------------------------------------------------------
(* Types *)

LEMMA Counted ==
  ASSUME NEW S \in (SUBSET Processes!Pods) \cup (SUBSET Processes!Sets) PROVE Processes!Cardinality(S) \in Nat
  <1>1. IsFiniteSet(Processes!Pods) /\ IsFiniteSet(Processes!Sets) BY ProcessBounds, FS_Interval
      DEF Processes!Pods, Processes!Sets
  <1>2. IsFiniteSet(S) BY <1>1, FS_Subset
  <1> QED BY <1>2, FS_CardinalityType, ProcessCardinality

LEMMA Known0 ==
  ASSUME Processes!TypeOK, NEW p \in Processes!LivePods, ~Processes!unaccountable(p)
  PROVE  Processes!observedPod(p) \in Processes!Known
  <1>1. pods[p].set \in Processes!Sets BY DEF Processes!TypeOK, Processes!LivePods, Processes!Pod
  <1>2. CASE sets[pods[p].set].ep = 0
    <2>1. \E k \in op.part.st.pods : k.uid = p BY <1>2 DEF Processes!unaccountable, Processes!pinned
    <2>2. Processes!knownOf(p) \in op.part.st.pods BY <2>1 DEF Processes!knownOf
    <2>3. op.part.st.pods \subseteq Processes!Known BY DEF Processes!TypeOK, Processes!Operation,
        Processes!Participant, Processes!Status
    <2>4. Processes!knownOf(p).ep \in Processes!Epochs BY <2>2, <2>3 DEF Processes!Known
    <2> QED BY <1>2, <2>4 DEF Processes!observedPod, Processes!Known, Processes!terminal,
        Processes!controlPodUnknown, Processes!controlPodTerminated, Processes!TypeOK, Processes!Pod,
        Processes!LivePods
  <1>3. CASE sets[pods[p].set].ep # 0
    <2>1. sets[pods[p].set].ep \in Processes!Epochs BY <1>1, <1>3 DEF Processes!TypeOK, Processes!Workload
    <2> QED BY <1>3, <2>1 DEF Processes!observedPod, Processes!Known, Processes!terminal,
        Processes!controlPodUnknown, Processes!controlPodTerminated, Processes!TypeOK, Processes!Pod,
        Processes!LivePods
  <1> QED BY <1>2, <1>3

LEMMA ProcessIdleType == Processes!Idle \in Processes!Operation
  BY DEF Processes!Idle, Processes!Operation, Processes!Steps, Processes!NewRoot, Processes!NewParticipant,
      Processes!NoStatus, Processes!Root, Processes!Participant, Processes!Status

LEMMA FailType == ASSUME op \in Processes!Operation, Processes!Fail PROVE op' \in Processes!Operation
  BY DEF Processes!Fail, Processes!Operation, Processes!Steps

LEMMA AgainType == ASSUME NEW o \in Processes!Operation PROVE Processes!Again(o) \in Processes!Operation
  BY DEF Processes!Again, Processes!Operation, Processes!Steps

LEMMA Taken ==
  ASSUME Processes!TypeOK, NEW k \in Processes!Kinds, Processes!Take(k)
  PROVE  budget' \in [Processes!Kinds -> Nat]
  BY DEF Processes!TypeOK, Processes!Take

LEMMA InitType == Processes!Init => Processes!TypeOK
  <1> SUFFICES ASSUME Processes!Init PROVE Processes!TypeOK OBVIOUS
  <1>1. op \in Processes!Operation BY ProcessIdleType DEF Processes!Init
  <1> QED
    BY <1>1, ProcessBounds
    DEF Processes!Init, Processes!TypeOK, Processes!NewRoot, Processes!NewParticipant, Processes!NoStatus,
        Processes!NoWorkload, Processes!NoPod, Processes!Root, Processes!Participant,
        Processes!Status, Processes!Workload, Processes!Pod

\* The operation of a reconciliation, in all its steps.
LEMMA ReadType ==
  ASSUME Processes!TypeOK, Processes!ReadParticipant \/ Processes!ReadRoot \/ Processes!ReadDeployment
         \/ Processes!ListSets \/ Processes!ReadFails \/ Processes!NotEnrolled \/ Processes!Abort
  PROVE  Processes!TypeOK'
  <1> USE ProcessIdleType DEF Processes!TypeOK, Processes!Fail, Processes!Return
  <1>1. CASE Processes!ReadParticipant BY <1>1 DEF Processes!ReadParticipant, Processes!Operation,
      Processes!Steps
  <1>2. CASE Processes!ReadRoot BY <1>2 DEF Processes!ReadRoot, Processes!Operation, Processes!Steps
  <1>3. CASE Processes!ReadDeployment
    <2>1. op.part.st \in Processes!Status /\ op.root.gen \in Nat /\ dep.ep \in Processes!Epochs \cup {0}
      BY DEF Processes!Operation, Processes!Participant, Processes!Root, Processes!Workload
    <2>2. op'.st \in Processes!Status BY <1>3, <2>1 DEF Processes!ReadDeployment, Processes!Status,
        Processes!Operation
    <2> QED BY <1>3, <2>2 DEF Processes!ReadDeployment, Processes!Operation, Processes!Steps
  <1>4. CASE Processes!ListSets
    <2> DEFINE Q == \A s \in Processes!LiveSets : Processes!replicaQuiesced(sets[s])
               N == Processes!LiveSets = {}
    <2>1. Processes!Fail \/ op' = [op EXCEPT !.quiet = Q, !.none = N, !.pc = "pods"]
      BY <1>4, Zenon DEF Processes!ListSets
    <2>2. Q \in BOOLEAN /\ N \in BOOLEAN OBVIOUS
    <2> HIDE DEF Q, N
    <2>3. op \in Processes!Operation OBVIOUS
    <2>4. ASSUME op' = [op EXCEPT !.quiet = Q, !.none = N, !.pc = "pods"] PROVE op' \in Processes!Operation
      <3> HIDE DEF Processes!TypeOK
      <3> QED BY <2>2, <2>3, <2>4 DEF Processes!Operation, Processes!Steps
    <2>5. op' \in Processes!Operation BY <2>1, <2>3, <2>4, FailType
    <2> QED BY <1>4, <2>5 DEF Processes!ListSets
  <1>5. CASE Processes!ReadFails BY <1>5 DEF Processes!ReadFails, Processes!Operation, Processes!Steps
  <1>6. CASE Processes!NotEnrolled \/ Processes!Abort BY <1>6 DEF Processes!NotEnrolled, Processes!Abort
  <1> QED BY <1>1, <1>2, <1>3, <1>4, <1>5, <1>6

LEMMA ListPodsType ==
  ASSUME Processes!TypeOK, Processes!ListPods PROVE Processes!TypeOK'
  <1> USE DEF Processes!TypeOK
  <1>1. CASE \E p \in Processes!LivePods : Processes!unaccountable(p)
    <2>1. Processes!Fail BY <1>1 DEF Processes!ListPods
    <2>2. op' \in Processes!Operation BY <2>1 DEF Processes!Fail, Processes!Operation, Processes!Steps
    <2> QED BY <2>2 DEF Processes!ListPods
  <1>2. CASE ~\E p \in Processes!LivePods : Processes!unaccountable(p)
    <2> DEFINE S == {Processes!observedPod(p) : p \in Processes!LivePods} \cup Processes!missing
               T == /\ Processes!missing = {} /\ \A p \in Processes!LivePods : Processes!terminal(p)
                    /\ Processes!quiescedDeployment /\ Processes!quiescedSets
               R == {p \in Processes!LivePods : Processes!terminal(p) /\ pods[p].fin}
    <2>1. op' = [op EXCEPT !.st.pods = S, !.st.term = T, !.rel = R, !.dep = "absent",
                           !.quiet = FALSE, !.none = FALSE, !.pc = "finish"]
      BY <1>2, Zenon DEF Processes!ListPods
    <2>2. {Processes!observedPod(p) : p \in Processes!LivePods} \subseteq Processes!Known BY <1>2, Known0
    <2>3. Processes!missing \subseteq Processes!Known BY DEF Processes!missing, Processes!Operation,
        Processes!Participant, Processes!Status
    <2>4. S \subseteq Processes!Known /\ R \subseteq Processes!Pods /\ T \in BOOLEAN BY <2>2, <2>3
        DEF Processes!LivePods
    <2> HIDE DEF S, T, R
    <2>5. op' \in Processes!Operation BY <2>1, <2>4 DEF Processes!Operation, Processes!Status, Processes!Steps
    <2> QED BY <2>5 DEF Processes!ListPods
  <1> QED BY <1>1, <1>2

LEMMA WriteType ==
  ASSUME Processes!TypeOK, Processes!Adopt \/ Processes!Finish
         \/ (\E p \in Processes!Pods : Processes!Release(p)) \/ Processes!Released
                 \/ (\E ready \in BOOLEAN : Processes!StopControlWorkload(ready)) \/ Processes!Activate
  PROVE  Processes!TypeOK'
  <1> USE ProcessIdleType DEF Processes!TypeOK, Processes!Return
  <1>1. CASE Processes!Adopt BY <1>1 DEF Processes!Adopt, Processes!Participant, Processes!Operation,
      Processes!Steps
  <1>2. CASE Processes!Finish
    <2>1. part' \in Processes!Participant BY <1>2 DEF Processes!Finish, Processes!Participant,
        Processes!Operation
    <2>2. op' \in Processes!Operation BY <1>2, <2>1 DEF Processes!Finish, Processes!Operation, Processes!Steps
    <2>3. recorded' \subseteq Processes!Pods
      <3>1. op.st.pods \subseteq Processes!Known BY DEF Processes!Operation, Processes!Status
      <3> QED BY <1>2, <3>1 DEF Processes!Finish, Processes!Known
    <2> QED BY <1>2, <2>1, <2>2, <2>3 DEF Processes!Finish
  <1>3. ASSUME NEW p \in Processes!Pods, Processes!Release(p) PROVE Processes!TypeOK'
    <2>1. [pods[p] EXCEPT !.fin = FALSE] \in Processes!Pod BY DEF Processes!Pod
    <2>2. pods' \in [Processes!Pods -> Processes!Pod] BY <1>3, <2>1 DEF Processes!Release
    <2>3. op' \in Processes!Operation BY <1>3 DEF Processes!Release, Processes!Operation
    <2> QED BY <1>3, <2>2, <2>3 DEF Processes!Release
  <1>4. CASE Processes!Released
    <2>1. part' \in Processes!Participant BY <1>4 DEF Processes!Released, Processes!Participant
    <2>2. op' \in Processes!Operation BY <1>4, <2>1 DEF Processes!Released, Processes!Operation,
        Processes!Steps
    <2> QED BY <1>4, <2>1, <2>2 DEF Processes!Released
  <1>5. CASE \E ready \in BOOLEAN : Processes!StopControlWorkload(ready)
    <2>1. op' \in Processes!Operation BY <1>5, AgainType DEF Processes!StopControlWorkload
    <2>2. dep' \in Processes!Workload BY <1>5 DEF Processes!StopControlWorkload, Processes!Workload
    <2> QED BY <1>5, <2>1, <2>2 DEF Processes!StopControlWorkload
  <1>6. CASE Processes!Activate
    <2>1. op' \in Processes!Operation BY <1>6 DEF Processes!Activate, Processes!Again, Processes!Operation,
        Processes!Steps
    <2>2. dep' \in Processes!Workload /\ used' \in [ep : 0..ProcessEpochs, set : 0..ProcessSets,
          pod : 0..ProcessPods]
      <3>1. CASE dep.ep = 0
        <4>1. used.ep + 1 \in Processes!Epochs BY <1>6, <3>1, ProcessBounds DEF Processes!Activate,
            Processes!Epochs
        <4>2. used' = [used EXCEPT !.ep = @ + 1] BY <1>6, <3>1 DEF Processes!Activate
        <4>3. dep' = [Processes!NoWorkload EXCEPT !.ep = used.ep + 1, !.want = 1, !.tmpl = root.tmpl]
          BY <1>6, <3>1 DEF Processes!Activate
        <4>4. dep' \in Processes!Workload BY <4>1, <4>3 DEF Processes!Workload, Processes!Root,
            Processes!NoWorkload
        <4>5. used.ep + 1 \in 0..ProcessEpochs BY <4>1, ProcessBounds DEF Processes!Epochs
        <4> QED BY <4>2, <4>4, <4>5
      <3>2. CASE dep.ep # 0
        BY <1>6, <3>2 DEF Processes!Activate, Processes!Workload, Processes!Root
      <3> QED BY <3>1, <3>2
    <2> QED BY <1>6, <2>1, <2>2 DEF Processes!Activate
  <1> QED BY <1>1, <1>2, <1>3, <1>4, <1>5, <1>6

LEMMA WorkloadType ==
  ASSUME Processes!TypeOK, \/ Processes!ObserveDeployment \/ Processes!ReportDeployment
                              \/ Processes!DeleteDeployment
                           \/ \E s \in Processes!Sets : Processes!ScaleDown(s) \/ Processes!ScaleUp(s)
                              \/ Processes!ObserveSet(s) \/ Processes!ReportSet(s) \/ Processes!CollectSet(s)
  PROVE  Processes!TypeOK'
  <1> USE DEF Processes!TypeOK
  <1>1. CASE Processes!ObserveDeployment BY <1>1 DEF Processes!ObserveDeployment, Processes!Workload
  <1>2. CASE Processes!ReportDeployment
    <2> DEFINE S == {s \in Processes!LiveSets : sets[s].ep = dep.ep /\ sets[s].count > 0}
    <2>1. S \in SUBSET Processes!Sets BY DEF Processes!LiveSets
    <2> HIDE DEF S
    <2>3. Processes!Cardinality(S) \in Nat BY <2>1, Counted
    <2>2. dep' = [dep EXCEPT !.seen = TRUE, !.count = Processes!Cardinality(S)] BY <1>2
        DEF Processes!ReportDeployment, S
    <2> QED BY <1>2, <2>3, <2>2 DEF Processes!ReportDeployment, Processes!Workload
  <1>3. CASE Processes!DeleteDeployment BY <1>3 DEF Processes!DeleteDeployment, Processes!Take,
      Processes!NoWorkload, Processes!Workload
  <1>4. ASSUME NEW s \in Processes!Sets, Processes!ScaleDown(s) PROVE Processes!TypeOK' BY <1>4
      DEF Processes!ScaleDown, Processes!Workload
  <1>5. ASSUME NEW s \in Processes!Sets, Processes!ScaleUp(s) PROVE Processes!TypeOK'
    <2>1. [sets[s] EXCEPT !.want = 1, !.seen = FALSE] \in Processes!Workload BY DEF Processes!Workload
    <2>2. dep.ep # 0 => [Processes!NoWorkload EXCEPT !.ep = dep.ep, !.want = 1,
          !.tmpl = dep.tmpl] \in Processes!Workload
      BY DEF Processes!Workload, Processes!NoWorkload
    <2>3. sets' \in [Processes!Sets -> Processes!Workload]
      <3>1. CASE sets' = [sets EXCEPT ![s].want = 1, ![s].seen = FALSE] BY <3>1, <2>1
      <3> QED BY <1>5, <3>1, <2>2 DEF Processes!ScaleUp
    <2>4. used' \in [ep : 0..ProcessEpochs, set : 0..ProcessSets, pod : 0..ProcessPods]
      BY <1>5, ProcessBounds DEF Processes!ScaleUp, Processes!Sets
    <2> QED BY <1>5, <2>3, <2>4 DEF Processes!ScaleUp
  <1>6. ASSUME NEW s \in Processes!Sets, Processes!ObserveSet(s) PROVE Processes!TypeOK' BY <1>6
      DEF Processes!ObserveSet, Processes!Workload
  <1>7. ASSUME NEW s \in Processes!Sets, Processes!ReportSet(s) PROVE Processes!TypeOK'
    <2>1. Processes!Cardinality(Processes!Active(s)) \in Nat BY Counted DEF Processes!Active,
        Processes!LivePods
    <2> QED BY <1>7, <2>1 DEF Processes!ReportSet, Processes!Workload
  <1>8. ASSUME NEW s \in Processes!Sets, Processes!CollectSet(s) PROVE Processes!TypeOK' BY <1>8
      DEF Processes!CollectSet, Processes!Workload, Processes!NoWorkload
  <1> QED BY <1>1, <1>2, <1>3, <1>4, <1>5, <1>6, <1>7, <1>8

LEMMA PodType ==
  ASSUME Processes!TypeOK,
         \/ \E s \in Processes!Sets, p \in Processes!Pods : Processes!CreatePod(s, p)
         \/ \E p \in Processes!Pods : Processes!DeletePod(p) \/ Processes!StartProcess(p)
            \/ Processes!EndProcess(p) \/ Processes!ReportProcess(p)
                            \/ Processes!LoseNode(p) \/ Processes!Vanish(p)
  PROVE  Processes!TypeOK'
  <1> USE DEF Processes!TypeOK
  <1>1. ASSUME NEW s \in Processes!Sets, NEW p \in Processes!Pods, Processes!CreatePod(s, p)
        PROVE  Processes!TypeOK'
    <2>1. [Processes!NoPod EXCEPT !.set = s, !.fin = TRUE] \in Processes!Pod BY DEF Processes!NoPod,
        Processes!Pod
    <2>2. pods' \in [Processes!Pods -> Processes!Pod] BY <1>1, <2>1 DEF Processes!CreatePod
    <2>3. used' \in [ep : 0..ProcessEpochs, set : 0..ProcessSets, pod : 0..ProcessPods]
      <3>1. used' = [used EXCEPT !.pod = p] BY <1>1 DEF Processes!CreatePod
      <3>2. p \in 0..ProcessPods BY ProcessBounds DEF Processes!Pods
      <3> QED BY <3>1, <3>2
    <2> QED BY <1>1, <2>2, <2>3 DEF Processes!CreatePod
  <1>2. ASSUME NEW p \in Processes!Pods, Processes!DeletePod(p) PROVE Processes!TypeOK'
    <2>1. [pods[p] EXCEPT !.deleting = TRUE] \in Processes!Pod BY DEF Processes!Pod
    <2>2. pods' \in [Processes!Pods -> Processes!Pod] BY <1>2, <2>1 DEF Processes!DeletePod
    <2> QED BY <1>2, <2>2 DEF Processes!DeletePod
  <1>3. ASSUME NEW p \in Processes!Pods, Processes!StartProcess(p) \/ Processes!EndProcess(p)
               \/ Processes!ReportProcess(p) \/ Processes!LoseNode(p) \/ Processes!Vanish(p)
        PROVE Processes!TypeOK'
    <2>1. \E q \in Processes!Pod : Processes!SetPod(p, q)
      <3>1. pods[p] \in Processes!Pod OBVIOUS
      <3> HIDE DEF Processes!TypeOK
      <3> QED BY <1>3, <3>1 DEF Processes!StartProcess, Processes!EndProcess, Processes!ReportProcess,
          Processes!LoseNode, Processes!Vanish, Processes!Pod, Processes!NoPod
    <2>2. pods' \in [Processes!Pods -> Processes!Pod] BY <2>1 DEF Processes!SetPod
    <2>3. budget' \in [Processes!Kinds -> Nat]
      <3>1. Processes!Take("Evict") \/ Processes!Take("NodeLost") \/ UNCHANGED budget
        BY <1>3 DEF Processes!StartProcess, Processes!EndProcess, Processes!ReportProcess, Processes!LoseNode,
            Processes!Vanish
      <3> QED BY <3>1, Taken DEF Processes!Kinds
    <2> QED BY <2>1, <2>2, <2>3 DEF Processes!SetPod
  <1> QED BY <1>1, <1>2, <1>3

LEMMA UserType ==
  ASSUME Processes!TypeOK, Processes!Users PROVE Processes!TypeOK'
  <1>0. (\E k \in {"Delete", "Remove", "Select", "Template"} : Processes!Take(k))
        => budget' \in [Processes!Kinds -> Nat]
    BY Taken DEF Processes!Kinds
  <1> USE <1>0 DEF Processes!TypeOK
  <1>1. CASE Processes!DeleteNetwork
    <2>1. root' \in Processes!Root
      <3>1. root' = [root EXCEPT !.deleting = TRUE, !.gen = @ + 1] BY <1>1 DEF Processes!DeleteNetwork
      <3>2. root.gen + 1 \in Nat BY DEF Processes!Root
      <3>3. (~root.selected) \in BOOLEAN OBVIOUS
      <3> QED BY <3>1, <3>2, <3>3 DEF Processes!Root
    <2> QED BY <1>1, <2>1 DEF Processes!DeleteNetwork
  <1>2. CASE Processes!RemoveParticipant
    <2>1. part' \in Processes!Participant BY <1>2 DEF Processes!RemoveParticipant, Processes!Participant
    <2> QED BY <1>2, <2>1 DEF Processes!RemoveParticipant
  <1>3. CASE Processes!SelectParticipant
    <2>1. root' \in Processes!Root
      <3>1. root' = [root EXCEPT !.selected = ~@, !.gen = @ + 1] BY <1>3 DEF Processes!SelectParticipant
      <3>2. root.gen + 1 \in Nat BY DEF Processes!Root
      <3>3. (~root.selected) \in BOOLEAN OBVIOUS
      <3> QED BY <3>1, <3>2, <3>3 DEF Processes!Root
    <2> QED BY <1>3, <2>1 DEF Processes!SelectParticipant
  <1>4. CASE Processes!ChangeTemplate
    <2>1. root' \in Processes!Root BY <1>4 DEF Processes!ChangeTemplate, Processes!Root
    <2> QED BY <1>4, <2>1 DEF Processes!ChangeTemplate
  <1> QED BY <1>1, <1>2, <1>3, <1>4 DEF Processes!Users

LEMMA TypeStep ==
  ASSUME Processes!TypeOK, [Processes!Next]_(Processes!vars) PROVE Processes!TypeOK'
  <1>1. CASE Processes!Reconcile BY <1>1, ReadType, ListPodsType, WriteType DEF Processes!Reconcile
  <1>2. CASE Processes!Cluster BY <1>2, WorkloadType, PodType DEF Processes!Cluster
  <1>3. CASE Processes!Users BY <1>3, UserType
  <1>4. CASE UNCHANGED Processes!vars BY <1>4 DEF Processes!vars, Processes!TypeOK
  <1> QED BY <1>1, <1>2, <1>3, <1>4 DEF Processes!Next

-----------------------------------------------------------------------------
(* Initially *)

LEMMA ProcessInitially == Processes!Init => ProcessInv
  <1> SUFFICES ASSUME Processes!Init PROVE ProcessInv OBVIOUS
  <1>1. Processes!LiveSets = {} /\ Processes!LivePods = {} BY DEF Processes!Init, Processes!LiveSets,
      Processes!LivePods, Processes!NoWorkload, Processes!NoPod
  <1>2. Ended BY <1>1 DEF Processes!Init, Ended, DeploymentQuiet, SetsQuiet, Processes!NoWorkload
  <1>3. ClusterInv BY DEF Processes!Init, ClusterInv, Processes!NoWorkload, Processes!NoPod
  <1>4. ReadInv BY DEF Processes!Init, ReadInv, Processes!Idle
  <1>5. OwnerInv BY <1>2 DEF Processes!Init, OwnerInv, Processes!Idle, Processes!NewRoot,
      Processes!NewParticipant, Processes!NoStatus, Adopted
  <1> QED BY InitType, <1>3, <1>4, <1>5 DEF ProcessInv

-----------------------------------------------------------------------------
(* The controllers, the collector and the kubelet *)

\* What is quiet stays so, as only a reconciliation asks for a replica.
ProcessClusterKeeps ==
    /\ ClusterInv'
    /\ DeploymentQuiet => DeploymentQuiet'
    /\ DeploymentQuiet /\ SetsQuiet => SetsQuiet'
    /\ Ended => Ended'

LEMMA DeploymentKeeps ==
  ASSUME Processes!TypeOK, ClusterInv, Processes!ObserveDeployment \/ Processes!ReportDeployment
         \/ Processes!DeleteDeployment
  PROVE  ProcessClusterKeeps
  <1>1. UNCHANGED <<sets, pods, recorded>> BY DEF Processes!ObserveDeployment, Processes!ReportDeployment,
      Processes!DeleteDeployment
  <1>2. dep \in Processes!Workload BY DEF Processes!TypeOK
  <1>3. (DeploymentQuiet => DeploymentQuiet') /\ (dep'.seen => dep'.view = dep'.want)
    <2> USE <1>2 DEF DeploymentQuiet, Processes!Workload
    <2>1. CASE Processes!ObserveDeployment BY <2>1 DEF Processes!ObserveDeployment
    <2>2. CASE Processes!ReportDeployment BY <2>2 DEF Processes!ReportDeployment
    <2>3. CASE Processes!DeleteDeployment BY <2>3 DEF Processes!DeleteDeployment, Processes!NoWorkload
    <2> QED BY <2>1, <2>2, <2>3
  <1>5. Processes!LiveSets' = Processes!LiveSets /\ Processes!LivePods' = Processes!LivePods BY <1>1
      DEF Processes!LiveSets, Processes!LivePods
  <1> QED BY <1>1, <1>3, <1>5 DEF ProcessClusterKeeps, ClusterInv, SetsQuiet, Ended

LEMMA SetKeeps ==
  ASSUME Processes!TypeOK, ClusterInv, NEW s \in Processes!Sets,
         Processes!ScaleDown(s) \/ Processes!ScaleUp(s) \/ Processes!ObserveSet(s) \/ Processes!ReportSet(s)
             \/ Processes!CollectSet(s)
  PROVE  ProcessClusterKeeps
  <1>1. UNCHANGED <<dep, pods, recorded>> BY DEF Processes!ScaleDown, Processes!ScaleUp, Processes!ObserveSet,
      Processes!ReportSet, Processes!CollectSet
  <1> DEFINE work == sets'[s]
  <1>2. \A t \in Processes!Sets : t # s => sets'[t] = sets[t]
    BY DEF Processes!ScaleDown, Processes!ScaleUp, Processes!ObserveSet, Processes!ReportSet,
        Processes!CollectSet, Processes!TypeOK
  <1>3. work.seen => work.view = work.want
    <2>1. sets[s] \in Processes!Workload /\ (sets[s].seen => sets[s].view = sets[s].want)
        BY DEF Processes!TypeOK, ClusterInv
    <2>2. sets \in [Processes!Sets -> Processes!Workload] BY DEF Processes!TypeOK
    <2> USE <2>1, <2>2 DEF Processes!Workload
    <2>3. CASE Processes!ScaleDown(s) BY <2>3 DEF Processes!ScaleDown
    <2>4. CASE Processes!ScaleUp(s)
      <3>1. \/ sets' = [sets EXCEPT ![s].want = 1, ![s].seen = FALSE]
            \/ sets' = [sets EXCEPT ![s] = [Processes!NoWorkload EXCEPT !.ep = dep.ep, !.want = 1,
               !.tmpl = dep.tmpl]]
        BY <2>4 DEF Processes!ScaleUp
      <3>2. CASE sets' = [sets EXCEPT ![s].want = 1, ![s].seen = FALSE] BY <3>2
      <3>3. CASE sets' = [sets EXCEPT ![s] = [Processes!NoWorkload EXCEPT !.ep = dep.ep, !.want = 1,
            !.tmpl = dep.tmpl]]
        BY <3>3 DEF Processes!NoWorkload
      <3> QED BY <3>1, <3>2, <3>3
    <2>5. CASE Processes!ObserveSet(s) BY <2>5 DEF Processes!ObserveSet
    <2>6. CASE Processes!ReportSet(s) BY <2>6 DEF Processes!ReportSet
    <2>7. CASE Processes!CollectSet(s) BY <2>7 DEF Processes!CollectSet, Processes!NoWorkload
    <2> QED BY <2>3, <2>4, <2>5, <2>6, <2>7
  <1>4. DeploymentQuiet /\ SetsQuiet => work.ep = 0 \/ (work.want = 0 /\ work.view = 0)
    BY DEF Processes!ScaleDown, Processes!ScaleUp, Processes!ObserveSet, Processes!ReportSet,
        Processes!CollectSet, Processes!TypeOK, ClusterInv, Processes!Workload, Processes!NoWorkload,
           DeploymentQuiet, SetsQuiet, Processes!LiveSets
  <1> HIDE DEF work
  <1>5. DeploymentQuiet => DeploymentQuiet' BY <1>1 DEF DeploymentQuiet
  <1>6. ClusterInv' BY <1>1, <1>2, <1>3 DEF ClusterInv, work
  <1>7. DeploymentQuiet /\ SetsQuiet => SetsQuiet' BY <1>2, <1>4 DEF SetsQuiet, Processes!LiveSets, work
  <1>8. Processes!LivePods' = Processes!LivePods BY <1>1 DEF Processes!LivePods
  <1> QED BY <1>1, <1>5, <1>6, <1>7, <1>8 DEF ProcessClusterKeeps, Ended

LEMMA ProcessPodKeeps ==
  ASSUME Processes!TypeOK, ClusterInv, NEW p \in Processes!Pods,
         \/ \E s \in Processes!Sets : Processes!CreatePod(s, p)
         \/ Processes!DeletePod(p) \/ Processes!StartProcess(p) \/ Processes!EndProcess(p)
            \/ Processes!ReportProcess(p) \/ Processes!LoseNode(p) \/ Processes!Vanish(p)
  PROVE  ProcessClusterKeeps
  <1> DEFINE q == pods'[p]
  <1>1. UNCHANGED <<dep, sets, recorded>>
    BY DEF Processes!CreatePod, Processes!DeletePod, Processes!StartProcess, Processes!EndProcess,
        Processes!ReportProcess, Processes!LoseNode, Processes!Vanish, Processes!SetPod
  <1>2. \A r \in Processes!Pods : r # p => pods'[r] = pods[r]
    BY DEF Processes!CreatePod, Processes!DeletePod, Processes!StartProcess, Processes!EndProcess,
        Processes!ReportProcess, Processes!LoseNode, Processes!Vanish, Processes!SetPod, Processes!TypeOK
  <1>3. pods \in [Processes!Pods -> Processes!Pod] /\ pods[p] \in Processes!Pod BY DEF Processes!TypeOK
  <1>4. /\ q.evidence = "terminal" => q.proc = "dead"
        /\ q.proc # "new" => q.scheduled /\ q.set # 0
        /\ q.set # 0 /\ ~q.fin => p \in recorded
    <2>1. CASE \E s \in Processes!Sets : Processes!CreatePod(s, p)
      <3>1. PICK s \in Processes!Sets : pods' = [pods EXCEPT ![p] = [Processes!NoPod EXCEPT !.set = s,
            !.fin = TRUE]]
        BY <2>1 DEF Processes!CreatePod
      <3> QED BY <3>1, <1>3 DEF Processes!NoPod
    <2>2. CASE Processes!DeletePod(p) BY <2>2, <1>3 DEF Processes!DeletePod, Processes!Pod, ClusterInv
    <2> USE <1>3 DEF Processes!SetPod, Processes!Pod, ClusterInv, Processes!LivePods
    <2>3. CASE Processes!StartProcess(p) BY <2>3 DEF Processes!StartProcess
    <2>4. CASE Processes!EndProcess(p) BY <2>4 DEF Processes!EndProcess
    <2>5. CASE Processes!ReportProcess(p) BY <2>5 DEF Processes!ReportProcess
    <2>6. CASE Processes!LoseNode(p) BY <2>6 DEF Processes!LoseNode
    <2>7. CASE Processes!Vanish(p) BY <2>7 DEF Processes!Vanish, Processes!NoPod
    <2> QED BY <2>1, <2>2, <2>3, <2>4, <2>5, <2>6, <2>7
  <1>5. Ended => (q.set # 0 => q.proc = "dead" \/ (q.proc = "new" /\ q.deleting))
    <2> SUFFICES ASSUME Ended PROVE q.set # 0 => q.proc = "dead" \/ (q.proc = "new" /\ q.deleting)
      OBVIOUS
    <2>1. ASSUME NEW s \in Processes!Sets, Processes!CreatePod(s, p) PROVE FALSE
      <3>1. s \in Processes!LiveSets /\ sets[s].view = 1 BY <2>1 DEF Processes!CreatePod, Processes!LiveSets
      <3> QED BY <3>1 DEF Ended, SetsQuiet
    <2>2. p \in Processes!LivePods /\ (pods[p].proc = "dead" \/ (pods[p].proc = "new" /\ pods[p].deleting))
      BY <2>1 DEF Ended, Processes!DeletePod, Processes!StartProcess, Processes!EndProcess,
          Processes!ReportProcess, Processes!LoseNode, Processes!Vanish
    <2>3. CASE Processes!DeletePod(p) BY <2>2, <2>3, <1>3 DEF Processes!DeletePod, Processes!Pod
    <2>4. CASE Processes!StartProcess(p) \/ Processes!EndProcess(p) \/ Processes!ReportProcess(p)
          \/ Processes!LoseNode(p) \/ Processes!Vanish(p)
      BY <2>2, <2>4, <1>3 DEF Processes!StartProcess, Processes!EndProcess, Processes!ReportProcess,
          Processes!LoseNode, Processes!Vanish, Processes!SetPod, Processes!Pod, Processes!NoPod
    <2> QED BY <2>1, <2>3, <2>4
  <1> HIDE DEF q
  <1>6. ClusterInv' BY <1>1, <1>2, <1>4 DEF ClusterInv, q
  <1>7. DeploymentQuiet' = DeploymentQuiet /\ SetsQuiet' = SetsQuiet
    BY <1>1 DEF DeploymentQuiet, SetsQuiet, Processes!LiveSets
  <1>8. Ended => Ended' BY <1>2, <1>5, <1>7 DEF Ended, Processes!LivePods, q
  <1> QED BY <1>6, <1>7, <1>8 DEF ProcessClusterKeeps

LEMMA ClusterStep ==
  ASSUME ProcessInv, Processes!Cluster PROVE ClusterInv' /\ ReadInv' /\ OwnerInv'
  <1>1. ProcessClusterKeeps BY DeploymentKeeps, SetKeeps, ProcessPodKeeps DEF ProcessInv, Processes!Cluster
  <1>2. UNCHANGED <<root, part, op, recorded>>
    BY DEF Processes!Cluster, Processes!ObserveDeployment, Processes!ReportDeployment,
        Processes!DeleteDeployment, Processes!ScaleDown, Processes!ScaleUp, Processes!ObserveSet,
           Processes!ReportSet, Processes!CollectSet, Processes!CreatePod, Processes!DeletePod,
               Processes!StartProcess, Processes!EndProcess, Processes!ReportProcess, Processes!LoseNode,
           Processes!Vanish, Processes!SetPod
  <1>3. ReadInv' BY <1>1, <1>2 DEF ProcessInv, ReadInv, ProcessClusterKeeps, Processes!Stopping
  <1>4. OwnerInv' BY <1>1, <1>2 DEF ProcessInv, OwnerInv, ProcessClusterKeeps
  <1> QED BY <1>1, <1>3, <1>4 DEF ProcessClusterKeeps

-----------------------------------------------------------------------------
(* Users *)

LEMMA UserStep ==
  ASSUME ProcessInv, Processes!Users PROVE ClusterInv' /\ ReadInv' /\ OwnerInv'
  <1>1. UNCHANGED Processes!objects
    BY DEF Processes!Users, Processes!DeleteNetwork, Processes!RemoveParticipant, Processes!SelectParticipant,
        Processes!ChangeTemplate
  <1>2. Ended' = Ended /\ DeploymentQuiet' = DeploymentQuiet /\ SetsQuiet' = SetsQuiet
    BY <1>1 DEF Ended, DeploymentQuiet, SetsQuiet, Processes!LiveSets, Processes!LivePods
  <1>3. ClusterInv' BY <1>1 DEF ProcessInv, ClusterInv
  <1>4. ReadInv' BY <1>1, <1>2 DEF ProcessInv, ReadInv, Processes!Stopping
  <1>5. OwnerInv'
    <2>1. /\ root.gen \in Nat /\ op.root.gen \in Nat /\ part.st.gen \in Nat
          /\ root \in Processes!Root /\ part \in Processes!Participant
      BY DEF ProcessInv, Processes!TypeOK, Processes!Root, Processes!Operation, Processes!Participant,
          Processes!Status
    <2>2. CASE Processes!DeleteNetwork
      <3>1. root' = [root EXCEPT !.deleting = TRUE, !.gen = @ + 1] /\ part' = part
        BY <2>2 DEF Processes!DeleteNetwork
      <3>2. root'.gen = root.gen + 1 BY <3>1, <2>1 DEF Processes!Root
      <3> QED BY <1>1, <1>2, <2>1, <3>1, <3>2 DEF ProcessInv, OwnerInv
    <2>3. CASE Processes!RemoveParticipant
      <3>1. part' = [part EXCEPT !.deleting = TRUE] /\ root' = root BY <2>3 DEF Processes!RemoveParticipant
      <3>2. part'.st = part.st /\ part'.fin = part.fin BY <3>1, <2>1 DEF Processes!Participant
      <3> QED BY <1>1, <1>2, <3>1, <3>2 DEF ProcessInv, OwnerInv
    <2>4. CASE Processes!SelectParticipant
      <3>1. root' = [root EXCEPT !.selected = ~@, !.gen = @ + 1] /\ part' = part /\ ~root.deleting
        BY <2>4 DEF Processes!SelectParticipant
      <3>2. root'.gen = root.gen + 1 /\ ~root'.deleting BY <3>1, <2>1 DEF Processes!Root
      <3> QED BY <1>1, <1>2, <2>1, <3>1, <3>2 DEF ProcessInv, OwnerInv
    <2>5. CASE Processes!ChangeTemplate
      <3>1. root' = [root EXCEPT !.tmpl = @ + 1] /\ part' = part BY <2>5 DEF Processes!ChangeTemplate
      <3>2. root'.gen = root.gen /\ root'.deleting = root.deleting BY <3>1, <2>1 DEF Processes!Root
      <3> QED BY <1>1, <1>2, <3>1, <3>2 DEF ProcessInv, OwnerInv
    <2> QED BY <2>2, <2>3, <2>4, <2>5 DEF Processes!Users
  <1> QED BY <1>3, <1>4, <1>5

-----------------------------------------------------------------------------
(* The reconciliation *)

\* A step that reads leaves everything else as it is.
LEMMA ProcessWorldKept ==
  ASSUME UNCHANGED <<Processes!world, part, recorded>>
  PROVE  /\ Ended' = Ended /\ DeploymentQuiet' = DeploymentQuiet /\ SetsQuiet' = SetsQuiet
         /\ ClusterInv' = ClusterInv
  BY DEF Ended, DeploymentQuiet, SetsQuiet, Processes!LiveSets, Processes!LivePods, ClusterInv

LEMMA Begins ==
  ASSUME ProcessInv, Processes!Return, UNCHANGED <<Processes!world, part, recorded>>
  PROVE  ClusterInv' /\ ReadInv' /\ OwnerInv'
  <1>1. ClusterInv' BY ProcessWorldKept DEF ProcessInv
  <1>2. ReadInv' BY DEF ReadInv, Processes!Return, Processes!Idle
  <1>3. root.gen \in Nat /\ (root.deleting => root.gen > 1)
    BY DEF ProcessInv, Processes!TypeOK, Processes!Root, OwnerInv
  <1>4. OwnerInv' BY ProcessWorldKept DEF ProcessInv, OwnerInv, Processes!Return, Processes!Idle,
      Processes!NewRoot, Processes!NewParticipant, Adopted
  <1> QED BY <1>1, <1>2, <1>4

LEMMA ParticipantRead ==
  ASSUME ProcessInv, Processes!ReadParticipant PROVE ClusterInv' /\ ReadInv' /\ OwnerInv'
  <1>1. ClusterInv' BY ProcessWorldKept DEF ProcessInv, Processes!ReadParticipant
  <1>2. op'.pc = "root" /\ op'.part = part /\ op'.root = Processes!NewRoot BY DEF Processes!ReadParticipant,
      Processes!Idle
  <1>3. ReadInv' BY <1>2 DEF ReadInv
  <1>4. root.gen \in Nat BY DEF ProcessInv, Processes!TypeOK, Processes!Root
  <1>5. UNCHANGED <<root, part>> /\ Ended' = Ended BY ProcessWorldKept DEF Processes!ReadParticipant
  <1>6. OwnerInv' BY <1>2, <1>4, <1>5 DEF ProcessInv, OwnerInv, Processes!NewRoot, Adopted
  <1> QED BY <1>1, <1>3, <1>6

LEMMA RootRead ==
  ASSUME ProcessInv, Processes!ReadRoot PROVE ClusterInv' /\ ReadInv' /\ OwnerInv'
  <1>1. ClusterInv' BY ProcessWorldKept DEF ProcessInv, Processes!ReadRoot
  <1>2. /\ op'.pc = IF op.part.deleting \/ op.part.fin THEN "deployment" ELSE "adopt"
        /\ op'.part = op.part /\ op'.root = root
    BY DEF Processes!ReadRoot, ProcessInv, Processes!TypeOK, Processes!Operation
  <1>3. ReadInv' BY <1>2 DEF ReadInv
  <1>4. root.gen \in Nat BY DEF ProcessInv, Processes!TypeOK, Processes!Root
  <1>5. UNCHANGED <<root, part>> /\ Ended' = Ended BY ProcessWorldKept DEF Processes!ReadRoot
  <1>6. OwnerInv' BY <1>2, <1>4, <1>5 DEF ProcessInv, OwnerInv, Adopted
  <1> QED BY <1>1, <1>3, <1>6

\* Within the lifecycle a step that writes nothing keeps what the owner vouches for.
LEMMA OwnerKept ==
  ASSUME ProcessInv, UNCHANGED <<Processes!world, part, recorded>>, op'.root = op.root, op'.part = op.part,
         op.pc \in Adopted
  PROVE  OwnerInv'
  BY ProcessWorldKept DEF ProcessInv, OwnerInv, Adopted

LEMMA DeploymentRead ==
  ASSUME ProcessInv, Processes!ReadDeployment PROVE ClusterInv' /\ ReadInv' /\ OwnerInv'
  <1>1. ClusterInv' BY ProcessWorldKept DEF ProcessInv, Processes!ReadDeployment
  <1>2. op \in Processes!Operation /\ op.part.st \in Processes!Status BY DEF ProcessInv, Processes!TypeOK,
      Processes!Operation, Processes!Participant
  <1>3. /\ op.pc = "deployment" /\ op'.pc = "sets" /\ op'.part = op.part /\ op'.root = op.root
        /\ op'.dep # "busy" => dep.ep = 0 \/ Processes!replicaQuiesced(dep)
        /\ op'.st.gen = op.root.gen /\ ~op'.st.term
    BY <1>2 DEF Processes!ReadDeployment, Processes!Operation, Processes!Status
  <1>4. op'.dep # "busy" => DeploymentQuiet
    BY <1>3 DEF DeploymentQuiet, Processes!replicaQuiesced, ProcessInv, ClusterInv
  <1>5. ReadInv' BY <1>3, <1>4, ProcessWorldKept DEF Processes!ReadDeployment, ReadInv
  <1>6. OwnerInv' BY <1>3, OwnerKept DEF Processes!ReadDeployment, Adopted
  <1> QED BY <1>1, <1>5, <1>6

\* A read that fails, or that finds what nobody can account for.
LEMMA Fails ==
  ASSUME ProcessInv, op.pc \in {"sets", "pods"}, Processes!Fail, UNCHANGED <<Processes!world, part, recorded>>
  PROVE  ClusterInv' /\ ReadInv' /\ OwnerInv'
  <1>1. ClusterInv' BY ProcessWorldKept DEF ProcessInv
  <1>2. op'.pc = "finish" /\ op'.part = op.part /\ op'.root = op.root /\ op'.st = op.st /\ ~op'.ok
    BY DEF Processes!Fail, ProcessInv, Processes!TypeOK, Processes!Operation
  <1>3. ReadInv' BY <1>2 DEF ProcessInv, ReadInv
  <1>4. OwnerInv' BY <1>2, OwnerKept DEF Adopted
  <1> QED BY <1>1, <1>3, <1>4

LEMMA SetsListed ==
  ASSUME ProcessInv, Processes!ListSets PROVE ClusterInv' /\ ReadInv' /\ OwnerInv'
  <1>0. CASE Processes!Fail BY <1>0, Fails DEF Processes!ListSets
  <1> DEFINE Q == \A s \in Processes!LiveSets : Processes!replicaQuiesced(sets[s])
             N == Processes!LiveSets = {}
  <1>1. CASE op' = [op EXCEPT !.quiet = Q, !.none = N, !.pc = "pods"]
    <2>1. ClusterInv' BY ProcessWorldKept DEF ProcessInv, Processes!ListSets
    <2>2. Q => SetsQuiet BY DEF SetsQuiet, Processes!replicaQuiesced, ProcessInv, ClusterInv,
        Processes!LiveSets
    <2> HIDE DEF Q, N
    <2>3. /\ op'.pc = "pods" /\ op'.quiet = Q /\ op'.part = op.part /\ op'.root = op.root
          /\ op'.dep = op.dep /\ op'.st = op.st
      BY <1>1 DEF ProcessInv, Processes!TypeOK, Processes!Operation
    <2>4. op.pc = "sets" BY DEF Processes!ListSets
    <2>5. ReadInv' BY <2>2, <2>3, <2>4, ProcessWorldKept DEF Processes!ListSets, ProcessInv, ReadInv
    <2>6. OwnerInv' BY <2>3, <2>4, OwnerKept DEF Processes!ListSets, Adopted
    <2> QED BY <2>1, <2>5, <2>6
  <1> QED BY <1>0, <1>1, Zenon DEF Processes!ListSets

\* What the three reads take for the end is one: nothing that was seen quiet has come back.
LEMMA EndSeen ==
  ASSUME ProcessInv, op.pc = "pods", Processes!quiescedDeployment, Processes!quiescedSets,
         \A p \in Processes!LivePods : Processes!terminal(p)
  PROVE  Ended
  <1>1. DeploymentQuiet /\ SetsQuiet
    BY DEF Processes!quiescedDeployment, Processes!quiescedSets, ProcessInv, ReadInv
  <1>2. ASSUME NEW p \in Processes!LivePods
        PROVE  pods[p].proc = "dead" \/ (pods[p].proc = "new" /\ pods[p].deleting)
    <2>1. Processes!terminal(p) /\ p \in Processes!Pods /\ pods[p] \in Processes!Pod
        BY DEF Processes!LivePods, ProcessInv, Processes!TypeOK
    <2> QED BY <2>1 DEF Processes!terminal, Processes!controlPodTerminated, Processes!Pod, ProcessInv,
        ClusterInv
  <1> QED BY <1>1, <1>2 DEF Ended

LEMMA PodsListed ==
  ASSUME ProcessInv, Processes!ListPods PROVE ClusterInv' /\ ReadInv' /\ OwnerInv'
  <1>0. CASE Processes!Fail BY <1>0, Fails DEF Processes!ListPods
  <1> DEFINE S == {Processes!observedPod(p) : p \in Processes!LivePods} \cup Processes!missing
             T == /\ Processes!missing = {} /\ \A p \in Processes!LivePods : Processes!terminal(p)
                  /\ Processes!quiescedDeployment /\ Processes!quiescedSets
             R == {p \in Processes!LivePods : Processes!terminal(p) /\ pods[p].fin}
  <1>1. CASE op' = [op EXCEPT !.st.pods = S, !.st.term = T, !.rel = R, !.dep = "absent",
                              !.quiet = FALSE, !.none = FALSE, !.pc = "finish"]
    <2>1. ClusterInv' BY ProcessWorldKept DEF ProcessInv, Processes!ListPods
    <2>2. T => Ended BY EndSeen DEF Processes!ListPods
    <2>3. R \subseteq {k.uid : k \in {j \in S : j.term}}
      <3>1. \A p \in R : Processes!observedPod(p) \in S /\ Processes!observedPod(p).uid = p
            /\ Processes!observedPod(p).term
        BY DEF Processes!observedPod
      <3> HIDE DEF R, S
      <3> QED BY <3>1
    <2> HIDE DEF S, T, R
    <2>4. /\ op'.pc = "finish" /\ op'.part = op.part /\ op'.root = op.root /\ op'.rel = R
          /\ op'.st.pods = S /\ op'.st.term = T /\ op'.st.gen = op.st.gen
      BY <1>1 DEF ProcessInv, Processes!TypeOK, Processes!Operation, Processes!Status
    <2>5. op.pc = "pods" BY DEF Processes!ListPods
    <2>6. ReadInv' BY <2>2, <2>3, <2>4, <2>5, ProcessWorldKept DEF Processes!ListPods, ProcessInv, ReadInv
    <2>7. OwnerInv' BY <2>4, <2>5, OwnerKept DEF Processes!ListPods, Adopted
    <2> QED BY <2>1, <2>6, <2>7
  <1> QED BY <1>0, <1>1, Zenon DEF Processes!ListPods

LEMMA AdoptStep ==
  ASSUME ProcessInv, Processes!Adopt PROVE ClusterInv' /\ ReadInv' /\ OwnerInv'
  <1>1. ClusterInv' BY DEF ProcessInv, Processes!Adopt, ClusterInv
  <1>2. part \in Processes!Participant /\ op \in Processes!Operation BY DEF ProcessInv, Processes!TypeOK
  <1>3. /\ op.pc = "adopt" /\ op'.pc = "deployment" /\ op'.part = part' /\ op'.root = op.root
        /\ part'.fin /\ part'.st = part.st
    BY <1>2 DEF Processes!Adopt, Processes!Participant, Processes!Operation
  <1>4. ReadInv' BY <1>3 DEF ReadInv
  <1>5. root' = root /\ Ended' = Ended
    BY DEF Processes!Adopt, Ended, DeploymentQuiet, SetsQuiet, Processes!LiveSets, Processes!LivePods
  <1>6. OwnerInv' BY <1>3, <1>5 DEF ProcessInv, OwnerInv, Adopted
  <1> QED BY <1>1, <1>4, <1>6

LEMMA FinishStep ==
  ASSUME ProcessInv, Processes!Finish PROVE ClusterInv' /\ ReadInv' /\ OwnerInv'
  <1>1. part \in Processes!Participant /\ op \in Processes!Operation /\ root.gen \in Nat
        /\ op.root.gen \in Nat
    BY DEF ProcessInv, Processes!TypeOK, Processes!Root, Processes!Operation
  <1>2. /\ op.pc = "finish" /\ part = op.part /\ part' = [part EXCEPT !.st = op.st]
        /\ recorded' = recorded \cup {k.uid : k \in {j \in op.st.pods : j.term}}
        /\ UNCHANGED Processes!world
    BY DEF Processes!Finish
  <1>3. part'.st = op.st /\ part'.fin = part.fin /\ part'.deleting = part.deleting
    BY <1>1, <1>2 DEF Processes!Participant
  <1>4. ClusterInv' BY <1>2 DEF ProcessInv, ClusterInv
  <1>5. Ended' = Ended BY <1>2 DEF Ended, DeploymentQuiet, SetsQuiet, Processes!LiveSets, Processes!LivePods
  <1>6. op.st.gen = op.root.gen /\ (op.st.term => Ended) BY <1>2 DEF ProcessInv, ReadInv
  <1>7. root.deleting /\ part'.st.term /\ part'.st.gen = root.gen => Ended
    BY <1>3, <1>6
  <1>8. CASE op.ok
    <2>1. op'.pc = "release" /\ op'.part = part' /\ op'.root = op.root /\ op'.rel = op.rel
      BY <1>1, <1>2, <1>8 DEF Processes!Finish, Processes!Operation
    <2>2. op.rel \subseteq {k.uid : k \in {j \in op.st.pods : j.term}}
      BY <1>2, <1>8 DEF ProcessInv, ReadInv
    <2>3. ReadInv' BY <1>2, <1>3, <1>5, <1>6, <2>1, <2>2 DEF ReadInv
    <2>4. OwnerInv' BY <1>1, <1>2, <1>3, <1>5, <1>6, <1>7, <2>1 DEF ProcessInv, OwnerInv, Adopted
    <2> QED BY <1>4, <2>3, <2>4
  <1>9. CASE ~op.ok
    <2>1. op' = Processes!Idle BY <1>9 DEF Processes!Finish
    <2>2. ReadInv' BY <2>1 DEF ReadInv, Processes!Idle
    <2>3. OwnerInv' BY <1>1, <1>2, <1>3, <1>5, <1>6, <1>7, <2>1
                    DEF ProcessInv, OwnerInv, Processes!Idle, Processes!NewRoot, Processes!NewParticipant,
                        Adopted
    <2> QED BY <1>4, <2>2, <2>3
  <1> QED BY <1>8, <1>9

LEMMA ReleaseStep ==
  ASSUME ProcessInv, NEW p \in Processes!Pods, Processes!Release(p) PROVE ClusterInv' /\ ReadInv' /\ OwnerInv'
  <1>1. pods \in [Processes!Pods -> Processes!Pod] /\ op \in Processes!Operation BY DEF ProcessInv,
      Processes!TypeOK
  <1>2. /\ op.pc = "release" /\ p \in op.rel /\ op'.pc = "release" /\ op'.rel = op.rel \ {p}
        /\ op'.part = op.part /\ op'.root = op.root
        /\ UNCHANGED <<root, part, dep, sets, recorded>>
    BY <1>1 DEF Processes!Release, Processes!Operation
  <1>3. \A q \in Processes!Pods : /\ pods'[q].set = pods[q].set /\ pods'[q].proc = pods[q].proc
                                  /\ pods'[q].deleting = pods[q].deleting
                                     /\ pods'[q].scheduled = pods[q].scheduled
                                  /\ pods'[q].evidence = pods[q].evidence
                                  /\ q # p => pods'[q].fin = pods[q].fin
    BY <1>1 DEF Processes!Release, Processes!Pod
  <1>4. p \in recorded BY <1>2 DEF ProcessInv, ReadInv
  <1>5. ClusterInv' BY <1>2, <1>3, <1>4 DEF ProcessInv, ClusterInv
  <1>6. Ended' = Ended BY <1>2, <1>3 DEF Ended, DeploymentQuiet, SetsQuiet, Processes!LiveSets,
      Processes!LivePods
  <1>7. ReadInv' BY <1>2, <1>6 DEF ProcessInv, ReadInv
  <1>8. OwnerInv' BY <1>2, <1>6 DEF ProcessInv, OwnerInv, Adopted
  <1> QED BY <1>5, <1>7, <1>8

LEMMA ReleasedStep ==
  ASSUME ProcessInv, Processes!Released PROVE ClusterInv' /\ ReadInv' /\ OwnerInv'
  <1>1. part \in Processes!Participant /\ op \in Processes!Operation /\ root.gen \in Nat BY DEF ProcessInv,
      Processes!TypeOK, Processes!Root
  <1>2. op.pc = "release" /\ UNCHANGED <<Processes!world, recorded>> BY DEF Processes!Released
  <1>3. ClusterInv' BY <1>2 DEF ProcessInv, ClusterInv
  <1>4. Ended' = Ended BY <1>2 DEF Ended, DeploymentQuiet, SetsQuiet, Processes!LiveSets, Processes!LivePods
  <1>5. /\ part'.st = part.st /\ part'.deleting = part.deleting
        /\ part' # part => Ended /\ ~part'.fin /\ part'.deleting /\ part = op.part
    BY <1>1, <1>2 DEF Processes!Released, Processes!Participant, ProcessInv, ReadInv
  <1>6. CASE op.last
    <2>1. op' = Processes!Idle BY <1>6 DEF Processes!Released
    <2>2. ReadInv' BY <2>1 DEF ReadInv, Processes!Idle
    <2>3. OwnerInv' BY <1>1, <1>2, <1>4, <1>5, <2>1
                    DEF ProcessInv, OwnerInv, Processes!Idle, Processes!NewRoot, Processes!NewParticipant,
                        Adopted
    <2> QED BY <1>3, <2>2, <2>3
  <1>7. CASE ~op.last
    <2>1. /\ op'.pc = IF Processes!Stopping(op.root, op.part) THEN "stop" ELSE "activate"
          /\ op'.root = op.root /\ op'.part = IF part' = part THEN op.part ELSE part'
      BY <1>1, <1>7 DEF Processes!Released, Processes!Operation
    <2>2. Processes!Stopping(op'.root, op'.part) = Processes!Stopping(op.root, op.part) BY <1>5, <2>1
        DEF Processes!Stopping
    <2>3. ReadInv' BY <2>1, <2>2 DEF ReadInv
    <2>4. OwnerInv' BY <1>2, <1>4, <1>5, <2>1 DEF ProcessInv, OwnerInv, Adopted
    <2> QED BY <1>3, <2>3, <2>4
  <1> QED BY <1>6, <1>7

\* The last pass has the participant and the root of the first one.
LEMMA AgainKeeps ==
  ASSUME ProcessInv, op.pc \in {"stop", "activate"}, op' = Processes!Again(op)
  PROVE  /\ op'.root = op.root /\ op'.part = op.part
         /\ op'.pc \in {"deployment", "adopt"}
         /\ op'.pc = "deployment" => op.part.fin \/ op.part.deleting
  BY DEF Processes!Again, ProcessInv, Processes!TypeOK, Processes!Operation

LEMMA StopStep ==
  ASSUME ProcessInv, NEW ready \in BOOLEAN, Processes!StopControlWorkload(ready)
  PROVE  ClusterInv' /\ ReadInv' /\ OwnerInv'
  <1>1. dep \in Processes!Workload BY DEF ProcessInv, Processes!TypeOK
  <1>2. op.pc = "stop" /\ UNCHANGED <<root, part, sets, pods, recorded>> BY DEF Processes!StopControlWorkload
  <1>3. dep' = dep \/ (dep' = [dep EXCEPT !.want = 0, !.seen = FALSE] /\ op' = Processes!Idle)
    BY DEF Processes!StopControlWorkload, Processes!Return
  <1>4. ClusterInv' BY <1>1, <1>2, <1>3 DEF ProcessInv, ClusterInv, Processes!Workload
  <1>5. Ended => Ended'
    BY <1>1, <1>2, <1>3 DEF Ended, DeploymentQuiet, SetsQuiet, Processes!LiveSets, Processes!LivePods,
        Processes!Workload
  <1>6. CASE op' = Processes!Idle
    <2>1. ReadInv' BY <1>6 DEF ReadInv, Processes!Idle
    <2>2. root.gen \in Nat BY DEF ProcessInv, Processes!TypeOK, Processes!Root
    <2>3. OwnerInv' BY <1>2, <1>5, <1>6, <2>2 DEF ProcessInv, OwnerInv, Processes!Idle, Processes!NewRoot,
        Processes!NewParticipant, Adopted
    <2> QED BY <1>4, <2>1, <2>3
  <1>7. CASE op' = Processes!Again(op)
    <2>1. ReadInv' BY <1>2, <1>7, AgainKeeps DEF ReadInv
    <2>2. OwnerInv' BY <1>2, <1>5, <1>7, AgainKeeps DEF ProcessInv, OwnerInv, Adopted
    <2> QED BY <1>4, <2>1, <2>2
  <1> QED BY <1>6, <1>7 DEF Processes!StopControlWorkload, Processes!Return

\* Nothing vouches for the end when a replica is asked for: the finalizer is there, and the
\* status is older than a deletion of the root.
LEMMA ActivateStep ==
  ASSUME ProcessInv, Processes!Activate PROVE ClusterInv' /\ ReadInv' /\ OwnerInv'
  <1>1. dep \in Processes!Workload /\ root.gen \in Nat /\ op.root.gen \in Nat /\ part.st.gen \in Nat
    BY DEF ProcessInv, Processes!TypeOK, Processes!Root, Processes!Operation, Processes!Participant,
        Processes!Status
  <1>2. op.pc = "activate" /\ op' = Processes!Again(op) /\ UNCHANGED <<root, part, sets, pods, recorded>>
    BY DEF Processes!Activate
  <1>3. dep'.seen => dep'.view = dep'.want
    BY <1>1 DEF Processes!Activate, ProcessInv, ClusterInv, Processes!Workload, Processes!NoWorkload
  <1>4. ClusterInv' BY <1>2, <1>3 DEF ProcessInv, ClusterInv
  <1>5. ReadInv' BY <1>2, AgainKeeps DEF ReadInv
  <1>6. ~op.root.deleting /\ ~op.part.deleting BY <1>2 DEF ProcessInv, ReadInv, Processes!Stopping
  <1>7. part.fin BY <1>2, <1>6 DEF ProcessInv, OwnerInv, Adopted
  <1>8. ~(root.deleting /\ part.st.term /\ part.st.gen = root.gen)
    BY <1>1, <1>2, <1>6 DEF ProcessInv, OwnerInv, Adopted
  <1>9. OwnerInv' BY <1>2, <1>7, <1>8, AgainKeeps DEF ProcessInv, OwnerInv, Adopted
  <1> QED BY <1>4, <1>5, <1>9

LEMMA ReconcileStep ==
  ASSUME ProcessInv, Processes!Reconcile PROVE ClusterInv' /\ ReadInv' /\ OwnerInv'
  <1>1. CASE Processes!ReadFails BY <1>1, Fails DEF Processes!ReadFails
  <1>2. CASE Processes!NotEnrolled \/ Processes!Abort BY <1>2, Begins DEF Processes!NotEnrolled,
      Processes!Abort
  <1> QED BY <1>1, <1>2, ParticipantRead, RootRead, AdoptStep, DeploymentRead, SetsListed, PodsListed,
             FinishStep, ReleaseStep, ReleasedStep, StopStep, ActivateStep DEF Processes!Reconcile

LEMMA ProcessStep ==
  ASSUME ProcessInv, [Processes!Next]_(Processes!vars) PROVE ProcessInv'
  <1>1. Processes!TypeOK' BY TypeStep DEF ProcessInv
  <1>2. CASE UNCHANGED Processes!vars
    <2>1. Ended' = Ended /\ DeploymentQuiet' = DeploymentQuiet /\ SetsQuiet' = SetsQuiet
      BY <1>2 DEF Processes!vars, Ended, DeploymentQuiet, SetsQuiet, Processes!LiveSets, Processes!LivePods
    <2> QED BY <1>1, <1>2, <2>1 DEF Processes!vars, ProcessInv, ClusterInv, ReadInv, OwnerInv,
        Processes!Stopping
  <1> QED BY <1>1, <1>2, ReconcileStep, ClusterStep, UserStep DEF Processes!Next, ProcessInv

LEMMA ProcessEnds ==
  ASSUME ProcessInv PROVE Processes!TerminationTrue /\ Processes!OwnerOutlivesProcess
  <1>1. Ended => Processes!Running = {}
    <2> SUFFICES ASSUME Ended, NEW p \in Processes!Running PROVE FALSE OBVIOUS
    <2>1. p \in Processes!LivePods /\ pods[p].proc = "live" BY DEF Processes!Running, Processes!LivePods,
        ProcessInv, ClusterInv
    <2> QED BY <2>1 DEF Ended
  <1>2. Processes!TerminationTrue BY <1>1 DEF Processes!TerminationTrue, ProcessInv, OwnerInv
  <1>3. Processes!OwnerOutlivesProcess
    BY <1>1 DEF Processes!OwnerOutlivesProcess, ProcessInv, OwnerInv, ClusterInv, Processes!LivePods
  <1> QED BY <1>2, <1>3

-----------------------------------------------------------------------------
(* Actors *)

LEMMA ActorBounds == ActorPods \in Nat /\ ActorCases \subseteq [Actor!Kinds -> Nat]
  BY ControlAssumption DEF Actor!Bounds


USE DEF Actor!world

-----------------------------------------------------------------------------
(* The inductive invariant *)

\* Evidence is of a process that ended, a current count is of what is wanted.
PodInv ==
    /\ pod.evidence = "terminal" => pod.proc = "dead"
    /\ pod.proc # "new" => pod.scheduled
    /\ pod.uid <= born
    /\ pod.uid = 0 => pod = Actor!NoPod
    /\ sts.seen => sts.view = sts.replicas
    /\ ~sts.exists => sts = Actor!NoSet

\* What a copy of status.runtime says of the Pod is so.
Truthful(run) == /\ run.ref <= born
                 /\ run.term /\ run.ref # 0 /\ run.ref = pod.uid => Actor!terminated(pod)

\* A termination is recorded before the Pod is released.
RecordInv ==
    /\ Truthful(part.run) /\ Truthful(op.st)
    /\ op.pc # "idle" => part.run = op.part.run
    /\ part.run.term /\ part.run.ref # 0 => part.run.ref \in recorded
    /\ op.pc = "release" /\ "pod" \notin stale /\ pod.uid # 0 => pod.uid \in recorded
    /\ op.pc = "retain" /\ "pod" \notin stale => pod.uid # 0
    /\ Actor!EvidenceBeforeRelease

DoneReasons == {"Stopped", "Terminated"}

\* The reconciliation may still make the StatefulSet ask for a replica.
Acting == op.pc \in {"converge", "capture", "patch"} \/ (op.pc = "retain" /\ op.then = "patch")

Activating == Acting \/ op.pc \in {"adopt", "recheck", "observe"}

\* The reconciliation has read a suspension.
paused == Actor!suspended(op.root)

\* What the reconciliation has read is followed by what is, and it goes on as it was begun.
CopyInv ==
    /\ op.pc = "idle" => op = Actor!Idle /\ stale = {}
    /\ op.pc # "idle" => ~op.part.gone /\ ("part" \notin stale => part = op.part)
    /\ op.root.stopped => root.stopped
    /\ op.part.deleting => part.deleting
    /\ op.part.fin => part.fin
    /\ part.gone => part.deleting /\ ~part.fin
    /\ Activating => ~Actor!stopping
    /\ Acting \/ op.pc = "recheck" => op.part.fin
    /\ Acting /\ op.pc # "converge" /\ "sts" \notin stale => sts.exists
    /\ op.pc = "retain" => op.then \in {"scale", "finish", "patch"}
    /\ op.pc \in {"scale", "release", "delete"} => op.then = "finish"
    /\ op.pc \in {"confirmed", "drain"} => Actor!stopping
    /\ op.pc \in {"workload", "remaining", "actor"} => Actor!stopping \/ paused
    /\ op.err \in {"", "TerminationUnknown", "Active"}
    /\ op.reason \notin {"Stopped", "Suspended"}
    /\ op.reason = "Terminated" => op.pc \in {"release", "delete", "finish", "unfinal"}

\* What reports the end, or is about to, is true of it.
DoneInv ==
    /\ part.reason \in DoneReasons => Actor!Quiet /\ (root.stopped \/ part.deleting)
    /\ ~part.fin => Actor!Quiet
    /\ Acting => part.reason \notin DoneReasons
    /\ op.reason = "Terminated" => Actor!Quiet /\ (Actor!stopping \/ paused)
    /\ op.pc = "unfinal" => Actor!Quiet
    /\ op.pc = "remaining" => ~sts.exists
    /\ op.pc = "actor" /\ sts.exists /\ op.sts.replicas = 0
         => sts.replicas = 0 /\ (op.sts.seen => sts.view = 0)

\* A stop goes on to the StatefulSet after the drain, or over a recorded termination.
DrainInv ==
    /\ op.pc \in {"workload", "remaining", "actor", "retain", "scale"} /\ Actor!stopping
         => drained \/ op.part.run.term
    /\ op.pc = "confirmed" => op.part.run.term
    /\ op.pc = "root" => op.st = op.part.run

ActorInv == Actor!TypeOK /\ PodInv /\ RecordInv /\ CopyInv /\ DoneInv /\ DrainInv

-----------------------------------------------------------------------------
(* Types, and what a step of the reconciliation leaves of it *)

LEMMA IdleType == Actor!Idle \in Actor!Operation
  BY ActorBounds DEF Actor!Idle, Actor!Operation, Actor!Steps, Actor!NoParticipant, Actor!NoSet,
      Actor!Participant, Actor!Root, Actor!Runtime, Actor!StatefulSet, Actor!Uids, Actor!Reasons, Actor!Bit

LEMMA IdleFields ==
  /\ Actor!Idle.pc = "idle" /\ Actor!Idle.part = Actor!NoParticipant /\ Actor!Idle.root.stopped = FALSE
  /\ Actor!Idle.st.ref = 0 /\ Actor!Idle.st.term = FALSE
  /\ Actor!Idle.reason = "" /\ Actor!Idle.then = "idle" /\ Actor!Idle.err = ""
  /\ Actor!NoParticipant.gone = FALSE /\ Actor!NoParticipant.deleting = FALSE
     /\ Actor!NoParticipant.fin = FALSE
  BY DEF Actor!Idle, Actor!NoParticipant

LEMMA PodNone == Actor!NoPod \in Actor!Pod BY ActorBounds DEF Actor!NoPod, Actor!Pod, Actor!Uids

LEMMA SetNone == Actor!NoSet \in Actor!StatefulSet BY DEF Actor!NoSet, Actor!StatefulSet, Actor!Bit

LEMMA FinishFields ==
  ASSUME Actor!TypeOK, NEW st, NEW reason, Actor!Finish(st, reason)
  PROVE  /\ op'.pc = "finish" /\ op'.st = st /\ op'.reason = reason /\ op'.then = "idle" /\ op'.err = ""
         /\ op'.part = op.part /\ op'.root = op.root /\ op'.sts = Actor!NoSet
         /\ stale' = stale \cap {"part"}
         /\ st \in Actor!Runtime /\ reason \in Actor!Reasons => op' \in Actor!Operation
  <1>1. op' = [op EXCEPT !.pc = "finish", !.st = st, !.reason = reason,
                         !.sts = Actor!NoSet, !.then = "idle", !.err = ""] /\ stale' = stale \cap {"part"}
    BY DEF Actor!Finish
  <1>2. op \in Actor!Operation BY DEF Actor!TypeOK
  <1>3. op' = [pc |-> "finish", part |-> op.part, root |-> op.root, st |-> st, sts |-> Actor!NoSet,
               reason |-> reason, then |-> "idle", err |-> ""] BY <1>1, <1>2 DEF Actor!Operation
  <1>4. {"idle", "finish"} \subseteq Actor!Steps /\ "" \in Actor!Reasons BY DEF Actor!Steps, Actor!Reasons
  <1>5. op.part \in Actor!Participant /\ op.root \in Actor!Root BY <1>2 DEF Actor!Operation
  <1>6. st \in Actor!Runtime /\ reason \in Actor!Reasons => op' \in Actor!Operation BY <1>3, <1>4, <1>5,
      SetNone DEF Actor!Operation
  <1> QED BY <1>1, <1>3, <1>6

LEMMA WriteFields ==
  ASSUME Actor!TypeOK, NEW pc, NEW st, NEW then, NEW reason, NEW err, Actor!Write(pc, st, then, reason, err)
  PROVE  /\ op'.pc = pc /\ op'.st = st /\ op'.reason = reason /\ op'.then = then /\ op'.err = err
         /\ op'.part = op.part /\ op'.root = op.root /\ op'.sts = op.sts
         /\ stale' = stale \ {"pod"}
         /\ pc \in Actor!Steps /\ st \in Actor!Runtime /\ then \in Actor!Steps
            /\ {reason, err} \subseteq Actor!Reasons
              => op' \in Actor!Operation
  BY DEF Actor!Write, Actor!TypeOK, Actor!Operation

LEMMA GotoFields ==
  ASSUME Actor!TypeOK, NEW pc \in Actor!Steps, Actor!Goto(pc)
  PROVE  /\ op'.pc = pc /\ op'.st = op.st /\ op'.reason = op.reason /\ op'.then = op.then
         /\ op'.err = op.err /\ op'.part = op.part /\ op'.root = op.root /\ op'.sts = op.sts
         /\ stale' = stale \cap {"part"}
         /\ op' \in Actor!Operation
  BY DEF Actor!Goto, Actor!TypeOK, Actor!Operation

\* The objects that a step of the reconciliation leaves, or writes without waking what is quiet.
Kept ==
    /\ UNCHANGED <<root, part, drained, born, recorded>>
    /\ pod'.uid = pod.uid /\ (Actor!terminated(pod) => Actor!terminated(pod)')
    /\ Actor!Quiet => Actor!Quiet'
    /\ op.pc # "delete" => sts'.exists = sts.exists
    /\ PodInv' /\ Actor!EvidenceBeforeRelease'
    /\ pod' \in Actor!Pod /\ sts' \in Actor!StatefulSet /\ budget' \in [Actor!Kinds -> Nat]

LEMMA WorldKept ==
  ASSUME ActorInv, UNCHANGED Actor!world PROVE Kept
  BY DEF ActorInv, Kept, Actor!TypeOK, Actor!Quiet, PodInv, RecordInv, Actor!EvidenceBeforeRelease,
      Actor!terminated

LEMMA TruthKept ==
  ASSUME Kept, NEW run, Truthful(run) PROVE Truthful(run)'
  BY DEF Kept, Truthful

LEMMA ReturnKeeps ==
  ASSUME ActorInv, Kept, Actor!Return PROVE ActorInv'
  <1>1. Actor!TypeOK' BY IdleType DEF ActorInv, Actor!TypeOK, Kept, Actor!Return
  <1>2. Truthful(part.run)' BY TruthKept DEF ActorInv, RecordInv, Kept, Truthful
  <1>3. Truthful(op.st)'
    <2>1. op'.st.ref = 0 /\ ~op'.st.term BY DEF Actor!Return, Actor!Idle
    <2>2. born' \in Nat BY <1>1, ActorBounds DEF Actor!TypeOK, Actor!Uids
    <2> QED BY <2>1, <2>2 DEF Truthful
  <1>4. RecordInv' BY <1>2, <1>3 DEF ActorInv, RecordInv, Kept, Actor!Return, Actor!Idle
  <1>5. CopyInv' BY DEF ActorInv, CopyInv, Kept, Actor!Return, Actor!Idle, Actor!NoParticipant, Acting,
      Activating
  <1>6. DoneInv' BY DEF ActorInv, DoneInv, Kept, Actor!Return, Actor!Idle, Acting
  <1>7. DrainInv' BY DEF DrainInv, Actor!Return, Actor!Idle
  <1> QED BY <1>1, <1>4, <1>5, <1>6, <1>7 DEF ActorInv, Kept

\* The reasons that say nothing of an end.
Open == {"", "Active", "DrainingControl", "Stopping", "TerminationUnknown"}

LEMMA FinishKeeps ==
  ASSUME ActorInv, Kept, op.pc # "idle", NEW st \in Actor!Runtime, Truthful(st), NEW reason \in Actor!Reasons,
         \/ reason \in Open
         \/ reason = "Terminated" /\ Actor!Quiet /\ (Actor!stopping \/ paused),
         Actor!Finish(st, reason)
  PROVE  ActorInv'
  <1> USE FinishFields DEF ActorInv
  <1>1. Actor!TypeOK' BY DEF Actor!TypeOK, Kept
  <1>2. Truthful(part.run)' BY TruthKept DEF RecordInv, Kept, Truthful
  <1>3. Truthful(op.st)' BY TruthKept DEF Truthful
  <1>4. RecordInv' BY <1>2, <1>3 DEF RecordInv, Kept
  <1>5. CopyInv' BY DEF CopyInv, Kept, Acting, Activating, Open
  <1>6. DoneInv' BY DEF DoneInv, Kept, Acting, Open, Actor!stopping, paused, Actor!suspended
  <1>7. DrainInv' BY DEF DrainInv
  <1> QED BY <1>1, <1>4, <1>5, <1>6, <1>7 DEF Kept

LEMMA WriteKeeps ==
  ASSUME ActorInv, UNCHANGED Actor!world,
         op.pc \in {"remaining", "actor", "capture", "observe"},
         NEW pc \in {"release", "scale", "retain", "delete", "patch"},
         NEW st \in Actor!Runtime, Truthful(st),
         NEW then \in {"finish", "scale", "patch", "observe"},
         NEW reason \in Actor!Reasons, NEW err \in {"", "TerminationUnknown", "Active"},
         pc \in {"scale", "release", "delete"} => then = "finish",
         pc = "retain" => pod.uid # 0 /\ then # "observe",
         pc = "patch" \/ then = "patch" => op.pc = "capture",
         pc = "release" => pod.uid \in recorded,
         \/ reason \in Open
         \/ /\ reason = "Terminated" /\ Actor!Quiet /\ pc \in {"release", "delete"}
            /\ Actor!stopping \/ paused,
         Actor!Write(pc, st, then, reason, err)
  PROVE  ActorInv'
  <1>0. /\ pc \in Actor!Steps /\ then \in Actor!Steps /\ {reason, err} \subseteq Actor!Reasons
        /\ op.pc # "idle" /\ pc # "idle"
    BY DEF Actor!Steps, Actor!Reasons
  <1>a. Actor!TypeOK BY DEF ActorInv
  <1>b. /\ op'.pc = pc /\ op'.st = st /\ op'.reason = reason /\ op'.then = then /\ op'.err = err
        /\ op'.part = op.part /\ op'.root = op.root /\ op'.sts = op.sts
        /\ stale' = stale \ {"pod"} /\ op' \in Actor!Operation
    <2>1. /\ op'.pc = pc /\ op'.st = st /\ op'.reason = reason /\ op'.then = then /\ op'.err = err
          /\ op'.part = op.part /\ op'.root = op.root /\ op'.sts = op.sts
          /\ stale' = stale \ {"pod"}
      BY <1>a, WriteFields
    <2>2. op' = [op EXCEPT !.pc = pc, !.st = st, !.then = then, !.reason = reason, !.err = err]
        BY DEF Actor!Write
    <2>3. op' \in Actor!Operation BY <1>0, <1>a, <2>2 DEF Actor!TypeOK, Actor!Operation
    <2> QED BY <2>1, <2>3
  <1> HIDE DEF Actor!Write
  <1> USE <1>0, <1>b DEF ActorInv
  <1>1. Actor!TypeOK' BY <1>a DEF Actor!TypeOK
  <1>2. Truthful(part.run)' BY DEF RecordInv, Truthful, Actor!terminated
  <1>3. Truthful(op.st)' BY DEF Truthful, Actor!terminated
  <1>4. RecordInv' BY <1>2, <1>3 DEF RecordInv, Actor!EvidenceBeforeRelease
  <1>5. CopyInv'
    <2>1. Actor!stopping' = Actor!stopping /\ (Activating' => op.pc \in {"capture"})
          /\ (Acting' => Acting) BY DEF Actor!stopping, Activating, Acting
    <2>2. Activating' => ~Actor!stopping BY <2>1 DEF CopyInv, Activating, Acting
    <2>3. op'.reason \notin {"Stopped", "Suspended"} BY DEF Open
    <2>4. op'.reason = "Terminated" => op'.pc \in {"release", "delete", "finish", "unfinal"} BY DEF Open
    <2>5. Acting' => op.part.fin BY <2>1 DEF CopyInv
    <2>6. /\ ~op'.part.gone /\ ("part" \notin stale' => part' = op'.part)
          /\ op'.root.stopped => root'.stopped
          /\ op'.part.deleting => part'.deleting
          /\ op'.part.fin => part'.fin
          /\ part'.gone => part'.deleting /\ ~part'.fin
      BY DEF CopyInv
    <2>7. /\ op'.pc = "retain" => op'.then \in {"scale", "finish", "patch"}
          /\ op'.pc \in {"scale", "release", "delete"} => op'.then = "finish"
          /\ op'.pc \notin {"idle", "recheck", "workload", "remaining", "actor"}
          /\ op'.err \in {"", "TerminationUnknown", "Active"}
      OBVIOUS
    <2> QED BY <2>1, <2>2, <2>3, <2>4, <2>5, <2>6, <2>7 DEF CopyInv
  <1>6. DoneInv'
    <2>1. /\ Actor!stopping' = Actor!stopping /\ (Acting' => Acting) /\ Actor!Quiet' = Actor!Quiet
          /\ paused' = paused
      BY DEF Actor!stopping, Acting, Actor!Quiet, paused, Actor!suspended
    <2> QED BY <2>1 DEF DoneInv, Open
  <1>7. DrainInv'
    <2>1. op.pc \in {"capture", "observe"} => ~Actor!stopping BY DEF CopyInv, Activating, Acting
    <2> QED BY <2>1 DEF DrainInv, Actor!stopping
  <1> QED BY <1>1, <1>4, <1>5, <1>6, <1>7 DEF PodInv

LEMMA ProceedKeeps ==
  ASSUME ActorInv, Kept, op.pc \in {"retain", "release", "scale", "delete"}, Actor!Proceed
  PROVE  ActorInv'
  <1>1. /\ op.st \in Actor!Runtime /\ op.reason \in Actor!Reasons /\ Truthful(op.st) /\ op \in Actor!Operation
        /\ op.then \in {"scale", "finish", "patch"} /\ (op.then # "finish" => op.pc = "retain")
        /\ op.reason \in Open \/ (op.reason = "Terminated" /\ Actor!Quiet /\ (Actor!stopping \/ paused))
    BY DEF ActorInv, Actor!TypeOK, Actor!Operation, RecordInv, CopyInv, DoneInv, Open, Actor!Reasons
  <1>2. CASE op.then = "finish" BY <1>1, <1>2, FinishKeeps DEF Actor!Proceed
  <1>3. CASE op.then # "finish"
    <2>1. op' = [op EXCEPT !.pc = op.then, !.then = "finish"] /\ stale' = stale \ {"pod"} BY <1>3
        DEF Actor!Proceed
    <2>2. /\ op'.pc = op.then /\ op'.then = "finish" /\ op'.part = op.part /\ op'.root = op.root
          /\ op'.st = op.st /\ op'.sts = op.sts /\ op'.reason = op.reason /\ op'.err = op.err
          /\ op' \in Actor!Operation
      BY <2>1, <1>1 DEF Actor!Operation, Actor!Steps
    <2> USE <1>1, <1>3, <2>1, <2>2 DEF ActorInv
    <2>3. Actor!TypeOK' BY DEF Actor!TypeOK, Kept
    <2>4. Truthful(part.run)' BY TruthKept DEF RecordInv, Kept, Truthful
    <2>5. Truthful(op.st)' BY TruthKept DEF RecordInv, Truthful
    <2>6. RecordInv' BY <2>4, <2>5 DEF RecordInv, Kept
    <2>7. CopyInv' BY DEF CopyInv, Kept, Acting, Activating, Actor!stopping, paused, Actor!suspended
    <2>8. DoneInv' BY DEF DoneInv, CopyInv, Kept, Acting, Actor!stopping, paused, Actor!suspended
    <2>9. DrainInv' BY DEF DrainInv, Kept, Actor!stopping
    <2> QED BY <2>3, <2>6, <2>7, <2>8, <2>9 DEF Kept
  <1> QED BY <1>2, <1>3

-----------------------------------------------------------------------------
(* The steps of the reconciliation *)

LEMMA ReadParticipantKeeps == ASSUME ActorInv, Actor!ReadParticipant PROVE ActorInv'
  <1> USE DEF ActorInv
  <1>1. op = Actor!Idle /\ stale = {} BY DEF CopyInv, Actor!ReadParticipant
  <1>2. op' = [Actor!Idle EXCEPT !.pc = "root", !.part = part, !.st = part.run] /\ stale' = {}
        /\ UNCHANGED Actor!world
    BY <1>1 DEF Actor!ReadParticipant
  <1>3. /\ op'.pc = "root" /\ op'.part = part /\ op'.st = part.run /\ op'.root = Actor!Idle.root
        /\ op'.reason = "" /\ op'.then = "idle" /\ op'.err = "" /\ op'.root.stopped = FALSE
    BY <1>2 DEF Actor!Idle
  <1>4. Actor!TypeOK'
    <2>1. part \in Actor!Participant /\ part.run \in Actor!Runtime BY DEF Actor!TypeOK, Actor!Participant
    <2>2. op' \in Actor!Operation BY <1>2, <2>1, IdleType DEF Actor!Operation, Actor!Steps
    <2> QED BY <1>2, <2>2 DEF Actor!TypeOK
  <1>5. RecordInv' BY <1>2, <1>3 DEF RecordInv, Actor!EvidenceBeforeRelease, Truthful, Actor!terminated
  <1>6. CopyInv' BY <1>2, <1>3 DEF CopyInv, Actor!ReadParticipant, Acting, Activating
  <1>7. DoneInv' BY <1>2, <1>3 DEF DoneInv, Acting, Actor!Quiet
  <1>8. DrainInv' BY <1>3 DEF DrainInv
  <1> QED BY <1>2, <1>4, <1>5, <1>6, <1>7, <1>8 DEF PodInv

LEMMA ReadRootKeeps == ASSUME ActorInv, Actor!ReadRoot PROVE ActorInv'
  <1> USE DEF ActorInv
  <1> DEFINE next == IF root.stopped \/ op.part.deleting
                     THEN IF op.st.term THEN "confirmed" ELSE "drain"
                     ELSE IF Actor!suspended(root) THEN "workload"
                     ELSE IF op.part.fin THEN "recheck" ELSE "adopt"
  <1>1. op' = [op EXCEPT !.root = root, !.pc = next] /\ stale' = stale /\ UNCHANGED Actor!world
        /\ op.pc = "root"
    BY DEF Actor!ReadRoot
  <1>2. /\ next \in Actor!Steps
        /\ next = "confirmed" => op.st.term
        /\ next \in {"confirmed", "drain"} => root.stopped \/ op.part.deleting
        /\ next = "workload" => Actor!suspended(root)
        /\ next \in {"recheck", "adopt"} => ~root.stopped /\ ~op.part.deleting
        /\ next = "recheck" => op.part.fin
        /\ next \in {"confirmed", "drain", "workload", "recheck", "adopt"}
    BY DEF Actor!Steps
  <1> HIDE DEF next
  <1>3. op \in Actor!Operation BY DEF Actor!TypeOK
  <1>4. /\ op'.pc = next /\ op'.root = root /\ op'.part = op.part /\ op'.st = op.st /\ op'.sts = op.sts
        /\ op'.reason = op.reason /\ op'.then = op.then /\ op'.err = op.err /\ op' \in Actor!Operation
    BY <1>1, <1>2, <1>3 DEF Actor!Operation, Actor!TypeOK
  <1>5. Actor!TypeOK' BY <1>1, <1>4 DEF Actor!TypeOK
  <1>6. RecordInv' BY <1>1, <1>2, <1>4 DEF RecordInv, Actor!EvidenceBeforeRelease, Truthful, Actor!terminated
  <1>7. CopyInv' BY <1>1, <1>2, <1>4 DEF CopyInv, Acting, Activating, Actor!stopping, paused, Actor!suspended
  <1>8. DoneInv'
    <2>1. op.reason # "Terminated" BY <1>1 DEF CopyInv
    <2> QED BY <1>1, <1>2, <1>4, <2>1 DEF DoneInv, Acting, Actor!Quiet
  <1>9. DrainInv'
    <2>1. op.st = op.part.run BY <1>1 DEF DrainInv
    <2> QED BY <1>1, <1>2, <1>4, <2>1 DEF DrainInv, Actor!ReadRoot, Actor!stopping
  <1> QED BY <1>1, <1>5, <1>6, <1>7, <1>8, <1>9 DEF PodInv

\* stopActor goes on.
LEMMA GotoKeeps ==
  ASSUME ActorInv, UNCHANGED Actor!world, NEW pc \in {"workload", "drain"}, Actor!Goto(pc),
         op.pc \in {"confirmed", "drain"}, Actor!stopping,
         pc = "workload" => drained \/ op.part.run.term
  PROVE  ActorInv'
  <1> USE DEF ActorInv
  <1>1. /\ op'.pc = pc /\ op'.st = op.st /\ op'.reason = op.reason /\ op'.then = op.then
        /\ op'.err = op.err /\ op'.part = op.part /\ op'.root = op.root /\ op'.sts = op.sts
        /\ stale' = stale \cap {"part"} /\ op' \in Actor!Operation
    BY GotoFields DEF Actor!Steps
  <1>2. Actor!TypeOK' BY <1>1 DEF Actor!TypeOK
  <1>3. RecordInv' BY <1>1 DEF RecordInv, Actor!EvidenceBeforeRelease, Truthful, Actor!terminated
  <1>4. CopyInv' BY <1>1 DEF CopyInv, Acting, Activating, Actor!stopping, paused, Actor!suspended
  <1>5. DoneInv'
    <2>1. op.reason # "Terminated" BY DEF CopyInv
    <2> QED BY <1>1, <2>1 DEF DoneInv, Acting, Actor!Quiet
  <1>6. DrainInv' BY <1>1 DEF DrainInv, Actor!stopping
  <1> QED BY <1>2, <1>3, <1>4, <1>5, <1>6 DEF PodInv

LEMMA stopConfirmedKeeps == ASSUME ActorInv, Actor!stopConfirmed PROVE ActorInv'
  <1>1. op.pc = "confirmed" /\ Actor!stopping /\ op.part.run.term /\ UNCHANGED Actor!world
    BY DEF Actor!stopConfirmed, ActorInv, CopyInv, DrainInv
  <1>2. CASE pod.uid = 0 BY <1>1, <1>2, GotoKeeps DEF Actor!stopConfirmed
  <1>3. CASE pod.uid # 0 BY <1>1, <1>3, GotoKeeps DEF Actor!stopConfirmed
  <1> QED BY <1>2, <1>3

LEMMA BeforeStopKeeps == ASSUME ActorInv, Actor!BeforeStop PROVE ActorInv'
  <1>1. op.pc = "drain" /\ Actor!stopping /\ UNCHANGED Actor!world BY DEF Actor!BeforeStop, ActorInv, CopyInv
  <1>2. CASE drained BY <1>1, <1>2, GotoKeeps DEF Actor!BeforeStop
  <1>3. CASE ~drained
    <2>1. Kept BY <1>1, WorldKept
    <2>2. op.st \in Actor!Runtime /\ Truthful(op.st) BY DEF ActorInv, Actor!TypeOK, Actor!Operation, RecordInv
    <2>3. "DrainingControl" \in Open /\ "DrainingControl" \in Actor!Reasons BY DEF Open, Actor!Reasons
    <2>4. Actor!Finish(op.st, "DrainingControl") BY <1>3 DEF Actor!BeforeStop
    <2> QED BY <1>1, <2>1, <2>2, <2>3, <2>4, FinishKeeps
  <1> QED BY <1>2, <1>3

LEMMA shutdownWorkloadKeeps == ASSUME ActorInv, Actor!shutdownWorkload PROVE ActorInv'
  <1> USE DEF ActorInv
  <1> DEFINE next == IF sts.exists THEN "actor" ELSE "remaining"
  <1>1. op' = [op EXCEPT !.pc = next, !.sts = sts] /\ stale' = stale /\ UNCHANGED Actor!world
        /\ op.pc = "workload"
    BY DEF Actor!shutdownWorkload
  <1>2. next \in {"actor", "remaining"} /\ (next = "actor" <=> sts.exists) /\ next \in Actor!Steps
      BY DEF Actor!Steps
  <1> HIDE DEF next
  <1>3. op \in Actor!Operation /\ sts \in Actor!StatefulSet BY DEF Actor!TypeOK
  <1>4. /\ op'.pc = next /\ op'.sts = sts /\ op'.root = op.root /\ op'.part = op.part /\ op'.st = op.st
        /\ op'.reason = op.reason /\ op'.then = op.then /\ op'.err = op.err /\ op' \in Actor!Operation
    BY <1>1, <1>2, <1>3 DEF Actor!Operation
  <1>5. Actor!TypeOK' BY <1>1, <1>4 DEF Actor!TypeOK
  <1>6. RecordInv' BY <1>1, <1>2, <1>4 DEF RecordInv, Actor!EvidenceBeforeRelease, Truthful, Actor!terminated
  <1>7. CopyInv' BY <1>1, <1>2, <1>4 DEF CopyInv, Acting, Activating, Actor!stopping, paused, Actor!suspended
  <1>8. DoneInv'
    <2>1. op.reason # "Terminated" BY <1>1 DEF CopyInv
    <2>2. sts.seen => sts.view = sts.replicas BY DEF PodInv
    <2> QED BY <1>1, <1>2, <1>4, <2>1, <2>2 DEF DoneInv, Acting, Actor!Quiet
  <1>9. DrainInv' BY <1>1, <1>2, <1>4 DEF DrainInv, Actor!stopping
  <1> QED BY <1>1, <1>5, <1>6, <1>7, <1>8, <1>9 DEF PodInv

\* What is read of the Pod is truthful.
LEMMA SeenTruthful ==
  ASSUME ActorInv, NEW t \in BOOLEAN, t => Actor!terminated(pod)
  PROVE  [ref |-> pod.uid, term |-> t] \in Actor!Runtime /\ Truthful([ref |-> pod.uid, term |-> t])
  <1>1. pod.uid \in Actor!Uids /\ pod.uid <= born BY DEF ActorInv, Actor!TypeOK, Actor!Pod, PodInv
  <1> QED BY <1>1 DEF Truthful, Actor!Runtime

\* A terminated Pod that is deleted, or failed, starts nothing.
LEMMA EndedQuiet ==
  ASSUME ActorInv, ~sts.exists \/ (sts.replicas = 0 /\ sts.view = 0), pod.uid # 0 => Actor!terminated(pod)
  PROVE  Actor!Quiet
  BY DEF ActorInv, PodInv, Actor!TypeOK, Actor!Pod, Actor!NoPod, Actor!terminated, Actor!Quiet

LEMMA OpenReasons ==
  {"Active", "Stopping", "TerminationUnknown"} \subseteq Open /\ Open \subseteq Actor!Reasons
      /\ "Terminated" \in Actor!Reasons
  BY DEF Open, Actor!Reasons

LEMMA shutdownRemainingKeeps == ASSUME ActorInv, Actor!shutdownRemaining PROVE ActorInv'
  <1> DEFINE ended == [op.st EXCEPT !.term = TRUE]
  <1>1. op.pc = "remaining" /\ UNCHANGED Actor!world /\ Kept BY WorldKept DEF Actor!shutdownRemaining
  <1>2. /\ op.st \in Actor!Runtime /\ Truthful(op.st) /\ ~sts.exists /\ (Actor!stopping \/ paused)
        /\ op.part.run = part.run /\ (part.run.term /\ part.run.ref # 0 => part.run.ref \in recorded)
    BY <1>1 DEF ActorInv, Actor!TypeOK, Actor!Operation, RecordInv, DoneInv, CopyInv
  <1>3. ended \in Actor!Runtime /\ ended.ref = op.st.ref /\ ended.term BY <1>2 DEF Actor!Runtime
  <1>4. ASSUME pod.uid # 0, op.st.ref # pod.uid \/ ~Actor!terminated(pod) PROVE ActorInv'
    <2>1. Actor!Finish(op.st, "TerminationUnknown") BY <1>4 DEF Actor!shutdownRemaining
    <2> QED BY <2>1, <1>1, <1>2, FinishKeeps, OpenReasons
  <1>5. ASSUME pod.uid # 0, op.st.ref = pod.uid, Actor!terminated(pod) PROVE ActorInv'
    <2>1. Truthful(ended) BY <1>5, <1>2, <1>3 DEF Truthful
    <2>2. CASE ~Actor!terminationRecorded(pod)
      <3>1. Actor!Finish(ended, "Stopping") BY <1>5, <2>2 DEF Actor!shutdownRemaining
      <3> QED BY <3>1, <2>1, <1>1, <1>3, FinishKeeps, OpenReasons
    <2>3. CASE Actor!terminationRecorded(pod)
      <3>1. Actor!Write("release", ended, "finish", "Terminated", "TerminationUnknown") BY <1>5, <2>3
          DEF Actor!shutdownRemaining
      <3>2. pod.uid \in recorded BY <2>3, <1>2, <1>5 DEF Actor!terminationRecorded
      <3>3. Actor!Quiet BY <1>2, <1>5, EndedQuiet
      <3> QED BY <3>1, <3>2, <3>3, <2>1, <1>1, <1>2, <1>3, WriteKeeps, OpenReasons
    <2> QED BY <2>2, <2>3
  <1>6. ASSUME pod.uid = 0 PROVE ActorInv'
    <2>1. CASE op.st.ref # 0 /\ ~op.st.term
      <3>1. Actor!Finish(op.st, "TerminationUnknown") BY <1>6, <2>1 DEF Actor!shutdownRemaining
      <3> QED BY <3>1, <1>1, <1>2, FinishKeeps, OpenReasons
    <2>2. CASE ~(op.st.ref # 0 /\ ~op.st.term)
      <3>1. Actor!Finish(ended, "Terminated") BY <1>6, <2>2 DEF Actor!shutdownRemaining
      <3>2. Truthful(ended) BY <1>6, <1>2, <1>3 DEF Truthful
      <3>3. Actor!Quiet BY <1>2, <1>6, EndedQuiet
      <3> QED BY <3>1, <3>2, <3>3, <1>1, <1>2, <1>3, FinishKeeps, OpenReasons
    <2> QED BY <2>1, <2>2
  <1> QED BY <1>4, <1>5, <1>6

LEMMA shutdownActorKeeps == ASSUME ActorInv, Actor!shutdownActor PROVE ActorInv'
  <1> DEFINE down == op.sts.replicas # 0
             seen == [ref |-> pod.uid, term |-> Actor!terminated(pod)]
             ended == [op.st EXCEPT !.term = TRUE]
  <1>1. op.pc = "actor" /\ UNCHANGED Actor!world /\ Kept BY WorldKept DEF Actor!shutdownActor
  <1>2. /\ op.st \in Actor!Runtime /\ Truthful(op.st) /\ (Actor!stopping \/ paused)
        /\ op.part.run = part.run /\ (part.run.term /\ part.run.ref # 0 => part.run.ref \in recorded)
    BY <1>1 DEF ActorInv, Actor!TypeOK, Actor!Operation, RecordInv, CopyInv
  <1>3. Actor!terminated(pod) \in BOOLEAN BY DEF ActorInv, Actor!TypeOK, Actor!Pod, Actor!terminated
  <1>4. seen \in Actor!Runtime /\ Truthful(seen) /\ (seen.term <=> Actor!terminated(pod)) BY <1>3,
      SeenTruthful
  <1>5. ended \in Actor!Runtime /\ ended.ref = op.st.ref /\ ended.term BY <1>2 DEF Actor!Runtime
  <1>6. ASSUME pod.uid # 0 PROVE ActorInv'
    <2>1. CASE Actor!unconfirmed(op.st.ref, pod)
      <3>1. CASE down
        <4>1. Actor!Write("scale", op.st, "finish", "TerminationUnknown", "TerminationUnknown")
          BY <1>6, <2>1, <3>1 DEF Actor!shutdownActor
        <4> QED BY <4>1, <1>1, <1>2, WriteKeeps, OpenReasons
      <3>2. CASE ~down
        <4>1. Actor!Finish(op.st, "TerminationUnknown") BY <1>6, <2>1, <3>2 DEF Actor!shutdownActor
        <4> QED BY <4>1, <1>1, <1>2, FinishKeeps, OpenReasons
      <3> QED BY <3>1, <3>2
    <2>2. CASE ~Actor!unconfirmed(op.st.ref, pod)
      <3> HIDE DEF down
      <3>1. CASE ~seen.term /\ ~pod.deleting /\ ~pod.fin
        <4>1. \/ Actor!Write("retain", seen, "scale", "Stopping", "TerminationUnknown")
              \/ Actor!Write("retain", seen, "finish", "Stopping", "TerminationUnknown")
          BY <1>6, <2>2, <3>1 DEF Actor!shutdownActor
        <4> HIDE DEF seen
        <4> QED BY <4>1, <1>1, <1>4, <1>6, WriteKeeps, OpenReasons
      <3>2. CASE ~(~seen.term /\ ~pod.deleting /\ ~pod.fin)
        <4>1. CASE down
          <5>1. Actor!Write("scale", seen, "finish", "Stopping", "TerminationUnknown")
            BY <1>6, <2>2, <3>2, <4>1 DEF Actor!shutdownActor, down
          <5> HIDE DEF seen
          <5> QED BY <5>1, <1>1, <1>4, WriteKeeps, OpenReasons
        <4>2. CASE ~down /\ seen.term /\ Actor!terminationRecorded(pod)
          <5>1. Actor!Write("release", seen, "finish", "Stopping", "TerminationUnknown")
            BY <1>6, <2>2, <3>2, <4>2 DEF Actor!shutdownActor, down
          <5>2. pod.uid \in recorded BY <4>2, <1>2, <1>6 DEF Actor!terminationRecorded
          <5> HIDE DEF seen
          <5> QED BY <5>1, <5>2, <1>1, <1>4, WriteKeeps, OpenReasons
        <4>3. CASE ~down /\ ~(seen.term /\ Actor!terminationRecorded(pod))
          <5>1. Actor!Finish(seen, "Stopping")
            BY <1>6, <2>2, <3>2, <4>3 DEF Actor!shutdownActor, down
          <5> HIDE DEF seen
          <5> QED BY <5>1, <1>1, <1>4, FinishKeeps, OpenReasons
        <4> QED BY <4>1, <4>2, <4>3
      <3> QED BY <3>1, <3>2
    <2> QED BY <2>1, <2>2
  <1>7. ASSUME pod.uid = 0 PROVE ActorInv'
    <2>1. Truthful(ended) BY <1>7, <1>2, <1>5 DEF Truthful
    <2>2. CASE down
      <3>1. Actor!Write("scale", op.st, "finish", "Stopping", "TerminationUnknown") BY <1>7, <2>2
          DEF Actor!shutdownActor
      <3> QED BY <3>1, <1>1, <1>2, WriteKeeps, OpenReasons
    <2>3. CASE ~down /\ op.st.ref # 0 /\ ~op.st.term
      <3>1. Actor!Finish(op.st, "TerminationUnknown") BY <1>7, <2>3 DEF Actor!shutdownActor
      <3> QED BY <3>1, <1>1, <1>2, FinishKeeps, OpenReasons
    <2>4. CASE ~down /\ ~(op.st.ref # 0 /\ ~op.st.term)
      <3>1. CASE ~Actor!scaleDownObserved
        <4>1. Actor!Finish(op.st, "Stopping") BY <1>7, <2>4, <3>1 DEF Actor!shutdownActor
        <4> QED BY <4>1, <1>1, <1>2, FinishKeeps, OpenReasons
      <3>2. CASE Actor!scaleDownObserved
        <4>1. Actor!Quiet
          <5>1. sts.exists => sts.replicas = 0 /\ sts.view = 0
            BY <1>1, <2>4, <3>2 DEF ActorInv, DoneInv, Actor!scaleDownObserved
          <5> QED BY <5>1, <1>7, EndedQuiet
        <4>2. CASE op.part.deleting
          <5>1. Actor!Write("delete", ended, "finish", "Terminated", "TerminationUnknown")
            BY <1>7, <2>4, <3>2, <4>2 DEF Actor!shutdownActor
          <5> HIDE DEF ended
          <5> QED BY <5>1, <4>1, <2>1, <1>1, <1>2, <1>5, WriteKeeps, OpenReasons
        <4>3. CASE ~op.part.deleting
          <5>1. Actor!Finish(ended, "Terminated") BY <1>7, <2>4, <3>2, <4>3 DEF Actor!shutdownActor
          <5> HIDE DEF ended
          <5> QED BY <5>1, <4>1, <2>1, <1>1, <1>2, <1>5, FinishKeeps, OpenReasons
        <4> QED BY <4>2, <4>3
      <3> QED BY <3>1, <3>2
    <2> QED BY <2>2, <2>3, <2>4
  <1> QED BY <1>6, <1>7

LEMMA OpTypes ==
  ASSUME ActorInv
  PROVE  op.st \in Actor!Runtime /\ Truthful(op.st) /\ op.reason \in Actor!Reasons /\ op.err \in Actor!Reasons
  BY DEF ActorInv, Actor!TypeOK, Actor!Operation, RecordInv

LEMMA conflictKeeps == ASSUME ActorInv, Actor!conflict PROVE ActorInv'
  <1>1. /\ Kept /\ op.pc # "idle" /\ op.err \in Open /\ (op.err = "" \/ op.err # "")
    BY WorldKept DEF Actor!conflict, ActorInv, CopyInv, Open
  <1>2. CASE op.err = "" BY <1>1, <1>2, ReturnKeeps DEF Actor!conflict
  <1>3. CASE op.err # ""
    <2>1. Actor!Finish(op.st, op.err) BY <1>3 DEF Actor!conflict
    <2> QED BY <2>1, <1>1, OpTypes, FinishKeeps
  <1> QED BY <1>2, <1>3

LEMMA refuseActivationKeeps == ASSUME ActorInv, Actor!refuseActivation PROVE ActorInv'
  BY WorldKept, OpTypes, FinishKeeps, OpenReasons DEF Actor!refuseActivation

LEMMA recheckIntentKeeps == ASSUME ActorInv, Actor!recheckIntent PROVE ActorInv'
  <1> DEFINE moved == root # op.root \/ part.deleting # op.part.deleting \/ part.template # op.part.template
  <1>1. CASE moved
    <2>1. Actor!Return /\ Kept BY <1>1, WorldKept DEF Actor!recheckIntent
    <2> QED BY <2>1, ReturnKeeps
  <1>2. CASE ~moved
    <2> USE DEF ActorInv
    <2>1. /\ op' = [op EXCEPT !.pc = "converge", !.part = part] /\ stale' = {} /\ UNCHANGED Actor!world
          /\ op.pc = "recheck" /\ part.deleting = op.part.deleting
      BY <1>2 DEF Actor!recheckIntent
    <2>2. op \in Actor!Operation /\ part \in Actor!Participant BY DEF Actor!TypeOK
    <2>3. /\ op'.pc = "converge" /\ op'.sts = op.sts /\ op'.root = op.root /\ op'.part = part
             /\ op'.st = op.st
          /\ op'.reason = op.reason /\ op'.then = op.then /\ op'.err = op.err /\ op' \in Actor!Operation
      BY <2>1, <2>2 DEF Actor!Operation, Actor!Steps
    <2>4. ~Actor!stopping /\ op.part.fin /\ part.fin /\ ~root.stopped /\ ~part.deleting
      BY <2>1, <1>2 DEF CopyInv, Activating, Actor!stopping
    <2>5. Actor!TypeOK' BY <2>1, <2>3 DEF Actor!TypeOK
    <2>6. RecordInv' BY <2>1, <2>3 DEF RecordInv, Actor!EvidenceBeforeRelease, Truthful, Actor!terminated
    <2>7. CopyInv' BY <2>1, <2>3, <2>4 DEF CopyInv, Acting, Activating, Actor!stopping, paused,
        Actor!suspended
    <2>8. DoneInv'
      <3>1. op.reason # "Terminated" BY <2>1 DEF CopyInv
      <3> QED BY <2>1, <2>3, <2>4, <3>1 DEF DoneInv, Acting, Actor!Quiet
    <2>9. DrainInv' BY <2>1, <2>3 DEF DrainInv
    <2> QED BY <2>1, <2>5, <2>6, <2>7, <2>8, <2>9 DEF PodInv
  <1> QED BY <1>1, <1>2

LEMMA capturePodKeeps == ASSUME ActorInv, Actor!capturePod PROVE ActorInv'
  <1>1. op.pc = "capture" /\ UNCHANGED Actor!world BY DEF Actor!capturePod
  <1>2. CASE pod.uid # 0 /\ ~pod.deleting /\ ~pod.fin
    <2>1. Actor!Write("retain", op.st, "patch", "Active", "Active") BY <1>2 DEF Actor!capturePod
    <2> QED BY <1>1, <1>2, <2>1, OpTypes, OpenReasons, WriteKeeps
  <1>3. CASE ~(pod.uid # 0 /\ ~pod.deleting /\ ~pod.fin)
    <2>1. Actor!Write("patch", op.st, "observe", "Active", "Active") BY <1>3 DEF Actor!capturePod
    <2> QED BY <1>1, <2>1, OpTypes, OpenReasons, WriteKeeps
  <1> QED BY <1>2, <1>3

LEMMA observeActorKeeps == ASSUME ActorInv, Actor!observeActor PROVE ActorInv'
  <1> DEFINE started == [op.st EXCEPT !.term = FALSE]
             ended == pod.deleting /\ Actor!terminated(pod)
             seen == [ref |-> pod.uid, term |-> ended]
  <1>1. op.pc = "observe" /\ UNCHANGED Actor!world /\ Kept BY WorldKept DEF Actor!observeActor
  <1>2. /\ op.part.run = part.run /\ (part.run.term /\ part.run.ref # 0 => part.run.ref \in recorded)
    BY <1>1 DEF ActorInv, RecordInv
  <1>3. started \in Actor!Runtime /\ started.ref = op.st.ref /\ ~started.term BY OpTypes DEF Actor!Runtime
  <1>4. Truthful(started) BY <1>3, OpTypes DEF Truthful
  <1>5. ended \in BOOLEAN BY DEF ActorInv, Actor!TypeOK, Actor!Pod, Actor!terminated
  <1>6. seen \in Actor!Runtime /\ Truthful(seen) BY <1>5, SeenTruthful
  <1>7. CASE pod.uid = 0
    <2>1. Actor!Finish(started, "Active") BY <1>7 DEF Actor!observeActor
    <2> QED BY <2>1, <1>1, <1>3, <1>4, FinishKeeps, OpenReasons
  <1>8. CASE pod.uid # 0
    <2>1. \/ Actor!Finish(seen, "Active")
          \/ ~pod.fin /\ Actor!Write("retain", seen, "finish", "Active", "")
          \/ Actor!terminationRecorded(pod) /\ Actor!Write("release", seen, "finish", "Active", "")
      BY <1>8 DEF Actor!observeActor
    <2> HIDE DEF seen
    <2>2. CASE Actor!Finish(seen, "Active") BY <2>2, <1>1, <1>6, FinishKeeps, OpenReasons
    <2>3. CASE Actor!Write("retain", seen, "finish", "Active", "") BY <2>3, <1>1, <1>6, <1>8, WriteKeeps,
        OpenReasons
    <2>4. CASE Actor!terminationRecorded(pod) /\ Actor!Write("release", seen, "finish", "Active", "")
      <3>1. pod.uid \in recorded BY <2>4, <1>2, <1>8 DEF Actor!terminationRecorded
      <3> QED BY <2>4, <3>1, <1>1, <1>6, WriteKeeps, OpenReasons
    <2> QED BY <2>1, <2>2, <2>3, <2>4
  <1> QED BY <1>7, <1>8

-----------------------------------------------------------------------------
(* Its writes *)

LEMMA retainPodKeeps == ASSUME ActorInv, Actor!retainPod PROVE ActorInv'
  <1> USE DEF ActorInv
  <1>1. /\ op.pc = "retain" /\ Actor!Proceed /\ pod' = [pod EXCEPT !.fin = TRUE] /\ pod.uid # 0
        /\ UNCHANGED <<root, part, sts, drained, born, recorded, budget>>
    BY DEF Actor!retainPod, RecordInv
  <1>2. pod \in Actor!Pod /\ pod' \in Actor!Pod /\ pod'.uid = pod.uid /\ pod'.deleting = pod.deleting
        /\ pod'.fin
        /\ pod'.scheduled = pod.scheduled /\ pod'.evidence = pod.evidence /\ pod'.proc = pod.proc
    BY <1>1 DEF Actor!TypeOK, Actor!Pod
  <1>3. Kept BY <1>1, <1>2 DEF Kept, Actor!TypeOK, Actor!Quiet, PodInv, RecordInv,
      Actor!EvidenceBeforeRelease, Actor!terminated
  <1> QED BY <1>1, <1>3, ProceedKeeps

LEMMA releasePodKeeps == ASSUME ActorInv, Actor!releasePod PROVE ActorInv'
  <1> USE DEF ActorInv
  <1>1. /\ op.pc = "release" /\ Actor!Proceed /\ pod' = [pod EXCEPT !.fin = FALSE]
        /\ UNCHANGED <<root, part, sts, drained, born, recorded, budget>>
        /\ "pod" \notin stale \/ ~pod.fin
    BY DEF Actor!releasePod
  <1>2. pod \in Actor!Pod /\ pod' \in Actor!Pod /\ pod'.uid = pod.uid /\ pod'.deleting = pod.deleting
        /\ ~pod'.fin
        /\ pod'.scheduled = pod.scheduled /\ pod'.evidence = pod.evidence /\ pod'.proc = pod.proc
    BY <1>1 DEF Actor!TypeOK, Actor!Pod
  <1>3. ASSUME pod.uid = 0 PROVE pod' = Actor!NoPod
    <2>1. pod = Actor!NoPod BY <1>3 DEF PodInv
    <2>2. pod' = [Actor!NoPod EXCEPT !.fin = FALSE] BY <1>1, <2>1
    <2> QED BY <2>2 DEF Actor!NoPod
  <1>4. Actor!EvidenceBeforeRelease'
    <2>1. \A u \in 1 .. born : u # 0 OBVIOUS
    <2> QED BY <1>1, <1>2, <2>1 DEF RecordInv, Actor!EvidenceBeforeRelease
  <1>5. Kept BY <1>1, <1>2, <1>3, <1>4 DEF Kept, Actor!TypeOK, Actor!Quiet, PodInv, Actor!terminated
  <1> QED BY <1>1, <1>5, ProceedKeeps

LEMMA scaleDownKeeps == ASSUME ActorInv, Actor!scaleDown PROVE ActorInv'
  <1> USE DEF ActorInv
  <1>1. /\ op.pc = "scale" /\ Actor!Proceed /\ sts' = [sts EXCEPT !.replicas = 0, !.seen = FALSE]
        /\ UNCHANGED <<root, part, pod, drained, born, recorded, budget>>
    BY DEF Actor!scaleDown
  <1>2. sts' \in Actor!StatefulSet /\ sts'.replicas = 0 /\ ~sts'.seen /\ sts'.exists = sts.exists
        /\ sts'.view = sts.view
    BY <1>1 DEF Actor!TypeOK, Actor!StatefulSet, Actor!Bit
  <1>3. ASSUME ~sts.exists PROVE sts' = Actor!NoSet
    <2>1. sts = Actor!NoSet BY <1>3 DEF PodInv
    <2>2. sts' = [Actor!NoSet EXCEPT !.replicas = 0, !.seen = FALSE] BY <1>1, <2>1
    <2> QED BY <2>2 DEF Actor!NoSet
  <1>4. Kept BY <1>1, <1>2, <1>3 DEF Kept, Actor!TypeOK, Actor!Quiet, PodInv, RecordInv,
      Actor!EvidenceBeforeRelease, Actor!terminated
  <1> QED BY <1>1, <1>4, ProceedKeeps

LEMMA deleteWorkloadKeeps == ASSUME ActorInv, Actor!deleteWorkload PROVE ActorInv'
  <1> USE DEF ActorInv
  <1>1. /\ op.pc = "delete" /\ Actor!Proceed /\ sts' = Actor!NoSet
        /\ UNCHANGED <<root, part, pod, drained, born, recorded, budget>>
    BY DEF Actor!deleteWorkload
  <1>2. sts'.seen = FALSE /\ sts'.exists = FALSE BY <1>1 DEF Actor!NoSet
  <1>3. Kept BY <1>1, <1>2, SetNone DEF Kept, Actor!TypeOK, Actor!Quiet, PodInv, RecordInv,
      Actor!EvidenceBeforeRelease, Actor!terminated
  <1> QED BY <1>1, <1>3, ProceedKeeps

\* The StatefulSet may ask for a replica: nothing that needs quiet is claimed then.
LEMMA WakeKeeps ==
  ASSUME ActorInv, Acting, op.pc # "idle",
         UNCHANGED <<root, part, pod, drained, born, recorded, budget>>,
         sts' \in Actor!StatefulSet, sts'.seen => sts'.view = sts'.replicas, ~sts'.exists
             => sts' = Actor!NoSet,
         op' \in Actor!Operation, op'.pc \in {"capture", "observe"}, op'.pc = "capture" => sts.exists,
             sts.exists => sts'.exists,
         op'.st = op.st, op'.part = op.part,
         op'.root = op.root, op'.reason = op.reason, op'.then = op.then, op'.err = op.err,
         stale' \in {stale, stale \cap {"part"}}
  PROVE  ActorInv'
  <1> USE DEF ActorInv
  <1>1. Actor!TypeOK' BY DEF Actor!TypeOK
  <1>2. PodInv' BY DEF PodInv
  <1>3. RecordInv' BY DEF RecordInv, Actor!EvidenceBeforeRelease, Truthful, Actor!terminated
  <1>4. ~Actor!stopping /\ op.part.fin /\ part.fin /\ part.reason \notin DoneReasons
        /\ op.reason # "Terminated"
    BY DEF CopyInv, DoneInv, Acting, Activating
  <1>5. CopyInv' BY <1>4 DEF CopyInv, Acting, Activating, Actor!stopping, paused, Actor!suspended
  <1>6. DoneInv' BY <1>4 DEF DoneInv, Acting
  <1>7. DrainInv' BY DEF DrainInv
  <1> QED BY <1>1, <1>2, <1>3, <1>5, <1>6, <1>7

LEMMA convergeWorkloadKeeps == ASSUME ActorInv, Actor!convergeWorkload PROVE ActorInv'
  <1> USE DEF ActorInv
  <1>1. op.pc = "converge" /\ Acting /\ op \in Actor!Operation /\ sts \in Actor!StatefulSet
        /\ UNCHANGED <<root, part, pod, drained, born, recorded, budget>>
    BY DEF Actor!convergeWorkload, Acting, Actor!TypeOK
  <1>2. CASE sts.exists
    <2>1. op' = [op EXCEPT !.pc = "capture", !.sts = sts] /\ UNCHANGED <<sts, stale>> BY <1>2
        DEF Actor!convergeWorkload
    <2>2. /\ op' \in Actor!Operation /\ op'.pc = "capture" /\ op'.st = op.st /\ op'.part = op.part
          /\ op'.root = op.root /\ op'.reason = op.reason /\ op'.then = op.then /\ op'.err = op.err
      BY <2>1, <1>1 DEF Actor!Operation, Actor!Steps
    <2>3. (sts.seen => sts.view = sts.replicas) /\ (~sts.exists => sts = Actor!NoSet) BY DEF PodInv
    <2>4. sts' \in Actor!StatefulSet /\ (sts'.seen => sts'.view = sts'.replicas) /\ sts'.exists BY <1>1, <1>2,
        <2>1, <2>3
    <2> QED BY <1>1, <1>2, <2>1, <2>2, <2>4, WakeKeeps
  <1>3. CASE ~sts.exists
    <2>1. Actor!Goto("observe")
          /\ sts' = [Actor!NoSet EXCEPT !.exists = TRUE, !.replicas = 1, !.template = op.part.template]
      BY <1>3 DEF Actor!convergeWorkload
    <2>2. sts' \in Actor!StatefulSet /\ sts'.exists /\ ~sts'.seen
      <3>1. op.part.template \in Nat BY <1>1 DEF Actor!Operation, Actor!Participant
      <3> QED BY <2>1, <3>1 DEF Actor!NoSet, Actor!StatefulSet, Actor!Bit
    <2>3. /\ op' \in Actor!Operation /\ op'.pc = "observe" /\ op'.st = op.st /\ op'.part = op.part
          /\ op'.root = op.root /\ op'.reason = op.reason /\ op'.then = op.then /\ op'.err = op.err
          /\ stale' = stale \cap {"part"}
      <3>1. "observe" \in Actor!Steps BY DEF Actor!Steps
      <3> QED BY <2>1, <3>1, GotoFields
    <2> QED BY <1>1, <2>2, <2>3, WakeKeeps
  <1> QED BY <1>2, <1>3

LEMMA patchWorkloadKeeps == ASSUME ActorInv, Actor!patchWorkload PROVE ActorInv'
  <1> USE DEF ActorInv
  <1>1. /\ op.pc = "patch" /\ Acting /\ op \in Actor!Operation /\ sts \in Actor!StatefulSet
        /\ UNCHANGED <<root, part, pod, drained, born, recorded, budget>>
        /\ op' = [op EXCEPT !.pc = "observe", !.sts = Actor!NoSet] /\ stale' = stale \cap {"part"}
    BY DEF Actor!patchWorkload, Acting, Actor!TypeOK
  <1>2. /\ op' \in Actor!Operation /\ op'.pc = "observe" /\ op'.st = op.st /\ op'.part = op.part
        /\ op'.root = op.root /\ op'.reason = op.reason /\ op'.then = op.then /\ op'.err = op.err
    BY <1>1, SetNone DEF Actor!Operation, Actor!Steps
  <1>3. CASE sts' = sts
    <2>1. (sts.seen => sts.view = sts.replicas) /\ (~sts.exists => sts = Actor!NoSet) BY DEF PodInv
    <2> QED BY <1>1, <1>2, <1>3, <2>1, WakeKeeps
  <1>4. CASE sts' = [sts EXCEPT !.replicas = 1, !.template = op.part.template, !.seen = FALSE] /\ sts.exists
    <2>1. op.part.template \in Nat BY <1>1 DEF Actor!Operation, Actor!Participant
    <2>2. sts' \in Actor!StatefulSet /\ sts'.exists /\ ~sts'.seen BY <1>1, <1>4, <2>1 DEF Actor!StatefulSet,
        Actor!Bit
    <2> QED BY <1>1, <1>2, <2>2, WakeKeeps
  <1>5. \/ sts' = sts
        \/ sts' = [sts EXCEPT !.replicas = 1, !.template = op.part.template, !.seen = FALSE]
           /\ "sts" \notin stale
    BY DEF Actor!patchWorkload
  <1>6. "sts" \notin stale => sts.exists BY <1>1 DEF CopyInv
  <1> QED BY <1>3, <1>4, <1>5, <1>6

-----------------------------------------------------------------------------
(* Its status *)

LEMMA finishKeeps == ASSUME ActorInv, Actor!finish PROVE ActorInv'
  <1> USE DEF ActorInv
  <1> DEFINE new == [op.part EXCEPT !.run = op.st, !.reason = Actor!reported]
  <1>1. op.pc = "finish" /\ UNCHANGED <<root, sts, pod, drained, born, budget>>
        /\ op \in Actor!Operation /\ op.st \in Actor!Runtime /\ op.part \in Actor!Participant
        /\ ~op.part.gone /\ ("part" \notin stale => part = op.part)
    BY DEF Actor!finish, Actor!TypeOK, Actor!Operation, CopyInv
  <1>2. /\ Actor!reported \in Actor!Reasons
        /\ Actor!reported \in DoneReasons => Actor!Quiet /\ (op.root.stopped \/ op.part.deleting)
        /\ Actor!reported = "Terminated" => Actor!Quiet
    <2>1. op.reason \in Actor!Reasons /\ {"Suspended", "Stopped"} \subseteq Actor!Reasons BY DEF Actor!TypeOK,
        Actor!Operation, Actor!Reasons
    <2>2. op.reason \notin {"Stopped", "Suspended"} BY DEF CopyInv
    <2>3. op.reason = "Terminated" => Actor!Quiet /\ (Actor!stopping \/ paused) BY DEF DoneInv
    <2> QED BY <2>1, <2>2, <2>3 DEF Actor!reported, DoneReasons, Actor!stopping, paused
  <1>3. /\ new \in Actor!Participant /\ new.run = op.st /\ new.reason = Actor!reported
           /\ new.gone = op.part.gone
        /\ new.fin = op.part.fin /\ new.deleting = op.part.deleting
    BY <1>1, <1>2 DEF Actor!Participant
  <1> HIDE DEF new
  <1>4. CASE new # op.part /\ "part" \in stale /\ Actor!Return /\ UNCHANGED <<part, recorded>>
    <2>1. UNCHANGED Actor!world BY <1>1, <1>4
    <2> QED BY <1>4, <2>1, WorldKept, ReturnKeeps
  <1>5. ASSUME new = op.part \/ "part" \notin stale,
               part' = IF new = op.part THEN part ELSE new,
               recorded' = IF op.st.term /\ op.st.ref # 0 THEN recorded \cup {op.st.ref} ELSE recorded,
               \/ /\ Actor!reported = "Terminated"
                  /\ op' = [op EXCEPT !.pc = "unfinal", !.part = new] /\ UNCHANGED stale
               \/ Actor!Return
        PROVE ActorInv'
    <2>1. /\ part' \in Actor!Participant /\ part'.run = op.st
          /\ part'.fin = part.fin /\ part'.deleting = part.deleting /\ part'.gone = part.gone
          /\ part'.reason = part.reason \/ part'.reason = Actor!reported
          /\ "part" \notin stale => part' = new
      <3>1. CASE new = op.part
        <4>1. part' = part /\ op.part.run = op.st BY <3>1, <1>5, <1>3
        <4> QED BY <4>1, <3>1, <1>1 DEF Actor!TypeOK, RecordInv
      <3>2. CASE new # op.part
        <4>1. part' = new /\ part = op.part BY <3>2, <1>5, <1>1
        <4>2. Actor!reported = new.reason /\ part' \in Actor!Participant BY <4>1, <1>3
        <4> QED BY <4>1, <4>2, <1>1, <1>3
      <3> QED BY <3>1, <3>2
    <2>2. /\ recorded \subseteq recorded' /\ recorded' \subseteq 1 .. ActorPods
          /\ op.st.term /\ op.st.ref # 0 => op.st.ref \in recorded'
      <3>1. op.st.ref \in Actor!Uids BY <1>1 DEF Actor!Runtime
      <3> QED BY <1>5, <3>1, ActorBounds DEF Actor!TypeOK, Actor!Uids
    <2>3. /\ \/ op' = Actor!Idle /\ stale' = {}
             \/ /\ op'.pc = "unfinal" /\ op'.part = new /\ op'.st = op.st /\ op'.root = op.root
                   /\ op'.sts = op.sts
                /\ op'.reason = op.reason /\ op'.then = op.then /\ op'.err = op.err
                /\ Actor!reported = "Terminated" /\ stale' = stale
          /\ op' \in Actor!Operation
      <3>1. CASE Actor!Return BY <3>1, IdleType DEF Actor!Return
      <3>2. CASE Actor!reported = "Terminated" /\ op' = [op EXCEPT !.pc = "unfinal", !.part = new]
            /\ UNCHANGED stale
        BY <3>2, <1>1, <1>3 DEF Actor!Operation, Actor!Steps
      <3> QED BY <3>1, <3>2, <1>5
    <2>4. Actor!TypeOK' BY <1>1, <2>1, <2>2, <2>3 DEF Actor!TypeOK
    <2>5. Truthful(part.run)' /\ Truthful(op.st)'
      <3>1. Truthful(op.st) BY DEF RecordInv
      <3>2. Actor!Idle.st.ref = 0 /\ ~Actor!Idle.st.term BY DEF Actor!Idle
      <3>3. born \in Nat /\ born' = born BY <1>1, ActorBounds DEF Actor!TypeOK, Actor!Uids
      <3> QED BY <1>1, <2>1, <2>3, <3>1, <3>2, <3>3 DEF Truthful, Actor!terminated
    <2>6. RecordInv'
      <3>1. Actor!EvidenceBeforeRelease' BY <1>1, <2>2 DEF RecordInv, Actor!EvidenceBeforeRelease
      <3>2. op'.pc \in {"idle", "unfinal"} /\ (op'.pc # "idle" => op'.part.run = op.st)
        BY <2>3, <1>3, IdleFields
      <3> QED BY <2>1, <2>2, <2>5, <3>1, <3>2 DEF RecordInv
    <2>7. CopyInv'
      <3>1. CASE op' = Actor!Idle /\ stale' = {}
        BY <1>1, <2>1, <3>1, IdleFields DEF CopyInv, Acting, Activating
      <3>2. CASE ~(op' = Actor!Idle /\ stale' = {})
        BY <1>1, <1>3, <2>1, <2>3, <3>2 DEF CopyInv, Acting, Activating
      <3> QED BY <2>3, <3>1, <3>2
    <2>8. DoneInv'
      <3>1. Actor!Quiet' = Actor!Quiet BY <1>1 DEF Actor!Quiet
      <3>2. part'.reason \in DoneReasons => Actor!Quiet /\ (root.stopped \/ part.deleting)
        <4>1. op.root.stopped \/ op.part.deleting => root.stopped \/ part.deleting BY DEF CopyInv
        <4> QED BY <2>1, <1>2, <4>1 DEF DoneInv
      <3>3. op'.reason = "Terminated" => Actor!Quiet' /\ (Actor!stopping \/ paused)'
        BY <2>3, <1>1, <1>3, <3>1, IdleFields DEF DoneInv, Actor!stopping, paused, Actor!suspended
      <3>4. op'.pc = "unfinal" => Actor!Quiet BY <2>3, <1>2, IdleFields
      <3>5. op'.pc \in {"idle", "unfinal"} BY <2>3, IdleFields
      <3> QED BY <1>1, <2>1, <3>1, <3>2, <3>3, <3>4, <3>5 DEF DoneInv, Acting
    <2>9. DrainInv' BY <2>3, IdleFields DEF DrainInv
    <2>10. PodInv' BY <1>1 DEF PodInv
    <2> QED BY <2>4, <2>6, <2>7, <2>8, <2>9, <2>10
  <1> QED BY <1>4, <1>5 DEF Actor!finish, new

LEMMA dropFinalizerKeeps == ASSUME ActorInv, Actor!dropFinalizer PROVE ActorInv'
  <1> USE DEF ActorInv
  <1>1. /\ op.pc = "unfinal" /\ Actor!Return /\ UNCHANGED <<root, sts, pod, drained, born, recorded, budget>>
           /\ Actor!Quiet
        /\ \/ part' = part
           \/ part' = [part EXCEPT !.fin = FALSE, !.gone = part.deleting]
    BY DEF Actor!dropFinalizer, DoneInv
  <1>2. /\ part' \in Actor!Participant /\ part'.run = part.run /\ part'.reason = part.reason
           /\ part'.deleting = part.deleting
        /\ part'.gone => part'.deleting /\ ~part'.fin
    BY <1>1 DEF Actor!TypeOK, Actor!Participant, CopyInv
  <1>3. op' = Actor!Idle /\ stale' = {} BY <1>1 DEF Actor!Return
  <1>4. Actor!TypeOK' BY <1>1, <1>2, <1>3, IdleType DEF Actor!TypeOK
  <1>5. Truthful(part.run)' /\ Truthful(op.st)'
    <2>1. Actor!Idle.st.ref = 0 /\ ~Actor!Idle.st.term BY DEF Actor!Idle
    <2>2. born \in Nat /\ born' = born BY <1>1, ActorBounds DEF Actor!TypeOK, Actor!Uids
    <2> QED BY <1>1, <1>2, <1>3, <2>1, <2>2 DEF RecordInv, Truthful, Actor!terminated
  <1>6. RecordInv' BY <1>1, <1>2, <1>3, <1>5 DEF RecordInv, Actor!EvidenceBeforeRelease, Actor!Idle
  <1>7. CopyInv' BY <1>1, <1>2, <1>3 DEF CopyInv, Acting, Activating, Actor!Idle, Actor!NoParticipant
  <1>8. DoneInv'
    <2>1. Actor!Quiet' BY <1>1 DEF Actor!Quiet
    <2> QED BY <1>1, <1>2, <1>3, <2>1 DEF DoneInv, Acting, Actor!Idle
  <1>9. DrainInv' BY <1>3 DEF DrainInv, Actor!Idle
  <1> QED BY <1>1, <1>4, <1>6, <1>7, <1>8, <1>9 DEF PodInv

LEMMA addFinalizerKeeps == ASSUME ActorInv, Actor!addFinalizer PROVE ActorInv'
  <1> USE DEF ActorInv
  <1>1. CASE "part" \in stale
    <2>1. Actor!Return /\ UNCHANGED Actor!world BY <1>1 DEF Actor!addFinalizer
    <2> QED BY <2>1, WorldKept, ReturnKeeps
  <1>2. CASE "part" \notin stale
    <2>1. /\ op.pc = "adopt" /\ part' = [part EXCEPT !.fin = TRUE] /\ part = op.part
          /\ op' = [op EXCEPT !.pc = "recheck", !.part = [op.part EXCEPT !.fin = TRUE]] /\ UNCHANGED stale
          /\ UNCHANGED <<root, sts, pod, drained, born, recorded, budget>>
      BY <1>2 DEF Actor!addFinalizer, CopyInv
    <2>2. part \in Actor!Participant /\ op \in Actor!Operation BY DEF Actor!TypeOK
    <2>3. /\ part' \in Actor!Participant /\ part'.fin /\ part'.run = part.run /\ part'.reason = part.reason
          /\ part'.deleting = part.deleting /\ part'.gone = part.gone
      BY <2>1, <2>2 DEF Actor!Participant
    <2>4. op' = [op EXCEPT !.pc = "recheck", !.part = part'] BY <2>1
    <2>5. /\ op' \in Actor!Operation /\ op'.pc = "recheck" /\ op'.part = part' /\ op'.st = op.st
          /\ op'.root = op.root /\ op'.reason = op.reason /\ op'.then = op.then /\ op'.err = op.err
      BY <2>2, <2>3, <2>4 DEF Actor!Operation, Actor!Steps
    <2>6. Actor!TypeOK' BY <2>1, <2>3, <2>5 DEF Actor!TypeOK
    <2>7. RecordInv' BY <2>1, <2>3, <2>5 DEF RecordInv, Actor!EvidenceBeforeRelease, Truthful,
        Actor!terminated
    <2>8. ~Actor!stopping /\ ~part.gone /\ op.reason # "Terminated" BY <2>1 DEF CopyInv, Activating
    <2>9. CopyInv' BY <2>1, <2>3, <2>5, <2>8 DEF CopyInv, Acting, Activating, Actor!stopping
    <2>10. DoneInv'
      <3>1. Actor!Quiet' = Actor!Quiet BY <2>1 DEF Actor!Quiet
      <3> QED BY <2>1, <2>3, <2>5, <2>8, <3>1 DEF DoneInv, Acting
    <2>11. DrainInv' BY <2>5 DEF DrainInv
    <2> QED BY <2>1, <2>6, <2>7, <2>9, <2>10, <2>11 DEF PodInv
  <1> QED BY <1>1, <1>2

-----------------------------------------------------------------------------
(* Users and faults *)

LEMMA SpendKeeps ==
  ASSUME ActorInv, NEW kind \in Actor!Kinds, Actor!Spend(kind) PROVE budget' \in [Actor!Kinds -> Nat]
  BY DEF ActorInv, Actor!TypeOK, Actor!Spend

LEMMA UserKinds == {"Stop", "Remove", "Suspend", "Policy", "Restart", "Evict", "NodeLost",
    "Foreground"} \subseteq Actor!Kinds
  BY DEF Actor!Kinds

LEMMA RestartKeeps == ASSUME ActorInv, Actor!Restart PROVE ActorInv'
  <1>1. budget' \in [Actor!Kinds -> Nat] /\ Actor!Return
        /\ UNCHANGED <<root, part, sts, pod, drained, born, recorded>>
    BY UserKinds, SpendKeeps DEF Actor!Restart
  <1>2. Kept BY <1>1 DEF ActorInv, Kept, Actor!TypeOK, Actor!Quiet, PodInv, RecordInv,
      Actor!EvidenceBeforeRelease, Actor!terminated
  <1> QED BY <1>1, <1>2, ReturnKeeps

\* What only the reconciliation determines.
LEMMA OpKept ==
  ASSUME UNCHANGED op
  PROVE  /\ Actor!stopping' = Actor!stopping /\ paused' = paused
         /\ Acting' = Acting /\ Activating' = Activating
  BY DEF Actor!stopping, paused, Actor!suspended, Acting, Activating

LEMMA CopyKept ==
  ASSUME CopyInv, UNCHANGED op, root.stopped => root'.stopped,
         part.deleting => part'.deleting, part.fin => part'.fin, part'.gone => part'.deleting /\ ~part'.fin,
         op.pc = "idle" => stale' = stale, stale \subseteq stale',
         part' # part /\ op.pc # "idle" => "part" \in stale',
         Acting /\ op.pc # "converge" => "sts" \in stale' \/ sts'.exists = sts.exists
  PROVE  CopyInv'
  <1>1. /\ Actor!stopping' <=> Actor!stopping
        /\ paused' <=> paused
        /\ Acting' <=> Acting
        /\ Activating' <=> Activating
    BY DEF Actor!stopping, paused, Actor!suspended, Acting, Activating
  <1>2. /\ op'.pc = "idle" => op' = Actor!Idle /\ stale' = {}
        /\ op'.pc # "idle" => ~op'.part.gone /\ ("part" \notin stale' => part' = op'.part)
        /\ op'.root.stopped => root'.stopped
        /\ op'.part.deleting => part'.deleting
        /\ op'.part.fin => part'.fin
    BY DEF CopyInv
  <1>3. Acting' /\ op'.pc # "converge" /\ "sts" \notin stale' => sts'.exists BY <1>1 DEF CopyInv
  <1>4. /\ Activating' => ~Actor!stopping'
        /\ Acting' \/ op'.pc = "recheck" => op'.part.fin
        /\ op'.pc \in {"confirmed", "drain"} => Actor!stopping'
        /\ op'.pc \in {"workload", "remaining", "actor"} => Actor!stopping' \/ paused'
    BY <1>1 DEF CopyInv
  <1>5. /\ op'.pc = "retain" => op'.then \in {"scale", "finish", "patch"}
        /\ op'.pc \in {"scale", "release", "delete"} => op'.then = "finish"
        /\ op'.err \in {"", "TerminationUnknown", "Active"}
        /\ op'.reason \notin {"Stopped", "Suspended"}
        /\ op'.reason = "Terminated" => op'.pc \in {"release", "delete", "finish", "unfinal"}
    BY DEF CopyInv
  <1> QED BY <1>2, <1>3, <1>4, <1>5, Zenon DEF CopyInv

\* The root moves on; a stop is never withdrawn.
LEMMA RootKeeps ==
  ASSUME ActorInv, root' \in Actor!Root, root.stopped => root'.stopped, budget' \in [Actor!Kinds -> Nat],
         UNCHANGED <<part, sts, pod, drained, op, stale, born, recorded>>
  PROVE  ActorInv'
  <1> USE DEF ActorInv
  <1>1. Actor!TypeOK' BY DEF Actor!TypeOK
  <1>2. RecordInv' BY DEF RecordInv, Actor!EvidenceBeforeRelease, Truthful, Actor!terminated
  <1>3. CopyInv' BY CopyKept DEF CopyInv
  <1>4. Actor!Quiet' = Actor!Quiet BY DEF Actor!Quiet
  <1>5. DoneInv' BY <1>4, OpKept DEF DoneInv
  <1>6. DrainInv' BY OpKept DEF DrainInv
  <1> QED BY <1>1, <1>2, <1>3, <1>5, <1>6 DEF PodInv

LEMMA ToggleSuspendedKeeps == ASSUME ActorInv, Actor!ToggleSuspended PROVE ActorInv'
  <1>1. budget' \in [Actor!Kinds -> Nat] BY UserKinds, SpendKeeps DEF Actor!ToggleSuspended
  <1>2. root \in Actor!Root /\ root.toggles + 1 \in Nat BY DEF ActorInv, Actor!TypeOK, Actor!Root
  <1>3. root' = [root EXCEPT !.toggles = root.toggles + 1] BY DEF Actor!ToggleSuspended
  <1>4. root' \in Actor!Root /\ root'.stopped = root.stopped BY <1>2, <1>3 DEF Actor!Root
  <1> QED BY <1>1, <1>4, RootKeeps DEF Actor!ToggleSuspended

LEMMA StopNetworkKeeps == ASSUME ActorInv, Actor!StopNetwork PROVE ActorInv'
  <1>1. budget' \in [Actor!Kinds -> Nat] BY UserKinds, SpendKeeps DEF Actor!StopNetwork
  <1>2. root' \in Actor!Root /\ root'.stopped BY DEF Actor!StopNetwork, ActorInv, Actor!TypeOK, Actor!Root
  <1> QED BY <1>1, <1>2, RootKeeps DEF Actor!StopNetwork

\* Others change the participant, never its status.
LEMMA ParticipantKeeps ==
  ASSUME ActorInv, part' \in Actor!Participant, part'.run = part.run, part'.reason = part.reason,
         part'.fin = part.fin,
         part.deleting => part'.deleting, part'.gone => part'.deleting /\ ~part'.fin,
         Actor!Changed("part"), budget' \in [Actor!Kinds -> Nat],
         UNCHANGED <<root, sts, pod, drained, op, born, recorded>>
  PROVE  ActorInv'
  <1> USE DEF ActorInv
  <1>1. /\ stale \subseteq stale' /\ stale' \subseteq {"part", "sts", "pod"}
        /\ op.pc = "idle" => stale' = stale
        /\ op.pc # "idle" => "part" \in stale'
    BY DEF Actor!TypeOK, Actor!Changed, Actor!copies
  <1>2. Actor!TypeOK' BY <1>1 DEF Actor!TypeOK
  <1>3. RecordInv' BY <1>1 DEF RecordInv, Actor!EvidenceBeforeRelease, Truthful, Actor!terminated
  <1>4. CopyInv' BY <1>1, CopyKept
  <1>5. DoneInv' BY <1>1, OpKept DEF DoneInv, Actor!Quiet
  <1>6. DrainInv' BY OpKept DEF DrainInv
  <1> QED BY <1>2, <1>3, <1>4, <1>5, <1>6 DEF PodInv

LEMMA RemoveParticipantKeeps == ASSUME ActorInv, Actor!RemoveParticipant PROVE ActorInv'
  <1>1. budget' \in [Actor!Kinds -> Nat] BY UserKinds, SpendKeeps DEF Actor!RemoveParticipant
  <1>2. /\ part' \in Actor!Participant /\ part'.run = part.run /\ part'.reason = part.reason
           /\ part'.fin = part.fin
        /\ part'.deleting /\ part'.gone = ~part.fin
    BY DEF Actor!RemoveParticipant, ActorInv, Actor!TypeOK, Actor!Participant
  <1> QED BY <1>1, <1>2, ParticipantKeeps DEF Actor!RemoveParticipant

LEMMA AdmitPolicyKeeps == ASSUME ActorInv, Actor!AdmitPolicy PROVE ActorInv'
  <1>1. budget' \in [Actor!Kinds -> Nat] BY UserKinds, SpendKeeps DEF Actor!AdmitPolicy
  <1>2. part \in Actor!Participant /\ part.template + 1 \in Nat BY DEF ActorInv, Actor!TypeOK,
      Actor!Participant
  <1>3. part' = [part EXCEPT !.template = part.template + 1] BY DEF Actor!AdmitPolicy
  <1>4. /\ part' \in Actor!Participant /\ part'.run = part.run /\ part'.reason = part.reason
           /\ part'.fin = part.fin
        /\ part'.deleting = part.deleting /\ part'.gone = part.gone
    BY <1>2, <1>3 DEF Actor!Participant
  <1>5. part.gone => part.deleting /\ ~part.fin BY DEF ActorInv, CopyInv
  <1> QED BY <1>1, <1>4, <1>5, ParticipantKeeps DEF Actor!AdmitPolicy

LEMMA DrainKeeps == ASSUME ActorInv, Actor!Drain PROVE ActorInv'
  <1> USE DEF ActorInv
  <1>1. drained' /\ UNCHANGED <<root, part, sts, pod, op, stale, born, recorded, budget>> BY DEF Actor!Drain
  <1>2. Actor!TypeOK' BY <1>1 DEF Actor!TypeOK, Actor!Drain
  <1>3. RecordInv' BY <1>1 DEF RecordInv, Actor!EvidenceBeforeRelease, Truthful, Actor!terminated
  <1>4. CopyInv' BY <1>1, CopyKept DEF CopyInv
  <1>5. Actor!Quiet' = Actor!Quiet BY <1>1 DEF Actor!Quiet
  <1>6. DoneInv' BY <1>1, <1>5, OpKept DEF DoneInv
  <1>7. DrainInv' BY <1>1, OpKept DEF DrainInv
  <1> QED BY <1>1, <1>2, <1>3, <1>4, <1>6, <1>7 DEF PodInv

-----------------------------------------------------------------------------
(* Kubernetes *)

\* What others do to the StatefulSet and the Pod: nothing that ended begins again.
LEMMA ClusterKeeps ==
  ASSUME ActorInv, UNCHANGED <<root, part, drained, op, recorded>>,
         sts' \in Actor!StatefulSet, pod' \in Actor!Pod, born' \in Actor!Uids,
             budget' \in [Actor!Kinds -> Nat],
         PodInv', Actor!EvidenceBeforeRelease', Actor!Quiet => Actor!Quiet', born <= born',
         stale \subseteq stale', stale' \subseteq {"part", "sts", "pod"}, op.pc = "idle" => stale' = stale,
         \/ pod'.uid = pod.uid /\ (Actor!terminated(pod) => Actor!terminated(pod)')
         \/ /\ pod'.uid \notin 1 .. born
            /\ op.pc \in {"retain", "release"} => "pod" \in stale',
         \/ sts'.exists = sts.exists /\ (sts.replicas = 0 => sts'.replicas = 0)
            /\ (sts.replicas = 0 /\ sts.view = 0 => sts'.view = 0)
         \/ ~sts'.exists /\ (Acting => op.pc = "converge" \/ "sts" \in stale')
  PROVE  ActorInv'
  <1> USE DEF ActorInv
  <1>1. Actor!TypeOK' BY DEF Actor!TypeOK
  <1>2. part.run.ref \in Nat /\ op.st.ref \in Nat /\ pod'.uid \in Nat /\ born \in Nat /\ born' \in Nat
    BY ActorBounds DEF Actor!TypeOK, Actor!Operation, Actor!Participant, Actor!Runtime, Actor!Pod, Actor!Uids
  <1>3. /\ part.run.ref <= born /\ (part.run.term /\ part.run.ref # 0 /\ part.run.ref = pod.uid
           => Actor!terminated(pod))
        /\ op.st.ref <= born /\ (op.st.term /\ op.st.ref # 0 /\ op.st.ref = pod.uid => Actor!terminated(pod))
    BY DEF RecordInv, Truthful
  <1>4. Truthful(part.run)' /\ Truthful(op.st)' BY <1>2, <1>3 DEF Truthful
  <1>5. RecordInv' BY <1>4 DEF RecordInv
  <1>6. CopyInv' BY CopyKept DEF CopyInv
  <1>7. DoneInv' BY OpKept DEF DoneInv
  <1>8. DrainInv' BY OpKept DEF DrainInv
  <1> QED BY <1>1, <1>5, <1>6, <1>7, <1>8

LEMMA ChangedKeeps ==
  ASSUME ActorInv, NEW x \in {"sts", "pod"}, Actor!Changed(x)
  PROVE  /\ stale \subseteq stale' /\ stale' \subseteq {"part", "sts", "pod"}
         /\ op.pc = "idle" => stale' = stale
         /\ x = "pod" /\ op.pc \in {"retain", "release"} => "pod" \in stale'
         /\ x = "sts" /\ Acting => op.pc = "converge" \/ "sts" \in stale'
  BY DEF ActorInv, Actor!TypeOK, Actor!Changed, Actor!copies, Acting

LEMMA SyncSetKeeps == ASSUME ActorInv, Actor!SyncSet PROVE ActorInv'
  <1> USE DEF ActorInv
  <1>1. Actor!Changed("sts") /\ UNCHANGED <<root, part, pod, drained, op, born, recorded, budget>>
        /\ sts.exists
      BY DEF Actor!SyncSet
  <1>2. /\ sts' \in Actor!StatefulSet /\ sts'.exists = sts.exists /\ sts'.replicas = sts.replicas
           /\ sts'.view = sts.replicas
    BY DEF Actor!SyncSet, Actor!TypeOK, Actor!StatefulSet, Actor!Bit
  <1>3. PodInv' BY <1>1, <1>2 DEF PodInv
  <1>4. Actor!EvidenceBeforeRelease' BY <1>1 DEF RecordInv, Actor!EvidenceBeforeRelease
  <1>5. Actor!Quiet => Actor!Quiet' BY <1>1, <1>2 DEF Actor!Quiet
  <1>6. pod \in Actor!Pod /\ born \in Actor!Uids /\ born \in Nat /\ born' = born
        /\ budget \in [Actor!Kinds -> Nat]
    BY <1>1, ActorBounds DEF Actor!TypeOK, Actor!Uids
  <1>7. Actor!terminated(pod)' = Actor!terminated(pod) BY <1>1 DEF Actor!terminated
  <1> QED BY <1>1, <1>2, <1>3, <1>4, <1>5, <1>6, <1>7, ChangedKeeps, ClusterKeeps

LEMMA CollectSetKeeps == ASSUME ActorInv, Actor!CollectSet PROVE ActorInv'
  <1> USE DEF ActorInv
  <1>1. Actor!Changed("sts") /\ sts' = Actor!NoSet
        /\ UNCHANGED <<root, part, pod, drained, op, born, recorded>>
      BY DEF Actor!CollectSet
  <1>2. budget' \in [Actor!Kinds -> Nat] BY UserKinds, SpendKeeps DEF Actor!CollectSet
  <1>3. sts' \in Actor!StatefulSet /\ sts'.exists = FALSE /\ sts'.seen = FALSE BY <1>1, SetNone
      DEF Actor!NoSet
  <1>4. PodInv' BY <1>1, <1>3 DEF PodInv
  <1>5. Actor!EvidenceBeforeRelease' BY <1>1 DEF RecordInv, Actor!EvidenceBeforeRelease
  <1>6. Actor!Quiet => Actor!Quiet' BY <1>1, <1>3 DEF Actor!Quiet
  <1>7. pod \in Actor!Pod /\ born \in Actor!Uids /\ born \in Nat /\ born' = born BY <1>1, ActorBounds
      DEF Actor!TypeOK, Actor!Uids
  <1>8. Actor!terminated(pod)' = Actor!terminated(pod) BY <1>1 DEF Actor!terminated
  <1> QED BY <1>1, <1>2, <1>3, <1>4, <1>5, <1>6, <1>7, <1>8, ChangedKeeps, ClusterKeeps

LEMMA CreatePodKeeps == ASSUME ActorInv, Actor!CreatePod PROVE ActorInv'
  <1> USE DEF ActorInv
  <1>1. /\ Actor!Changed("pod") /\ UNCHANGED <<root, part, sts, drained, op, recorded, budget>>
        /\ sts.exists /\ sts.view = 1 /\ pod.uid = 0 /\ born < ActorPods /\ born' = born + 1
        /\ pod' = [Actor!NoPod EXCEPT !.uid = born + 1, !.fin = TRUE, !.template = sts.template]
    BY DEF Actor!CreatePod
  <1>2. born \in Nat /\ born' \in Actor!Uids /\ sts.template \in Nat /\ sts \in Actor!StatefulSet
        /\ ActorPods \in Nat
        /\ budget \in [Actor!Kinds -> Nat]
    BY <1>1, ActorBounds DEF Actor!TypeOK, Actor!Uids, Actor!StatefulSet
  <1>3. /\ pod' \in Actor!Pod /\ pod'.uid = born + 1 /\ pod'.fin /\ pod'.evidence = "none"
           /\ pod'.proc = "new"
    BY <1>1, <1>2 DEF Actor!NoPod, Actor!Pod, Actor!Uids
  <1>4. PodInv' BY <1>1, <1>2, <1>3 DEF PodInv
  <1>5. Actor!EvidenceBeforeRelease'
    <2>1. \A u \in 1 .. born : u # 0 /\ u # pod.uid BY <1>1, <1>2
    <2>2. \A u \in 1 .. born : u \in recorded BY <2>1 DEF RecordInv, Actor!EvidenceBeforeRelease
    <2>3. \A u \in 1 .. born' : u = born + 1 \/ u \in 1 .. born BY <1>1, <1>2
    <2> QED BY <1>1, <1>3, <2>2, <2>3 DEF Actor!EvidenceBeforeRelease
  <1>6. ~Actor!Quiet BY <1>1 DEF Actor!Quiet, PodInv
  <1>7. pod'.uid \notin 1 .. born /\ born <= born' BY <1>1, <1>2, <1>3
  <1>8. sts'.exists = sts.exists /\ (sts.replicas = 0 => sts'.replicas = 0)
        /\ (sts.replicas = 0 /\ sts.view = 0 => sts'.view = 0) BY <1>1
  <1> QED BY <1>1, <1>2, <1>3, <1>4, <1>5, <1>6, <1>7, <1>8, ChangedKeeps, ClusterKeeps

\* A Pod that goes on, or goes.
LEMMA PodKeeps ==
  ASSUME ActorInv, UNCHANGED <<root, part, sts, drained, op, born, recorded>>,
         budget' \in [Actor!Kinds -> Nat],
         pod' \in Actor!Pod, pod'.uid = pod.uid, pod.uid # 0, pod'.fin = pod.fin,
         pod'.evidence = "terminal" => pod'.proc = "dead", pod'.proc # "new" => pod'.scheduled,
         Actor!terminated(pod) => Actor!terminated(pod)', Actor!Quiet => Actor!Quiet',
         stale' = stale \/ Actor!Changed("pod")
  PROVE  ActorInv'
  <1> USE DEF ActorInv
  <1>1. /\ stale \subseteq stale' /\ stale' \subseteq {"part", "sts", "pod"}
           /\ (op.pc = "idle" => stale' = stale)
    BY ChangedKeeps DEF Actor!TypeOK
  <1>2. PodInv' BY DEF PodInv
  <1>3. Actor!EvidenceBeforeRelease' BY DEF RecordInv, Actor!EvidenceBeforeRelease
  <1>4. sts \in Actor!StatefulSet /\ born \in Actor!Uids /\ born \in Nat BY ActorBounds DEF Actor!TypeOK,
      Actor!Uids
  <1> QED BY <1>1, <1>2, <1>3, <1>4, ClusterKeeps

LEMMA DeletePodKeeps == ASSUME ActorInv, Actor!DeletePod PROVE ActorInv'
  <1>1. /\ Actor!Changed("pod") /\ UNCHANGED <<root, part, sts, drained, op, born, recorded, budget>>
           /\ pod.uid # 0
        /\ pod' = [pod EXCEPT !.deleting = TRUE]
    BY DEF Actor!DeletePod
  <1>2. pod \in Actor!Pod /\ budget \in [Actor!Kinds -> Nat] BY DEF ActorInv, Actor!TypeOK
  <1>3. /\ pod' \in Actor!Pod /\ pod'.uid = pod.uid /\ pod'.fin = pod.fin /\ pod'.deleting
        /\ pod'.scheduled = pod.scheduled /\ pod'.evidence = pod.evidence /\ pod'.proc = pod.proc
    BY <1>1, <1>2 DEF Actor!Pod
  <1>4. (Actor!terminated(pod) => Actor!terminated(pod)') /\ (Actor!Quiet => Actor!Quiet') BY <1>1, <1>3
      DEF Actor!terminated, Actor!Quiet
  <1> QED BY <1>1, <1>2, <1>3, <1>4, PodKeeps DEF ActorInv, PodInv

\* A change of the Pod by the kubelet or the scheduler.
LEMMA ChangePodKeeps ==
  ASSUME ActorInv, NEW p \in Actor!Pod, Actor!ChangePod(p), budget' \in [Actor!Kinds -> Nat],
         p.uid = pod.uid, p.fin = pod.fin,
         p.evidence = "terminal" => p.proc = "dead", p.proc # "new" => p.scheduled,
         Actor!terminated(pod) => Actor!terminated(p),
         p.proc = "live" => pod.proc = "live" \/ ~Actor!Quiet,
         pod.deleting \/ pod.evidence = "terminal" => p.deleting \/ p.evidence = "terminal"
  PROVE  ActorInv'
  <1>1. /\ UNCHANGED <<root, part, sts, drained, op, born, recorded>> /\ pod' = p /\ pod.uid # 0
        /\ stale' = stale \/ Actor!Changed("pod")
    BY DEF Actor!ChangePod
  <1>2. Actor!Quiet => Actor!Quiet' BY <1>1 DEF Actor!Quiet
  <1>3. Actor!terminated(pod) => Actor!terminated(pod)' BY <1>1 DEF Actor!terminated
  <1> QED BY <1>1, <1>2, <1>3, PodKeeps

LEMMA SchedulePodKeeps == ASSUME ActorInv, Actor!SchedulePod PROVE ActorInv'
  <1> DEFINE p == [pod EXCEPT !.scheduled = TRUE]
  <1>1. Actor!ChangePod(p) /\ ~pod.deleting /\ UNCHANGED budget BY DEF Actor!SchedulePod
  <1>2. pod \in Actor!Pod /\ budget \in [Actor!Kinds -> Nat] BY DEF ActorInv, Actor!TypeOK
  <1>3. /\ p \in Actor!Pod /\ p.uid = pod.uid /\ p.fin = pod.fin /\ p.scheduled
        /\ p.deleting = pod.deleting /\ p.evidence = pod.evidence /\ p.proc = pod.proc
    BY <1>2 DEF Actor!Pod
  <1> HIDE DEF p
  <1>4. Actor!terminated(pod) => Actor!terminated(p) BY <1>1, <1>3 DEF Actor!terminated
  <1>5. pod.evidence = "terminal" => pod.proc = "dead" BY DEF ActorInv, PodInv
  <1> QED BY <1>1, <1>2, <1>3, <1>4, <1>5, ChangePodKeeps

LEMMA StartProcessKeeps == ASSUME ActorInv, Actor!StartProcess PROVE ActorInv'
  <1> DEFINE p == [pod EXCEPT !.proc = "live"]
  <1>1. Actor!ChangePod(p) /\ pod.scheduled /\ ~pod.deleting /\ pod.proc = "new" /\ UNCHANGED budget
      BY DEF Actor!StartProcess
  <1>2. pod \in Actor!Pod /\ budget \in [Actor!Kinds -> Nat] BY DEF ActorInv, Actor!TypeOK
  <1>3. /\ p \in Actor!Pod /\ p.uid = pod.uid /\ p.fin = pod.fin /\ p.scheduled = pod.scheduled
        /\ p.deleting = pod.deleting /\ p.evidence = pod.evidence /\ p.proc = "live"
    BY <1>2 DEF Actor!Pod
  <1>4. pod.evidence # "terminal" /\ pod.uid # 0 BY <1>1 DEF ActorInv, PodInv, Actor!ChangePod
  <1>5. ~Actor!Quiet BY <1>1, <1>4 DEF Actor!Quiet
  <1> HIDE DEF p
  <1>6. Actor!terminated(pod) => Actor!terminated(p) BY <1>3 DEF Actor!terminated
  <1> QED BY <1>1, <1>2, <1>3, <1>4, <1>5, <1>6, ChangePodKeeps

\* The process ends.
LEMMA DeadKeeps ==
  ASSUME ActorInv, Actor!ChangePod([pod EXCEPT !.proc = "dead"]), pod.proc = "live",
         budget' \in [Actor!Kinds -> Nat]
  PROVE  ActorInv'
  <1> DEFINE p == [pod EXCEPT !.proc = "dead"]
  <1>1. pod \in Actor!Pod /\ pod.scheduled BY DEF ActorInv, Actor!TypeOK, PodInv
  <1>2. /\ p \in Actor!Pod /\ p.uid = pod.uid /\ p.fin = pod.fin /\ p.scheduled = pod.scheduled
        /\ p.deleting = pod.deleting /\ p.evidence = pod.evidence /\ p.proc = "dead"
    BY <1>1 DEF Actor!Pod
  <1>3. Actor!ChangePod(p) OBVIOUS
  <1> HIDE DEF p
  <1>4. Actor!terminated(pod) => Actor!terminated(p) BY <1>2 DEF Actor!terminated
  <1> QED BY <1>1, <1>2, <1>3, <1>4, ChangePodKeeps

LEMMA EndProcessKeeps == ASSUME ActorInv, Actor!EndProcess PROVE ActorInv'
  BY DeadKeeps DEF Actor!EndProcess, ActorInv, Actor!TypeOK

LEMMA EvictProcessKeeps == ASSUME ActorInv, Actor!EvictProcess PROVE ActorInv'
  BY DeadKeeps, UserKinds, SpendKeeps DEF Actor!EvictProcess

LEMMA ReportTerminatedKeeps == ASSUME ActorInv, Actor!ReportTerminated PROVE ActorInv'
  <1> DEFINE p == [pod EXCEPT !.proc = "dead", !.evidence = "terminal"]
  <1>1. Actor!ChangePod(p) /\ pod.scheduled /\ UNCHANGED budget BY DEF Actor!ReportTerminated
  <1>2. pod \in Actor!Pod /\ budget \in [Actor!Kinds -> Nat] BY DEF ActorInv, Actor!TypeOK
  <1>3. /\ p \in Actor!Pod /\ p.uid = pod.uid /\ p.fin = pod.fin /\ p.scheduled = pod.scheduled
        /\ p.deleting = pod.deleting /\ p.evidence = "terminal" /\ p.proc = "dead"
    BY <1>2 DEF Actor!Pod
  <1> HIDE DEF p
  <1>4. Actor!terminated(p) BY <1>3 DEF Actor!terminated
  <1> QED BY <1>1, <1>2, <1>3, <1>4, ChangePodKeeps

LEMMA LoseNodeKeeps == ASSUME ActorInv, Actor!LoseNode PROVE ActorInv'
  <1> DEFINE p == [pod EXCEPT !.deleting = TRUE, !.evidence = "unknown"]
  <1>1. Actor!ChangePod(p) /\ pod.scheduled /\ pod.evidence = "none" BY DEF Actor!LoseNode
  <1>2. pod \in Actor!Pod BY DEF ActorInv, Actor!TypeOK
  <1>3. /\ p \in Actor!Pod /\ p.uid = pod.uid /\ p.fin = pod.fin /\ p.scheduled = pod.scheduled
        /\ p.deleting /\ p.evidence = "unknown" /\ p.proc = pod.proc
    BY <1>2 DEF Actor!Pod
  <1>4. budget' \in [Actor!Kinds -> Nat] BY UserKinds, SpendKeeps DEF Actor!LoseNode
  <1> HIDE DEF p
  <1>5. ~Actor!terminated(pod) BY <1>1 DEF Actor!terminated
  <1> QED BY <1>1, <1>2, <1>3, <1>4, <1>5, ChangePodKeeps

LEMMA PodVanishesKeeps == ASSUME ActorInv, Actor!PodVanishes PROVE ActorInv'
  <1> USE DEF ActorInv
  <1>1. /\ pod' = Actor!NoPod /\ pod.uid # 0 /\ ~pod.fin
        /\ UNCHANGED <<root, part, sts, drained, op, born, recorded, budget>>
        /\ Actor!NoPod.uid = 0 /\ Actor!NoPod.proc = "new" /\ Actor!NoPod.evidence = "none"
    BY DEF Actor!PodVanishes, Actor!ChangePod, Actor!NoPod
  <1>2. Actor!Changed("pod")
    <2>1. [Actor!NoPod EXCEPT !.proc = pod.proc].uid = 0 BY DEF Actor!NoPod
    <2>2. [Actor!NoPod EXCEPT !.proc = pod.proc] # pod BY <2>1, <1>1
    <2> QED BY <2>2 DEF Actor!PodVanishes, Actor!ChangePod
  <1>3. born \in Actor!Uids /\ born \in Nat /\ sts \in Actor!StatefulSet /\ budget \in [Actor!Kinds -> Nat]
    BY ActorBounds DEF Actor!TypeOK, Actor!Uids
  <1>4. PodInv' BY <1>1, <1>3 DEF PodInv
  <1>5. Actor!EvidenceBeforeRelease' BY <1>1 DEF RecordInv, Actor!EvidenceBeforeRelease
  <1>6. Actor!Quiet => Actor!Quiet' BY <1>1 DEF Actor!Quiet
  <1>7. pod'.uid \notin 1 .. born /\ born <= born' BY <1>1, <1>3
  <1> QED BY <1>1, <1>2, <1>3, <1>4, <1>5, <1>6, <1>7, PodNone, ChangedKeeps, ClusterKeeps

-----------------------------------------------------------------------------
(* The invariant, and what it shows *)

LEMMA ActorInitially == Actor!Init => ActorInv
  <1> SUFFICES ASSUME Actor!Init PROVE ActorInv OBVIOUS
  <1>1. /\ root = [toggles |-> 0, stopped |-> FALSE] /\ part = Actor!NoParticipant /\ sts = Actor!NoSet
           /\ pod = Actor!NoPod
        /\ drained = FALSE /\ op = Actor!Idle /\ stale = {} /\ born = 0 /\ recorded = {}
           /\ budget \in ActorCases
    BY DEF Actor!Init
  <1>a. root \in Actor!Root BY <1>1 DEF Actor!Root
  <1> HIDE DEF Actor!Init
  <1>b. /\ part = Actor!NoParticipant /\ sts = Actor!NoSet /\ pod = Actor!NoPod /\ drained = FALSE
           /\ op = Actor!Idle /\ stale = {}
        /\ born = 0 /\ recorded = {} /\ budget \in ActorCases
    BY <1>1
  <1>2. /\ Actor!NoParticipant \in Actor!Participant /\ Actor!NoParticipant.run.ref = 0
           /\ Actor!NoParticipant.run.term = FALSE
        /\ Actor!NoParticipant.reason = ""
    BY ActorBounds DEF Actor!NoParticipant, Actor!Participant, Actor!Runtime, Actor!Uids, Actor!Reasons
  <1>3. Actor!TypeOK
    <2>1. part \in Actor!Participant /\ sts \in Actor!StatefulSet /\ pod \in Actor!Pod
          /\ op \in Actor!Operation
      BY <1>b, <1>2, IdleType, PodNone, SetNone
    <2>2. born \in Actor!Uids /\ recorded \subseteq 1 .. ActorPods /\ stale \subseteq {"part", "sts", "pod"}
      BY <1>b, ActorBounds DEF Actor!Uids
    <2>3. budget \in [Actor!Kinds -> Nat] BY <1>b, ActorBounds
    <2>4. drained \in BOOLEAN BY <1>b
    <2> QED BY <1>a, <2>1, <2>2, <2>3, <2>4 DEF Actor!TypeOK
  <1>4. /\ pod.uid = 0 /\ pod.evidence = "none" /\ pod.proc = "new" /\ sts.seen = FALSE /\ sts.exists = FALSE
    BY <1>b DEF Actor!NoPod, Actor!NoSet
  <1>5. PodInv BY <1>b, <1>4 DEF PodInv
  <1>6. Actor!EvidenceBeforeRelease BY <1>b DEF Actor!EvidenceBeforeRelease
  <1>7. Truthful(part.run) /\ Truthful(op.st)
    <2>1. part.run.ref = 0 /\ ~part.run.term /\ op.st.ref = 0 /\ ~op.st.term BY <1>b, <1>2, IdleFields
    <2>2. 0 <= born BY <1>b
    <2> QED BY <2>1, <2>2 DEF Truthful
  <1>8. RecordInv BY <1>b, <1>2, <1>6, <1>7, IdleFields DEF RecordInv
  <1>9. CopyInv BY <1>b, IdleFields DEF CopyInv, Acting, Activating
  <1>10. Actor!Quiet BY <1>4 DEF Actor!Quiet
  <1>11. DoneInv BY <1>b, <1>2, <1>10, IdleFields DEF DoneInv, Acting, DoneReasons
  <1>12. DrainInv BY <1>b, IdleFields DEF DrainInv
  <1> QED BY <1>3, <1>5, <1>8, <1>9, <1>11, <1>12 DEF ActorInv

LEMMA ReconcileKeeps == ASSUME ActorInv, Actor!Reconcile PROVE ActorInv'
  BY ReadParticipantKeeps, ReadRootKeeps, stopConfirmedKeeps, BeforeStopKeeps, shutdownWorkloadKeeps,
     shutdownRemainingKeeps, shutdownActorKeeps, addFinalizerKeeps, refuseActivationKeeps, recheckIntentKeeps,
     convergeWorkloadKeeps, capturePodKeeps, patchWorkloadKeeps, observeActorKeeps, retainPodKeeps,
     releasePodKeeps, scaleDownKeeps, deleteWorkloadKeeps, conflictKeeps, finishKeeps, dropFinalizerKeeps
  DEF Actor!Reconcile, Actor!Shutdown, Actor!Activate

LEMMA UsersKeep == ASSUME ActorInv, Actor!Users \/ Actor!Drain PROVE ActorInv'
  BY ToggleSuspendedKeeps, StopNetworkKeeps, RemoveParticipantKeeps, AdmitPolicyKeeps, RestartKeeps,
      DrainKeeps
  DEF Actor!Users

LEMMA KubernetesKeeps == ASSUME ActorInv, Actor!Controllers \/ Actor!Kubelet PROVE ActorInv'
  BY SyncSetKeeps, CreatePodKeeps, DeletePodKeeps, CollectSetKeeps, SchedulePodKeeps, StartProcessKeeps,
     EndProcessKeeps, EvictProcessKeeps, ReportTerminatedKeeps, LoseNodeKeeps, PodVanishesKeeps
  DEF Actor!Controllers, Actor!Kubelet

LEMMA ActorStep == ASSUME ActorInv, [Actor!Next]_(Actor!vars) PROVE ActorInv'
  <1>1. CASE Actor!Next BY <1>1, ReconcileKeeps, UsersKeep, KubernetesKeeps DEF Actor!Next
  <1>2. CASE UNCHANGED Actor!vars
    <2>1. UNCHANGED <<root, part, sts, pod, drained, op, stale, born, recorded, budget>> BY <1>2
        DEF Actor!vars
    <2> USE DEF ActorInv
    <2>2. Actor!TypeOK' BY <2>1 DEF Actor!TypeOK
    <2>3. RecordInv' BY <2>1 DEF RecordInv, Actor!EvidenceBeforeRelease, Truthful, Actor!terminated
    <2>4. CopyInv' BY <2>1, CopyKept DEF CopyInv
    <2>5. DoneInv' BY <2>1, OpKept DEF DoneInv, Actor!Quiet
    <2>6. DrainInv' BY <2>1, OpKept DEF DrainInv
    <2> QED BY <2>1, <2>2, <2>3, <2>4, <2>5, <2>6 DEF PodInv
  <1> QED BY <1>1, <1>2

LEMMA Evidence == ActorInv => Actor!EvidenceTrue /\ Actor!EvidenceBeforeRelease /\ Actor!DoneIsQuiet
  <1> SUFFICES ASSUME ActorInv
               PROVE  Actor!EvidenceTrue /\ Actor!EvidenceBeforeRelease /\ Actor!DoneIsQuiet OBVIOUS
  <1> USE DEF ActorInv
  <1>1. Actor!terminated(pod) => pod.proc # "live" BY DEF PodInv, Actor!terminated
  <1>2. Actor!EvidenceTrue
    <2>1. pod.uid = 0 => pod.proc # "live" BY DEF PodInv, Actor!NoPod
    <2> QED BY <1>1, <2>1 DEF Actor!EvidenceTrue, RecordInv, Truthful
  <1>3. Actor!EvidenceBeforeRelease BY DEF RecordInv
  <1>4. Actor!DoneIsQuiet BY DEF Actor!DoneIsQuiet, Actor!Done, DoneInv, CopyInv, DoneReasons
  <1> QED BY <1>2, <1>3, <1>4

\* A step that scales the serving process down comes after the drain.
LEMMA ScaleStep == ASSUME ActorInv, [Actor!Next]_(Actor!vars) PROVE Actor!ScaledAfterDrain
  <1>1. op.pc = "scale" /\ Actor!stopping => drained \/ part.run.term
    BY DEF ActorInv, DrainInv, RecordInv
  <1> QED BY <1>1 DEF Actor!ScaledAfterDrain

-----------------------------------------------------------------------------
(* The control plane *)

ControlInv ==
    /\ scene = "Actor" => ActorInv
    /\ scene = "Processes" => ProcessInv
    /\ scene = "Production" => Production!SchedulerInv
    /\ scene = "Override" => Override!SchedulerInv
    /\ scene = "Actions" => Actions!ActionsInv

LEMMA Initially ==
  ASSUME Init PROVE ControlInv
  <1> USE ControlAssumption
  <1>1. CASE ActorInit BY <1>1, ActorInitially DEF ActorInit, ControlInv
  <1>2. CASE ProcessInit BY <1>2, ProcessInitially DEF ProcessInit, ControlInv
  <1>3. CASE ScheduleInit
    BY <1>3, Production!FirstState, Override!FirstState DEF ScheduleInit, ControlInv
  <1>4. CASE ActionInit BY <1>4, Actions!FirstState DEF ActionInit, ControlInv
  <1> QED BY <1>1, <1>2, <1>3, <1>4 DEF Init

\* A step stays in its scene.
LEMMA SceneKept ==
  ASSUME [Next]_all PROVE scene' = scene
  BY DEF Next, all, ActorNext, ProcessesNext, ProductionNext, OverrideNext, ActionsNext

\* In the scene of a part, a step is one of that part.
LEMMA ActorScene ==
  ASSUME [Next]_all, scene = "Actor" PROVE [Actor!Next]_(Actor!vars)
  <1>1. CASE UNCHANGED all BY <1>1 DEF all, Actor!vars
  <1>2. CASE Next BY <1>2 DEF Next, ActorNext, ProcessesNext, ProductionNext, OverrideNext, ActionsNext
  <1> QED BY <1>1, <1>2

LEMMA ProcessScene ==
  ASSUME [Next]_all, scene = "Processes" PROVE [Processes!Next]_(Processes!vars)
  <1>1. CASE UNCHANGED all BY <1>1 DEF all, Processes!vars
  <1>2. CASE Next BY <1>2 DEF Next, ActorNext, ProcessesNext, ProductionNext, OverrideNext, ActionsNext
  <1> QED BY <1>1, <1>2

LEMMA ProductionScene ==
  ASSUME [Next]_all, scene = "Production" PROVE [Production!Next]_(Production!vars)
  <1>1. CASE UNCHANGED all BY <1>1 DEF all, Production!vars
  <1>2. CASE Next BY <1>2 DEF Next, ActorNext, ProcessesNext, ProductionNext, OverrideNext, ActionsNext
  <1> QED BY <1>1, <1>2

LEMMA OverrideScene ==
  ASSUME [Next]_all, scene = "Override" PROVE [Override!Next]_(Override!vars)
  <1>1. CASE UNCHANGED all BY <1>1 DEF all, Override!vars
  <1>2. CASE Next BY <1>2 DEF Next, ActorNext, ProcessesNext, ProductionNext, OverrideNext, ActionsNext
  <1> QED BY <1>1, <1>2

LEMMA ActionsScene ==
  ASSUME [Next]_all, scene = "Actions" PROVE [Actions!Next]_(Actions!vars)
  <1>1. CASE UNCHANGED all BY <1>1 DEF all, Actions!vars
  <1>2. CASE Next BY <1>2 DEF Next, ActorNext, ProcessesNext, ProductionNext, OverrideNext, ActionsNext
  <1> QED BY <1>1, <1>2

LEMMA ControlStep ==
  ASSUME ControlInv, [Next]_all PROVE ControlInv'
  <1> USE ControlAssumption
  <1>1. scene = "Actor" => ActorInv' BY ActorScene, ActorStep DEF ControlInv
  <1>2. scene = "Processes" => ProcessInv' BY ProcessScene, ProcessStep DEF ControlInv
  <1>3. scene = "Production" => (Production!SchedulerInv)'
    BY ProductionScene, Production!NextStep DEF ControlInv
  <1>4. scene = "Override" => (Override!SchedulerInv)'
    BY OverrideScene, Override!NextStep DEF ControlInv
  <1>5. scene = "Actions" => (Actions!ActionsInv)'
    BY ActionsScene, Actions!NextStep DEF ControlInv
  <1> QED BY <1>1, <1>2, <1>3, <1>4, <1>5, SceneKept DEF ControlInv

LEMMA ControlInvariant == Spec => []ControlInv
  <1>1. Init => ControlInv BY Initially
  <1>2. ControlInv /\ [Next]_all => ControlInv' BY ControlStep
  <1> QED BY <1>1, <1>2, PTL DEF Spec

-----------------------------------------------------------------------------
(* The theorems *)

\* status.runtime calls a Pod terminated only when its process has ended, no Pod of the actor
\* goes before its end was recorded, and an actor reported Stopped or Terminated, or without
\* its finalizer, has no process and gets none (terminated, releasePod, Shutdown).
THEOREM Actors == Spec => []ActorEvidence
  <1>1. ControlInv => ActorEvidence BY Evidence DEF ControlInv, ActorEvidence
  <1> QED BY <1>1, ControlInvariant, PTL

\* A stop or a removal scales the serving process down only after the control executor has
\* drained, or over an earlier recorded termination (stopActor, BeforeStop).
THEOREM ActorsDrained == Spec => ActorDrainedFirst
  <1>1. ControlInv /\ [Next]_all => (scene = "Actor" => Actor!ScaledAfterDrain)
    BY ActorScene, ScaleStep DEF ControlInv
  <1>2. ControlInv /\ [Next]_all => [scene = "Actor" => Actor!ScaledAfterDrain]_sts BY <1>1
  <1> QED BY <1>2, ControlInvariant, PTL DEF Spec, ActorDrainedFirst

\* A recorded termination of the control processes, and a released finalizer of their
\* participant, leave no control process behind, running or to come (control_lifecycle.go).
THEOREM ControlProcesses == Spec => []ProcessesGone
  <1>1. ControlInv => ProcessesGone BY ProcessEnds DEF ControlInv, ProcessesGone
  <1> QED BY <1>1, ControlInvariant, PTL

\* Every opportunity of the schedule is decided once, as assigned, skipped or unassigned, and
\* the counters and cursors of the record have each receipt of the workers once, whatever
\* writes are lost and whenever controller or worker restart (scheduler.go,
\* bootstrap_receipts.go, baseline.go).
THEOREM Counting == Spec => []ProductionCounted
  <1>1. ControlInv => ProductionCounted
    BY ControlAssumption, Production!Promised, Override!Promised DEF ControlInv, ProductionCounted
  <1> QED BY <1>1, ControlInvariant, PTL

\* An override takes effect at most once, and when its activation has been withdrawn a request
\* that still exists shows that it was admitted, and neither waits nor has expired (overrides.go).
THEOREM Overrides == Spec => []OverrideRetained
  <1>1. ControlInv => OverrideRetained
    BY ControlAssumption, Override!Promised DEF ControlInv, OverrideRetained
  <1> QED BY <1>1, ControlInvariant, PTL

\* What a request reports of its action is what Bitcoin Core did: never more calls than were
\* asked for, all blocks of a completed one, no call under way and no marker of a settled one,
\* and none at all of one that reports no dispatch, whoever crashes, restarts or edits
\* (project, unbound, accountActionReceipt, stepAction).
THEOREM ActionOutcomes == Spec => []ActionOutcomeTrue
  <1>1. ControlInv => ActionOutcomeTrue
    BY ControlAssumption, Actions!Promised DEF ControlInv, ActionOutcomeTrue
  <1> QED BY <1>1, ControlInvariant, PTL

\* A block that is marked invalid belongs to the reservation that marked it, a reservation is
\* released only when its request reports all of its receipts or is gone, and a replacement
\* recorded as final is the unbroken branch of its receipts above the fork (releaseAction,
\* replacementHeader, replacementFinal).
THEOREM Reservations == Spec => []ReservationKept
  <1>1. ControlInv => ReservationKept
    BY ControlAssumption, Actions!Promised DEF ControlInv, ReservationKept
  <1> QED BY <1>1, ControlInvariant, PTL

\* Every record of the control plane keeps its type, in each of its parts.
THEOREM ControlTypes == Spec => []TypesOK
  <1>1. ControlInv => TypesOK
    BY ControlAssumption, Production!Promised, Override!Promised, Actions!Promised
    DEF ControlInv, TypesOK, ActorInv, ProcessInv
  <1> QED BY <1>1, ControlInvariant, PTL
=============================================================================

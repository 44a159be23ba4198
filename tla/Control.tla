------------------------------ MODULE Control -------------------------------
(***************************************************************************)
(* The control plane of Bitcoin: actors, control processes, the scheduler  *)
(* and its overrides, finite actions.  They meet only in API objects that  *)
(* each module already lets change on its own, so a behaviour is one of    *)
(* one part (its scene), and the variables of the others rest at 0.        *)
(***************************************************************************)
EXTENDS Naturals, Sequences, FiniteSets

CONSTANTS
    ActorPods, ActorCases,                                   \* ActorLifecycle
    ProcessPods, ProcessSets, ProcessEpochs, ProcessCases,   \* ControlLifecycle
    Target, Mature, None,                                    \* BitcoinScheduler, with a baseline
    ScheduleNodes, ScheduleCeilings, ScheduleBatch, ScheduleOffers, ScheduleHeight, ScheduleCases,
    OverrideNodes, OverrideRequests, OverrideCeilings,       \* BitcoinScheduler, with overrides
    OverrideBatch, OverrideOffers, OverrideHeight, OverrideCases,
    ActionRequests, ActionBase, ActionBlocks, ActionCeiling, \* BitcoinActions
    ActionCases

VARIABLES scene,
    root, part, sts, pod, drained, op, stale, born, recorded, budget, dep, sets, pods, used,
    initial, exec, obs, height, req, timed, life, done, active, chain, wire, w, clock, made, spec

Actor == INSTANCE ActorLifecycle WITH MaxPods <- ActorPods, Budgets <- ActorCases

Processes == INSTANCE ControlLifecycle WITH
    MaxPods <- ProcessPods, MaxSets <- ProcessSets, MaxEpochs <- ProcessEpochs, Budgets <- ProcessCases

Production == INSTANCE BitcoinSchedulerProofs WITH
    Nodes <- ScheduleNodes, Requests <- {}, Ceilings <- ScheduleCeilings, BatchLimit <- ScheduleBatch,
    MaxOffer <- ScheduleOffers, MaxHeight <- ScheduleHeight, Budgets <- ScheduleCases

Override == INSTANCE BitcoinSchedulerProofs WITH
    Nodes <- OverrideNodes, Requests <- OverrideRequests, Ceilings <- OverrideCeilings,
    BatchLimit <- OverrideBatch, MaxOffer <- OverrideOffers, MaxHeight <- OverrideHeight,
    Budgets <- OverrideCases

Actions == INSTANCE BitcoinActionsProofs WITH
    Requests <- ActionRequests, Base <- ActionBase, MaxBlock <- ActionBlocks, Ceiling <- ActionCeiling,
    Cases <- ActionCases

ASSUME ControlAssumption ==
    /\ Actor!Bounds /\ Processes!Bounds
    /\ Production!Bounds /\ Production!Nil /\ Override!Bounds /\ Override!Nil
    /\ Actions!Bounds /\ Actions!Nil

all == <<scene, root, part, sts, pod, drained, op, stale, born, recorded, budget, dep, sets, pods, used,
         initial, exec, obs, height, req, timed, life, done, active, chain, wire, w, clock, made, spec>>

actorUnused == <<dep, sets, pods, used, initial, exec, obs, height, req, timed, life, done,
                 active, chain, wire, w, clock, made, spec>>
processUnused == <<sts, pod, drained, stale, born, initial, exec, obs, height, req, timed, life,
                   done, active, chain, wire, w, clock, made, spec>>
scheduleUnused == <<part, sts, pod, drained, stale, born, recorded, dep, sets, pods, used, chain,
                    wire, w, clock, made, spec>>
actionUnused == <<part, sts, pod, drained, op, stale, born, recorded, dep, sets, pods, used,
                  initial, obs, height, timed, done, active>>

ActorInit ==
    /\ scene = "Actor" /\ Actor!Init
    /\ dep = 0 /\ sets = 0 /\ pods = 0 /\ used = 0 /\ initial = 0 /\ exec = 0 /\ obs = 0
    /\ height = 0 /\ req = 0 /\ timed = 0 /\ life = 0 /\ done = 0 /\ active = 0 /\ chain = 0
    /\ wire = 0 /\ w = 0 /\ clock = 0 /\ made = 0 /\ spec = 0

ProcessInit ==
    /\ scene = "Processes" /\ Processes!Init
    /\ sts = 0 /\ pod = 0 /\ drained = 0 /\ stale = 0 /\ born = 0 /\ initial = 0 /\ exec = 0
    /\ obs = 0 /\ height = 0 /\ req = 0 /\ timed = 0 /\ life = 0 /\ done = 0 /\ active = 0
    /\ chain = 0 /\ wire = 0 /\ w = 0 /\ clock = 0 /\ made = 0 /\ spec = 0

ScheduleInit ==
    /\ \/ scene = "Production" /\ Production!Init
       \/ scene = "Override" /\ Override!Init
    /\ part = 0 /\ sts = 0 /\ pod = 0 /\ drained = 0 /\ stale = 0 /\ born = 0 /\ recorded = 0
    /\ dep = 0 /\ sets = 0 /\ pods = 0 /\ used = 0 /\ chain = 0 /\ wire = 0 /\ w = 0 /\ clock = 0
    /\ made = 0 /\ spec = 0

ActionInit ==
    /\ scene = "Actions" /\ Actions!Init
    /\ part = 0 /\ sts = 0 /\ pod = 0 /\ drained = 0 /\ op = 0 /\ stale = 0 /\ born = 0
    /\ recorded = 0 /\ dep = 0 /\ sets = 0 /\ pods = 0 /\ used = 0 /\ initial = 0 /\ obs = 0
    /\ height = 0 /\ timed = 0 /\ done = 0 /\ active = 0

ActorNext == scene = "Actor" /\ Actor!Next /\ UNCHANGED <<scene, actorUnused>>

ProcessesNext == scene = "Processes" /\ Processes!Next /\ UNCHANGED <<scene, processUnused>>

ProductionNext == scene = "Production" /\ Production!Next /\ UNCHANGED <<scene, scheduleUnused>>

OverrideNext == scene = "Override" /\ Override!Next /\ UNCHANGED <<scene, scheduleUnused>>

ActionsNext == scene = "Actions" /\ Actions!Next /\ UNCHANGED <<scene, actionUnused>>

Init == ActorInit \/ ProcessInit \/ ScheduleInit \/ ActionInit

Next == ActorNext \/ ProcessesNext \/ ProductionNext \/ OverrideNext \/ ActionsNext

Spec == Init /\ [][Next]_all

-----------------------------------------------------------------------------
\* Every component keeps to its types.
TypesOK ==
    /\ scene = "Actor" => Actor!TypeOK
    /\ scene = "Processes" => Processes!TypeOK
    /\ scene = "Production" => Production!TypeOK
    /\ scene = "Override" => Override!TypeOK
    /\ scene = "Actions" => Actions!TypeOK

\* The termination an actor's status records is the truth, it is recorded before the Pod is
\* released, and a completed shutdown left nothing that runs or could start
\* (participantworkload: terminated, releasePod, Shutdown).
ActorEvidence ==
    scene = "Actor" => Actor!EvidenceTrue /\ Actor!EvidenceBeforeRelease /\ Actor!DoneIsQuiet

\* An actor is scaled down only after its control executor drained (BeforeStop).
ActorDrainedFirst == [][scene = "Actor" => Actor!ScaledAfterDrain]_sts

\* No control process outlives what vouches for its end: the recorded termination of a
\* deleted network, the finalizer of its participant, the finalizer of its Pod
\* (control_lifecycle.go).
ProcessesGone == scene = "Processes" => Processes!TerminationTrue /\ Processes!OwnerOutlivesProcess

\* Opportunities of the schedule and receipts of the workers are counted exactly once, over
\* restarts and lost writes between the records (scheduler.go, bootstrap_receipts.go, baseline.go).
ProductionCounted ==
    /\ scene = "Production" => Production!OpportunitiesConserved /\ Production!ReceiptsCountedOnce
    /\ scene = "Override" => Override!OpportunitiesConserved /\ Override!ReceiptsCountedOnce

\* An override ends as what became of it (overrides.go).
OverrideRetained == scene = "Override" => Override!OverrideOutcomeRetained

\* What a finite action reports is what Bitcoin Core did (actions.go).
ActionOutcomeTrue == scene = "Actions" => Actions!OutcomeTrue

\* A reservation outlives its markers and its unpublished receipts (actions.go,
\* action_reorganization.go).
ReservationKept == scene = "Actions" => Actions!MarkerOwned /\ Actions!EvidencePublished
=============================================================================

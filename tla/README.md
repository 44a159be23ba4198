# A verification project for stacks-k8s

stacks-k8s is a set of Kubernetes operators that build and drive private Stacks and
Bitcoin networks for experiments. This directory holds TLA+ models of its core, the TLC
runs that check them on small instances, and TLAPS proofs of the most important properties
for every instance. Every definition is translated from the Go source; paths below are
relative to the root of the repository, and `N/` stands for `operators/network/internal/`.

`PROJECT.json` lists the components, runs, mutants, the source lines behind every
definition, the findings, the hazards and the theorems.

1. The system, 2. The modules, 3. The runs, 4. Properties and fairness, 5. Findings,
6. Proofs, 7. What is not modelled, 8. Plan, 9. Running

## 1. The system

A `StacksNetwork` object (the *root*) names participants: Bitcoin nodes and miners, Stacks
nodes, signers, and workers for faucets, stacking, contracts and traffic. Nothing talks to
anything directly: every part reads and writes status fields of API objects, and writes
carry the UID and resourceVersion that was read. The hard part is that native operations
(generating a block, broadcasting a transfer) cannot be repeated safely and cannot be made
atomic with the writes that record them, and that most reads are not one snapshot: informer
caches lag, each on its own. The code base answers with a few rules, applied in several
places: *write the intent, send once, keep the intent until exactly its outcome is seen, and
call a loss a loss*; *record evidence before you let go of what carries it*; *evaluate again
on fresh reads what cannot be taken back*.

| Component | State | Operations | Talks to | Hard behaviour | What makes it correct |
|---|---|---|---|---|---|
| Bitcoin control worker (`N/bitcoincontrol/worker.go`, `drain.go`, `admission.go`, `wallets.go`, `pause.go`) | `BitcoinExecution` record: Armed, last receipt, completed offer, block counter, pause and drain acknowledgements; in a process: the collector | step, arm, withdraw, send, collect, account, pause, drain | scheduler, lifecycle and foundation through the record and the root; bitcoind by RPC | overlapping processes, crashes, lost acknowledgements, late writes, pause and drain racing a send | one mutation outstanding, none sent twice, exact ledger, quiet pause and drain |
| Bitcoin production scheduler (`scheduler.go`, `bootstrap_receipts.go`, `baseline*.go`, `gates.go`, `overrides*.go`) | the initialization object: current offer, cursors, funding, gates; active override | select, assign, account a receipt, next gate, activate and close overrides | workers (offers and receipts), runtime (gates) | objects written one after the other; receipts seen late | each offer and receipt counted once, overrides that end with their outcome |
| Bitcoin finite actions (`actions.go`, `action_reorganization.go`, `operators/action`) | reservation, action status, captured fork | reserve, generate, reorganize, clean up, stop, project | worker record, action operator | stop while armed, chain moving under a capture | marked blocks stay owned, what is reported was done |
| Control process lifecycle (`control_lifecycle.go`, `workloads.go`) | Deployment, ReplicaSets, Pods, finalizers, termination evidence | roll out, scale to zero, confirm termination | kubelet, worker record | several reads that are not one snapshot | termination is only confirmed when no process runs or can start |
| Network foundation (`N/foundation`) | identity ledger, admissions, genesis, removal latch | allocate, compose, admit, capture, recover, remove, finalize | every other controller | lagging definitions, partial creation, filtered events | genesis captures the truth and keeps it; no wake-up is lost |
| Stacks worker runtime (`N/stacksworker`) | session (binding, shutdown, disposal), pending report, cached snapshot | bind, step the role, publish, drain, dispose | roles, participant status, root ledger | API outages, retried reports, crashes, evictions | one process per session; what the ledger says of its end is so; no unauthorised submission |
| Stacks operation roles (`N/stacksoperation`) | nonce stream, pending transaction, goals, entries and hints | observe, offer, flush, drain | the node, participant and request status | lost answers, deleted requests, other writers | no nonce twice, locks within the policy, failures justified |
| Faucet requests (`N/faucetrequest`) | request status: admission, phase; reservations in memory | admit, count, project | role through request status, runtime through participant status | lost acknowledgements, deadlines, capacity | capacity, true phase, final decisions |
| Network runtime projection (`N/networkruntime`) | gates, phase, conditions, height samples | open gates, project pause, stop, failure, health | scheduler, participants | stale and mixed observations | irrevocable decisions rest on evidence |
| Participant workloads (`N/participantworkload`) | StatefulSets, Pods, termination evidence | create, roll, scale down, release | kubelet, control lifecycle | evidence lost before it is stored | no actor is called over while it may run |

The API types (`apis/network`) are modelled as the records the components exchange. Native
clients and key libraries, the read-only Bitcoin observer, the observability operator, the
command-line tools and the charts keep no protocol state and are not modelled.

How the parts meet in the models. `BitcoinWorker` takes the scheduler's offers and
`ControlLifecycle`'s answer (`ConfirmTermination`); `BitcoinScheduler` takes the worker as two
steps (arm, receipt); `ActorLifecycle` takes the drain as one step; `FaucetRequests`,
`StackerRole` and `ContractRole` use the nonce stream (`NonceStream` for the latter two) inside the
runtime that `StacksWorker` and `StacksAuthority` model; `NetworkRuntime` and `NetworkHealth` take
what the others publish as objects that change by themselves; `Foundation` is where
participants come from. Each side of such a boundary is checked against the part of the other
that it can observe.

## 2. The modules

Common conventions. A controller's pass is a program counter with what it has read; every API
read and write and every native call is a step of its own unless nothing can come between.
A write that carries a resourceVersion succeeds when the object is as it was read; an `Abort`
action (or `conflict`) is the refused write, the failed call and the restart at once. What
users, faults and the environment may still do is a `budget`, chosen at the start from a
constant set, so that one run covers many combinations; the theorems hold for every budget.
History variables are named as such and are read by properties only.

### BitcoinWorker, ArmedSlot

`BitcoinWorker.tla` models the worker of one Bitcoin node: several control processes
(`Procs`, one per incarnation), the record `rec` they share, the part of the scheduler that
selects, assigns and counts offers, the root, and bitcoind.

| Model | Code |
|---|---|
| `rec`, and `fresh`: processes whose copy has the current resourceVersion | `BitcoinExecution` in `apis/network/bitcoin/v1alpha2/execution_types.go` |
| `pc`, `view`, `op`, `note`: where a process is in Step, what it has read | locals of `Worker.Step`, `arm` |
| `col`, `req`: the collector | the goroutine started by `arm`, `collect` |
| `late`: writes of Armed whose acknowledgement was lost before they committed | `Status().Update` at `worker.go:281` |
| `sent`, `executed`, `accounted` | history of what was handed to the RPC transport, run by bitcoind and counted |
| `ReadRecord`, `observe`, `Publish`, `Reserve` | `Worker.Step` |
| `AuthorizeArm`, `Preflight`, `WriteArmed`, `LoseArmed`, `LandArmed`, `Confirm`, `RefuseConfirm`, `withdraw` | `arm`, `withdraw` |
| `Send`, `Receive`, `LoseResponse`, `account`, `AlreadyAccounted`, `AbandonReceipt` | `collect`, `account`, `release` |
| `stop`, `DrainTimeout`, `AcknowledgeDrain`, `acknowledgePause`, `WriteAcknowledgement`, `CheckDrained` | `drain.go` |
| `SelectOffer`, `AssignOffer`, `accountBootstrapReceipt` | `scheduler.go`, `bootstrap_receipts.go` |
| `Pause`, `Close`, `SelectParticipant`, `LatchRemoval`, `ConfirmTermination` | edits of the root, `foundation/reconciler.go`, `control_lifecycle.go` |

Every API read, API write and native call is a step of its own unless nothing can come
between. Finite actions are disabled (`status.action` stays nil), as in a deployment without
the action operator.

`ArmedSlot.tla` is the abstract specification: a request is armed into an empty slot,
sent once, run at most once, and leaves the slot counted or unsent.
`ImplementsArmedSlot` says that the worker implements it.

### FaucetRequests

`FaucetRequests.tla` composes three parts of the code around the status of
`StacksFaucetRequest` objects: the admission controller, the faucet role with its nonce
stream, and the loop of the worker runtime around the role.

| Model | Code |
|---|---|
| `obj`, `late` | request objects; applies whose sender gave up before they committed (`status.go`, `ApplyStatus`) |
| `grant`, `uncertain` | a `Reconcile` between count and write; `Reconciler.uncertain` |
| `Reconcile`, `Grant`, `WriteGrant`, `RefuseGrant`, `admit`, `activeCount`, `ProjectPhase` | `faucetrequest/controller.go`, `status.go`, `watches.go` |
| `entries`, `last`, `failed` | `FaucetRole.entries`, `summary.LastDeletedOutcome`, `failed` |
| `notices`, `rescan`; `CollectionChanged`, `SettledEvent`, `rescanNotices`, `Eligible` | `faucet_queue.go` |
| `pend`, `next`; `Observations`, `Offer`, `submitAccepted`, `submitUncertain`, `submitRefused` | `nonce.go` and `ObservePending` |
| `pick`, `Dispatch`, `authorize`, `flush`, `flushDeleted`, `flushGivenUp`, `flushFailed`, `drainNotice` | `faucet.go`: `Step`, `authorize`, `flush`, `Drain` |
| `report`, `pub`; `Begin`, `ObserveOutage`, `publish`, `publishDraining`, `acknowledge`, `republish` | `stacksworker/runtime.go` |
| `RecordShutdown` | `stacksworker/session.go`, `ProjectSession` |
| `acct`, `wire`, `paid`, `aborted`; `Include`, `ForeignTransfer` | the chain, external |

Abstractions, and why they keep what the properties are about:

- A read followed by a write that is conditional on the version read is one step; the write
  that fails on a conflict changes nothing and is retried. Where something else is
  read in between (the capacity before an admission) the two are apart.
- `late` keeps an apply only until another write of that object commits, because then its
  resourceVersion is old.
- The participant's summary is read together with the count of active requests; the
  account and the last authorization before a send are one step, and so are choosing an entry
  or hint and reading its request.
- Names, amounts, fees and addresses fit. Requests that do not fit are rejected without
  reaching the worker.
- There is one worker Pod. A restarted process cannot take the session over
  (`runtime.go:365`), so a crash is the end of it; the Pod may still look as if it ran.
- A faucet is never given a cached snapshot (`outage.go`, `baselineKind`), so an outage
  only leaves the observation of the pending transfer (`ObserveOutage`).
- Hints are taken in any order. The code sorts them as a best effort.

The surroundings of a behaviour (its requests, the capacity, which failures and edits may
happen, and how often) are a record `env` that is chosen at the start and never changes, so
that one run covers several instances. The instances are in `MCFaucetRequests.tla`.

### ActorLifecycle

`ActorLifecycle.tla` models the reconciler of `N/participantworkload` for one actor, as a
sequence of API reads and writes between which users, the StatefulSet controller, the
garbage collector and the kubelet act.

| Model | Code |
|---|---|
| `root` | `spec.operation` and `spec.participants[].control.suspended` of the network |
| `part` | the participant: finalizer, admitted policy, `status.runtime` (`run.ref` is `PodRef`, `run.term` is `Terminated`), reason of `WorkloadReady` |
| `sts`; `view`, `seen`, `count` | the StatefulSet; the replica count its controller acts on, `observedGeneration`, `status.replicas` |
| `pod`; `evidence`, `proc` | the Pod of the fixed name; what its container states say, and its process |
| `op`, `stale` | locals of `Reconcile`; copies that a conditional write will be refused for |
| `ReadParticipant`, `ReadRoot`, `recheckIntent`, `addFinalizer`, `observeActor`, `finish`, `dropFinalizer` | `reconciler.go`: `Reconcile` |
| `refuseActivation` | every gate of `Reconcile` that ends an activation |
| `convergeWorkload`, `capturePod`, `patchWorkload` | `lifecycle.go`: `reconcileStatefulSet` |
| `stopConfirmed`, `BeforeStop` | `stopActor` |
| `shutdownWorkload`, `shutdownRemaining`, `shutdownActor`, `scaleDown`, `deleteWorkload` | `shutdown` |
| `terminated`, `terminationRecorded`, `retainPod`, `releasePod` | the functions of these names |
| `conflict` | a write refused because its object has changed |
| `SyncSet`, `CreatePod`, `DeletePod`, `CollectSet` | StatefulSet controller and garbage collector, external |
| `SchedulePod` ... `PodVanishes` | scheduler, kubelet and API server, external |

Abstractions:

- The reasons of the activation path are one reason, `Active`: no decision reads them.
- A removal is the deletion of the participant. Deletion of the root and deselection reach the
  same branch (`removing`) and end in that deletion.
- Writes of the participant by other managers make a status apply fail; that is a `Restart`.
- The StatefulSet controller acts on the spec it last observed. Nobody force-deletes a Pod and
  nobody else removes its finalizer. A lost node comes back: the kubelet reports the end of a
  process in the end (that is a fairness assumption, no safety property rests on it).
- Decisions and faults are bounded by `budget`, chosen at the start from `Budgets`.

### BitcoinScheduler

`BitcoinScheduler.tla` models the production of blocks that nobody asked for individually: first
the bootstrap gates (fund the miner wallet, raise the chain to a ceiling), then the weighted
baseline, under schedule overrides.

| Model | Code |
|---|---|
| `initial`: offer, `accounted`, funding, baseline with its counters and cursors | `BitcoinInitialization.status` |
| `exec`, `obs` | the execution record and the observation of each node |
| `op`: the root a reconciliation read | locals of the scheduler's `Reconcile` |
| `Scheduler`: select, publish, withdraw, account, fund, activate, close | `scheduler.go`, `bootstrap_receipts.go`, `baseline.go`, `gates.go`, `overrides.go` |
| `OverrideController`, `req`, `life` | `override_controller.go` |
| `Arm`, `Receipt` | the worker, in two steps (`BitcoinWorker` has the rest) |
| `Due`, `CeilingDeadline`, `Expire`, `GrowOld` | what has become true with time |

Records are written one after the other, so a crash can fall between the offer that the
initialization commits to and the one the execution record shows; that is where counters go
wrong. There is one miner wallet. Phases and reasons that are only reported are left out.

### BitcoinActions

`BitcoinActions.tla` models a generation or a reorganization on one node, from the request to its
end: the worker reserves the execution record, sends call by call, and the action operator, which
never talks to the node, projects the reservation into the request.

| Model | Code |
|---|---|
| `chain`, `wire` | Bitcoin Core: blocks with parents, marked blocks, the tip; calls not yet executed (external) |
| `exec`, `w` | `BitcoinExecution.status` with `BitcoinActionReservation`; the worker's pass |
| `Candidate`, `Reserve`, `StepAction`, `Arm`, `Confirm`, `Withdraw`, `Account` | `actions.go`, `action_reorganization.go`, `worker.go` |
| `ReadRequest`, `AddFinalizer`, `ReadExecution`, `ReportAction` | `operators/action/controllers/foundation/reconciler.go` |
| `clock`, `root` | expiry and cleanup horizon; operation, actor process, enabled profiles |
| `Abort`, `AbortLife` | a refused write, a failed call, a restart |

Blocks are numbers with a parent and work is height. A marked block takes its descendants with it.

### ControlLifecycle

`ControlLifecycle.tla` models the reconciler that keeps one control process per Bitcoin node and
must say when none is left. It reads the Deployment, its ReplicaSets and its Pods *one after the other* and
infers from the three what runs and what can still start; the Deployment and ReplicaSet
controllers, the collector and the kubelet act in between.

| Model | Code |
|---|---|
| `dep`, `sets`, `pods` | the objects; `proc` is known to the kubelet only |
| `part.st` | `status.bitcoinControl`: known Pods, `Terminated`, the generation it is for |
| `op`: the step, the reads so far | `control_lifecycle.go`: `Reconcile` |
| `recorded` | history: Pods whose end the status has recorded |

`CheckDrained` trusts the result on deletion, and the finalizer of the participant hangs on it.
Rendering is one step. The history `recorded` is not read by any action.

### StacksWorker

`StacksWorker.tla` models the session of one Stacks mutation worker as three programs around one
ledger entry: the domain controller that makes a candidate Pod, the aggregate that binds it in the
root, asks for its shutdown and records how it ended, and the process.

| Model | Code |
|---|---|
| `ses` | `status.identities[i].worker`: binding, `Shutdown`, `Disposal` |
| `part.exec` | the execution report in the participant |
| `GetParticipant` ... `ForgetCandidate`, `ctl` | `stacksworker/controller.go`: `Reconcile`, `extraCandidates`, `releaseParticipant` |
| `AggregateReadRoot` ... `AggregateWrite`, `agg` | `networkruntime/workers.go`, `stacksworker/session.go`: `ProjectSession` |
| `ReadControl`, `BindProcess`, `BeginStep`, `Authorize`, `Submit`, `Drain`, `publish`, `RepeatAcknowledgement`, `w` | `stacksworker/runtime.go` |
| `CheckActorStop` | the guard the actors' reconciler asks |
| `sent`, `open` | history: submissions of each Pod, and those not settled |

Every one of the three holds copies that the other two may have outdated. `late` is the clock of
`ShutdownBound`. Pods are never restarted.

### StacksAuthority

`StacksAuthority.tla` models what a bound worker needs in order to submit: the reads of
`Runtime.fresh`, the snapshot a pass is decided on, the cached authority that bridges an outage, the
authorization right before the send, and the grants the controller keeps for the worker.

| Model | Code |
|---|---|
| `rt`, `role` | fields of `Runtime` and of the role that survive a pass |
| `ReadRoot`, `ReadParticipant`, `ReadSource`, `UseFresh`, `UseCached` | `runtime.go`, `outage.go`: `fresh`, `observePartialRoot`, `cachedSnapshot` |
| `ResolveLive`, `ResolveCached`, `NoOffer` | `traffic.go`, `applied_inputs.go` |
| `AuthorizeLost`, `AuthorizeChanged`, `AuthorizeUnsure`, `Prerequisites` | `authorizeInvocation`, `cacheEligible`, `cacheHeld` |
| `Recheck`, `Confirm`, `Submit` | `traffic_observation.go`: `TransferRole.authorize`; `traffic.go`: the send |
| `ReadSupport`, `ensureSupport` | `Reconciler.ensureSupport` |
| `seen` | history: the last definite answer of each kind |

Any read may be unanswered for a moment; a denial is an answer. An authorized transfer resolves its
inputs once more (`Recheck`): when that is unanswered, the authorization is repeated on the cache
(`why` is `again`), and if it is granted, the send follows without any other read. So an outage that begins
during a pass, or before it, can be bridged by the cache alone. A submission that is refused ends in the
report of the step all the same (`stopped`). How the process got bound and how it drains is in
`StacksWorker`.

### NonceStream, StackerRole, ContractRole

`NonceStream.tla` is `nonce.go`: the pure transitions of the nonce of an account. `StackerRole.tla` is
the stacking worker (`pox4.go`, `pox5.go`): stake, extend, the crossing to PoX-5, the manager
contract's deployment and registration; holder and administrator have a stream each, or share
one. `ContractRole.tla` is the deployment of the pinned sources and the registry (`contracts.go`).
`chain`, `pool` and `done` are the chain, the transactions a node holds and the executed ones; a
submission may be accepted, refused, or accepted with its answer lost, dropped later, executed
cycles later, or overtaken by another writer of the account. A cycle has two heights, its reward
and its prepare phase. An observation is one read, as the code brackets it by two equal chain views.

### NetworkRuntime, NetworkHealth

Both model the projection of what others publish into the root's status
(`N/networkruntime`), before and after initialization. A pass reads the root from the API server and
nearly everything else from informers, each of which lags on its own (`srv` and `cache`); what cannot be
taken back is evaluated again on fresh reads, one object after the other, and the result is written
under the resourceVersion of the root.

| Model | Code |
|---|---|
| `NetworkRuntime`: `TryGates`, the fresh evaluation, `Write` | `gates.go`: `reconcileGates`, `projectGates`, `projectPreparation` |
| `NetworkRuntime`: sessions and phases | `workers.go`, `reconciler.go`: `bitcoinPaused`, `workersPaused`, `Reconcile` |
| `NetworkHealth`: `ProjectOperation`, `Validate` | `operational.go`: `projectOperation`, `ValidateSchedulingOverride` |
| `NetworkHealth`: samples | `burnchain.go`: `burnchainObservations`, `retainHeightSample`, `greatestSample` |
| `held` | history: what was true in the API server at some time since the pass began |
| `seen` | history: every observation <<process, height, time>> a source has made |

One required member of each sort stands for its cohort in `NetworkRuntime`; `NetworkHealth` has a set
of miners. Time counts freshness windows.

### Foundation

`Foundation.tla` models the topology pass: a ledger of identities, participants created under it,
policies composed from definitions and admitted, a genesis that freezes them, gates that release
them one after the other, removal and finalization; and `watches.go`, which decides which change
puts the network back into the queue. The pass is `Fresh`, one visit per name, the capture and the write;
`cdefs` is the informer, `events` the notifications on their way, `queue` the key.

A policy is a number for what an edit does to it: mutable, frozen by a gate, protected, invalid,
absent. `bitcoinBootstrapCompatible`, `ExpectedInputDigest` and the limit of instances are decided by
that number; the changes of kind and `compileGenesis`' errors for missing kinds are left out.
Passes do not overlap (`MaxConcurrentReconciles` is 1), and `Stopped` is terminal (the CEL rule at
`apis/network/v1alpha2/composition.go:214`).

`hist` tells apart the ways in which a captured participant may go: `lost`, an object deleted or changed by
somebody else; `removed`, a topology edit made while the capture was `unpublished`, that is, between the
pass that captures and the write of the root's reference to the genesis. The second is an exception
that the code makes: until the root refers to the genesis nothing protects the entry, so a pass deletes
the participant itself (`reconciler.go:160-176`), and the recovery that then reads the genesis misses it and
latches `Failed` (205-235). `CaptureKept` says that there is no third way; that the second one does
happen within the bounds of the run can be seen by dropping it from the property, which TLC then refutes.

### Control, Network

`Control.tla` puts the parts of the Bitcoin control plane side by side: an actor, its control
processes, the scheduler twice (a baseline without overrides, a node with overrides) and the finite
actions. `Network.tla` puts the Stacks side and the root's side by side. They meet only in API objects that each
module lets change on its own already, so a behaviour is one of one part (`scene`) and the
variables of the other parts rest at 0. The constants of both are those of the parts; they state what
the control plane and the network keep. `MCControl` and `MCNetwork` only say what may happen.

## 3. The runs

A run puts several components, or several situations of one, side by side: a variable `scene` is
chosen at the start and never changes, so each behaviour is one of a single scene and the run's size
is the sum of its scenes. `CHECK_DEADLOCK FALSE` is there where the system may rest for
good (budgets spent, everything released).

| Run | Question | Scenes and bounds |
|---|---|---|
| `worker` | Does anything outstanding ever leave the slot, is the ledger exact, are pause and drain quiet? | *Slot*: two overlapping processes, two offers, one arm at a time; *Ledger*: one process at a time through two offers of two blocks, one actor restart, one peer block; *Pause*: the network is paused and resumed over four generations; *Drain*: the participant is deselected, selected again and removed |
| `worker_live` | Does a stop come to its end, is a response in hand counted? | *Slot*, with the network stopped once |
| `faucet` | Is a request paid at most once, is what is reported true and final, are places and nonces kept? | *Outcome*: one request, every failure, a foreign transfer, a late write; *WithdrawnRequest*: the same, deleted; *Crowd*: three requests, two places, made while paused; *Account*: two requests on one account with another writer and a restarted controller |
| `progress` | Do an actor's stop, a faucet queue and an included transfer come to their ends? | an actor with the endings of `MCActorLifecycle`; one faucet request whose failures pass |
| `control` | The Bitcoin control plane under restarts, lost nodes, deletions and edits | *Actor*: two Pods, six combinations of stop, removal, suspension, policy edit and faults; *Processes*: two Pods, ReplicaSets and Deployments; *Production*: two nodes, two gates and the baseline, three offers; *Override*: one node, one override; *Actions*: a reorganization, a generation of two blocks, or one behind the other |
| `network` | The Stacks side and the root's side | *Worker*: two Pods, one submission each, nine combinations of ends and faults; *Authority*: two policies, two submissions, up to four unanswered reads; *Stacker*: lock of two cycles, six cycles, PoX-5 from the fourth, five transactions; *Contract*: two sources and the registry; *Runtime*: six gates from several starting points, deadline two windows; *Health*: two miners, window two; *Base*: two participants of which one depends on the other, two gates, four UIDs |
| `stale_drain`, `orphan_queue`, `lost_termination`, `action_ends`, `paused_policy`, `early_stopped` | the findings of section 5 | the smallest instance that shows each |

Why the bounds are enough. Two Pods, processes, policies, miners or participants are what it
takes for one to be mistaken for the other; three requests for two places is the least that exceeds
a capacity; four unanswered reads in a row are an outage that lasts through the preparation, the
authorization, the last resolve and the authorization on the cache, while the root, the inputs or the participant
change unseen;
the reorganization, the lock and the six gates are taken at their real shape, small in size.
Budgets give each behaviour one or two decisions and faults: every hazard listed in
`PROJECT.json` needs at most that many. What does not depend on a bound is proved (section 6).
Every property has a mutant of the code's model that violates it within the same bounds
(`PROJECT.json`, mutants), so the interesting case does happen. The symmetry of `worker` exchanges
processes; nothing distinguishes them but their identity, and no liveness is checked under it.

## 4. Properties and fairness

*Slot and ledger.* `SlotHoldsOutstanding`: what was sent and is not counted is what the record has
armed. `OfferSentOnce`: no offer is handed to the transport twice. `ProductionExact`: the counter lags
the chain by exactly the request in hand, and generation never passes the ceiling by itself.
`PauseAcknowledgedIsQuiet`, `DrainedIsQuiet`: after the acknowledgement nothing can be sent any more, by any
process. `ImplementsArmedSlot`: the refinement.

*Faucet.* `PaidOnce`, `NonceHeld`, `StatusTrue` (evidence and phase are true of the chain), `SettledIsQuiet`
(a settled worker left nothing that may still be paid), `PlacesKept` (admissions that may still land are
counted), `OutcomeFinal` (no late or stale write changes a decision).

*Bitcoin control plane.* `ActorEvidence` and `ActorDrainedFirst`: a recorded termination is true and comes
before the release; the executor drains before its actor goes. `ProcessesGone`: no control process
outlives what vouches for its end. `ProductionCounted`, `OverrideRetained`: counters and the outcome of an
override. `ActionOutcomeTrue`, `ReservationKept`: what is reported was done, markers stay owned.

*Network.* `WorkerEndTrue`, `SubmissionsAuthorised`, `NoncesExact`, `LockBounded`, `RoleOutcomesJustified`,
`SamplesTrue`, `RestIsConverged` (no wake-up is lost), `CaptureKept` (what was captured stays on the ledger, and
the network fails only for a loss by somebody else, or for a removal before the genesis was published), and the
action properties
`GateDecisionsEarned`, `PhasesTrue`, `OperationEarned`, `CaptureTrue`: a decision that cannot be taken back was
earned on evidence that held while it was taken.

*Liveness.* What fairness is assumed, and why:

- Worker (`DrainEventually`, `ReceiptCounted`): `Start` and `Step` of each process weakly fair, because the worker
  loop ticks; `stop`, `DrainTimeout` and `AcknowledgeDrain` strongly fair, because a conditional write may
  be refused again and again by another writer, but is retried on every tick; accounting weakly fair, because its
  loop retries until it succeeds or the process ends.
- Faucet (`FaucetServed`, `FaucetReported`): the runtime's loop steps on a timer; `Begin` when it brings an
  observation, `flush`, `flushDeleted` and `publish` are strongly fair, because their reads and writes may fail but not for
  ever; the admission's write or refusal weakly, its reconciliation strongly, as the work queue retries.
- Actor (`ActorStops`): reconciler, drain, StatefulSet controller and kubelet are weakly fair. A lost node comes
  back. `StopCompletes` excludes evidence lost for good.
- Actions (`action_ends`): aborted passes end, retried calls and writes succeed at last, and the node
  answers.

No safety property uses fairness.

## 5. Findings

Where the code does something else than a comment or a document of the repository says. Each has a run
whose counterexample shows it; `PROJECT.json` quotes the lines.

1. `stale_drain`: a `Drained` acknowledgement written for a deselection that was undone is taken for the drain of
   a later stop, while a request is armed; the actor is never released (`drain.go:69`).
2. `orphan_queue`: two deleted requests overwrite each other's retained outcome; until the first one's transfer
   is included the queue is not served (`faucet.go:437`).
3. `lost_termination`: suspended, resumed and stopped before the new Pod was observed, an actor takes back the
   termination of its old Pod and waits for it for ever (`reconciler.go:353`, `lifecycle.go:319`).
4. `action_ends`: when the last receipt of a generation is accounted after its time, worker and operator
   each leave the end to the other; the request stays `Active` and its reservation stays (`actions.go:377`).
5. `paused_policy`: an edit of the policy of a paused worker makes its process exit (`runtime.go:529`).
6. `early_stopped`: a Pod that is being replaced counts as terminated; `Stopped` is published while the next one
   starts (`participantworkload/reconciler.go:363`).

Seen and not claimed, as no line of the repository says otherwise: the reservation of an uncertain
admission whose request was deleted stays until the controller restarts; a retried uncertain admission counts
itself; an ordinary removal of a participant between the capture and its publication fails the network
(section 2, Foundation); an entry removed between the creation of its instance and the record of its identity leaves an
instance that only the deletion of the root removes.

## 6. Proofs

The theorems hold for every value of the constants that meets the named assumptions, and these say
no more than what a constant is: bounds are numbers (`BoundsAssumption`, `Bounds` of each module, `ControlAssumption`),
edits are among those the model knows (`EditsAssumption`), a nil pointer is none of the values
(`NoneAssumption`, `Nil`), requests are finite in number (`SituationAssumption`), there is a miner and policy 1
exists, participants are numbered in the order a pass visits them, and a budget of the runtime starts at one
of its gates. TLC evaluates each of them on the instance it checks. Any set of processes, Pods, policies,
requests or miners and any budget of faults is covered. The inductive
invariants were put to TLC on small instances before they were proved. No module uses recursion.

| Theorem (module) | States | Inductive invariant and why it is needed |
|---|---|---|
| `TypeCorrect`, `ProtocolHolds`, `OneOutstanding`, `NoOfferTwice` (`BitcoinWorkerProofs`) | `TypeOK`, `SlotHoldsOutstanding`, `OfferSentOnce` | `Inv = TypeOK /\ SlotProtocol`. That the slot names what is outstanding is not inductive: one must know who may still write it (copies with the current version, late writes), that identities are never reused, and that offer numbers grow |
| `Refinement` (`BitcoinWorkerProofs`) | `ImplementsArmedSlot` | each step of the worker is a step of `ArmedSlot` or leaves its slot alone, given `Inv` |
| `ProductionTheorem`, `PauseTheorem`, `DrainTheorem` (`BitcoinWorkerProofs`) | `ProductionExact`, `PauseAcknowledgedIsQuiet`, `DrainedIsQuiet` | on top of `Inv`: `ProductionInv` carries the ceiling check from the read to the run (in a copy, a late write, the slot); `PauseInv` says that once acknowledged no process past its authorization has a current copy; the drain adds that generations only grow |
| `PaidOnceTheorem`, `StatusTheorem`, `SettledTheorem`, `NonceTheorem`, `PlacesTheorem`, `OutcomeTheorem`, `TypeTheorem` (`FaucetRequestsProofs`) | `PaidOnce`, `StatusTrue`, `SettledIsQuiet`, `NonceHeld`, `PlacesKept`, `OutcomeFinal`, `TypeOK` | `FaucetInv`: per request what object, entry and sends may say (`RequestInv`); of a write under way that it may still land whatever happened since (`MayWrite`); of the pending transfer that it holds the nonce (`PendingInv`, `WireInv`); of the worker that what it is about to do is based on the current entry (`StepInv`, `SettledInv`); of the places that an admission that may still land is counted (`RoomInv`) |
| `EndTheorem`, `SubmissionTheorem`, `TypeTheorem` (`StacksWorkerProofs`) | `WorkerEndTrue`, `SubmissionsAuthorised` | `WorkerInv`: what a session says (`SessionInv`) holds of the ledger *and of every older copy of it*, since being gone (`Gone`) or silent (`Quiet`) lasts; copies are followed by the ledger (`Follows`); a process with a final report submits nothing more (`ProcessInv`); the controller releases only what it saw gone (`ControllerInv`) |
| `AuthorityTheorem`, `AuthorityTypes` (`NetworkProofs`) | `SubmissionsAuthorised` | `AuthorityInv`: a cache that is not held stands for the last answers read (`CacheInv`), which is all there is to authorize a send in an outage; what a pass has read is what was read last (`ReadInv`); the view a submission is bound to was validated live (`OfferInv`, `SendInv`) |
| `NonceTheorem`, `LockTheorem`, `TypeTheorem` (`StackerRoleProofs`) | `NoncesExact`, `LockBounded` | `StackerInv`: a transaction on its way is its stream's pending one (`PoolInv`), so the lock cannot move between the preparation of a holder's transaction and its execution (`LockInv`); a stream forgets it only when it can no longer execute (`NonceInv`) |
| `HealthTypes`, `Samples`, `Operation` (`NetworkProofs`) | `SamplesTrue`, `OperationEarned` | `HealthInv`: every copy of an observation, in a cache or a pass, is one that was made (`ObservedInv`, `SampleInv`); copies are no later than the original and transfers only go up (`TransferInv`); what a pass will publish is earned by what it read and stays so until it is written (`InitializedInv`, `OperationInv`) |
| `FoundationTypes`, `Rest`, `CapturesKept`, `Captures` (`NetworkProofs`) | `RestIsConverged`, `CaptureKept`, `CaptureTrue` of `Network` | `FoundationInv`: the instance of a name is the one on the ledger and goes only for a recorded reason (`LedgerInv`); what a genesis captured stays on the ledger unless it was lost by hand or removed before the root refers to the genesis, and admitted while a gate needs it (`GenesisInv`); of the root that a pass read only what users edit can have changed (`RootInv`), of an instance only that it is going (`InstanceInv`). That nothing at rest is left undone follows from the passes: one that no notification has disturbed since it began has done what it is past (`Done`, `ProgressInv`), so one that ends without a retry has done everything |
| `RuntimeTypes`, `GateDecisions`, `PhasesPublished` (`NetworkProofs`) | `TypeOK` of `NetworkRuntime`, `GateDecisionsEarned`, `PhasesTrue` | `RuntimeInv`: a recorded end is for good and an acknowledgement of the current generation is of the current operation, in the objects and in every copy (`EndFacts`, `AckFacts`); copies are no later than the clock (`StampFacts`); what the fresh reads have confirmed so far was true since the pass began (`EvidenceFacts`), although no two of them are of one moment; what a pass would write fits the root that it read, so that it is earned if the write is accepted (`Fits`, `PassFacts`) |
| `Actors`, `ActorsDrained` (`ControlProofs`) | `ActorEvidence`, `ActorDrainedFirst` | `ActorInv`: evidence is of a process that ended, a count that is current is of what is wanted (`PodInv`); a termination that the status or a pass says is of the Pod that is there or of one before it (`RecordInv`); a copy is as good as its object, or its write will be refused (`CopyInv`); an actor reported at rest, or without its finalizer, has no process and nobody wants one (`DoneInv`); on the way to a scaling the drain has been seen, or an end recorded (`DrainInv`) |
| `ControlProcesses` (`ControlProofs`) | `ProcessesGone` | `ProcessInv`: three reads that are not one snapshot add up, since each one that finds nothing wanted *lasts*: a Deployment at zero stays there, then no ReplicaSet grows, then no Pod starts (`ReadInv`, `Ended`); what the status vouches for is of the generation read, which only grows (`OwnerInv`); counts and evidence are of what is wanted and of what ended (`ClusterInv`) |
| `Counting`, `Overrides` (`ControlProofs`, on `BitcoinSchedulerProofs`) | `ProductionCounted`, `OverrideRetained` | `SchedulerInv`: receipts of a node come in the order of their numbers (`HistoryInv`); the counters and cursors of the record are the size of the sets of receipts that they have accounted, an offer is armed only once the one before it is on the books, and what is not on them yet is the last receipt (`Books`), which is why a lost write or a restart neither loses nor repeats one; an undecided opportunity is the last one (`Conserved`); a request that was activated exists, and one that was admitted shows what became of it (`OutcomeInv`) |
| `ActionOutcomes`, `Reservations` (`ControlProofs`, on `BitcoinActionsProofs`) | `ActionOutcomeTrue`, `ReservationKept` | `ActionsInv`: the armed call is the only one on its way and the one the worker waits for (`SlotInv`), and it asks for what is still to be done (`ArmedInv`), so calls executed are the receipts recorded plus at most that one (`CountInv`); what a request says of the reservation that names it, and what it may still say once no reservation does (`RequestInv`); what the operator read of a reservation is its past, so what is at rest there is at rest now, or the request says all of it (`CopyInv`); the receipts up to the verified block are its line above the fork, whatever grew beside it (`ReplacementInv`), also for a reservation about to be written (`ReserveInv`); a call is under way only while one is left to be made (`BoundInv`) |
| `ControlTypes` (`ControlProofs`) | `TypesOK` of `Control` | the types of the parts, each from its own invariant |
| `WorkerEnd`, `Submissions`, `Nonces`, `Lock`, `Samples`, `Operation` (`NetworkProofs`) | `WorkerEndTrue`, `SubmissionsAuthorised`, `NoncesExact`, `LockBounded`, `SamplesTrue`, `OperationEarned` of `Network` | the invariants of the parts, each under its scene; a step of the network is a step of the part whose scene it is (`WorkerScene` and its like), or leaves that part alone |

Each proof has one lemma per action (or group of actions with the same effect) and, where an action only
touches part of the state, a frame lemma that says once what the rest of the invariant keeps.

What is only model-checked:

- Liveness under fairness and everything about ENABLED: out of the prover's reach.
- `RoleOutcomesJustified`: its first half depends on which cases there are (an edit of the
  amount is a fact of the chain for a stacker that joins later), so it is a property of `Cases`.
- the types of `ContractRole`, hence `TypesOK` of `Network`: not yet proved (section 8).

## 7. What is not modelled

Native clients, key and wire libraries: pure functions or transports. The Bitcoin observer, the
observability operator, command-line tools and charts keep no protocol state. Of the API types,
defaulting, CEL rules and generated deep copies are not modelled, only the records that are exchanged.
Of the modelled components: the wallet mutations are one mutation and the retained wallet removal is left
out; the rendering of workloads, support objects, services, storage and configuration is one fact or
one step; the choice of targets and amounts of traffic, identity jobs, budget and limit checks, and the contents of
definitions are left out. Time is what has passed; durations are never compared with each other.

## 8. Plan

Next proofs: the types of `ContractRole` and its `FailsOnlyByOthers`. `Network` is parameterised and
composes the invariants, so it is one more part.

Next models: the start gates and configuration resolution of participant workloads, and the wallet mutations one by
one.

## 9. Running

    tlc -config worker.cfg MCBitcoinWorker       # likewise every run of PROJECT.json
    tlapm BitcoinWorkerProofs.tla                # likewise every *Proofs module

The longest run (`network`, 1.45 million states) takes under four minutes on two workers.

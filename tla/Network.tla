------------------------------ MODULE Network -------------------------------
(***************************************************************************)
(* The parts of a network side by side: the Stacks worker and its          *)
(* authority, the stacking and contract roles, the projections of the      *)
(* root, the foundation.  They meet only in API objects that each module   *)
(* already lets change on its own, so a behaviour is one of one part (its  *)
(* scene), and the variables of the others rest at 0.                      *)
(***************************************************************************)
EXTENDS Naturals, Sequences, FiniteSets

CONSTANTS
    WorkerPods, WorkerSent, WorkerCases,            \* StacksWorker
    PolicyIds, AuthoritySent, AuthorityCases,       \* StacksAuthority
    LockCycles, Renew, Target4, Target5, Enrolment, \* StackerRole; Enrolment is its Ceiling
    Epoch3, Epoch4, MaxCycle, StackerTx, StackerCases,
    SourceNames, ContractTx, ContractCases,         \* ContractRole
    Ceiling, Cycle, Deadline, RuntimeCases,         \* NetworkRuntime
    Miners, Boundary, Window, HealthCases,          \* NetworkHealth
    Members, Requires, Last, GateCount, MaxUid,     \* Foundation
    Definitions, FoundationCases

VARIABLES scene,
    root, ses, part, pod, w, ctl, agg, used, late, sent, open, budget, source, inputs, grants,
    sup, rt, role, pass, seen, chain, pool, done, had, spec, drain, env, clock, live, srv, cache,
    held, genesis, defs, cdefs, events, queue, uid, hist

Worker == INSTANCE StacksWorkerProofs WITH
    MaxPods <- WorkerPods, MaxSent <- WorkerSent, Budgets <- WorkerCases

Authority == INSTANCE StacksAuthority WITH
    Policies <- PolicyIds, MaxSent <- AuthoritySent, Budgets <- AuthorityCases

Stacker == INSTANCE StackerRoleProofs WITH
    Ceiling <- Enrolment, MaxTx <- StackerTx, Cases <- StackerCases

Contract == INSTANCE ContractRole WITH
    Sources <- SourceNames, MaxTx <- ContractTx, Cases <- ContractCases

Runtime == INSTANCE NetworkRuntime WITH Budgets <- RuntimeCases

Health == INSTANCE NetworkHealth WITH Budgets <- HealthCases

Base == INSTANCE Foundation WITH
    Names <- Members, NGates <- GateCount, Edits <- Definitions, Budgets <- FoundationCases

ASSUME NetworkAssumption == Worker!Bounds /\ Authority!Bounds /\ Stacker!Bounds /\ Health!Bounds
                                /\ Base!Bounds /\ Runtime!Bounds

all == <<scene, root, ses, part, pod, w, ctl, agg, used, late, sent, open,
        budget, source, inputs, grants, sup, rt, role, pass, seen, chain,
        pool, done, had, spec, drain, env, clock, live, srv, cache, held,
        genesis, defs, cdefs, events, queue, uid, hist>>

workerUnused == <<source, inputs, grants, sup, rt, role, pass, seen, chain, pool, done, had, spec,
                  drain, env, clock, live, srv, cache, held, genesis, defs, cdefs, events, queue,
                  uid, hist>>
authorityUnused == <<ses, pod, w, ctl, agg, used, late, open, chain, pool, done, had, spec, drain,
                     env, clock, live, srv, cache, held, genesis, defs, cdefs, events, queue, uid,
                     hist>>
stackerUnused == <<root, ses, part, pod, w, ctl, agg, used, late, sent, open, budget, source,
                   inputs, grants, sup, rt, seen, clock, live, srv, cache, held, genesis, defs,
                   cdefs, events, queue, uid, hist>>
contractUnused == <<root, ses, part, pod, w, ctl, agg, used, late, sent, open, budget, source,
                    inputs, grants, sup, rt, seen, had, clock, live, srv, cache, held, genesis,
                    defs, cdefs, events, queue, uid, hist>>
runtimeUnused == <<ses, part, pod, w, ctl, agg, used, late, sent, open, source, inputs, grants,
                   sup, rt, role, seen, pool, done, had, spec, drain, env, genesis, defs, cdefs,
                   events, queue, uid, hist>>
healthUnused == <<ses, part, pod, w, ctl, agg, used, late, sent, open, source, inputs, grants,
                  sup, rt, role, pool, done, had, spec, drain, env, live, held, genesis, defs,
                  cdefs, events, queue, uid, hist>>
baseUnused == <<ses, pod, w, ctl, agg, used, late, sent, open, source, inputs, grants, sup, rt,
                role, seen, chain, pool, done, had, spec, drain, env, clock, live, srv, cache,
                held>>

WorkerInit ==
    /\ scene = "Worker" /\ Worker!Init
    /\ source = 0 /\ inputs = 0 /\ grants = 0 /\ sup = 0 /\ rt = 0 /\ role = 0 /\ pass = 0
    /\ seen = 0 /\ chain = 0 /\ pool = 0 /\ done = 0 /\ had = 0 /\ spec = 0 /\ drain = 0
    /\ env = 0 /\ clock = 0 /\ live = 0 /\ srv = 0 /\ cache = 0 /\ held = 0 /\ genesis = 0
    /\ defs = 0 /\ cdefs = 0 /\ events = 0 /\ queue = 0 /\ uid = 0 /\ hist = 0

AuthorityInit ==
    /\ scene = "Authority" /\ Authority!Init
    /\ ses = 0 /\ pod = 0 /\ w = 0 /\ ctl = 0 /\ agg = 0 /\ used = 0 /\ late = 0 /\ open = 0
    /\ chain = 0 /\ pool = 0 /\ done = 0 /\ had = 0 /\ spec = 0 /\ drain = 0 /\ env = 0
    /\ clock = 0 /\ live = 0 /\ srv = 0 /\ cache = 0 /\ held = 0 /\ genesis = 0 /\ defs = 0
    /\ cdefs = 0 /\ events = 0 /\ queue = 0 /\ uid = 0 /\ hist = 0

StackerInit ==
    /\ scene = "Stacker" /\ Stacker!Init
    /\ root = 0 /\ ses = 0 /\ part = 0 /\ pod = 0 /\ w = 0 /\ ctl = 0 /\ agg = 0 /\ used = 0
    /\ late = 0 /\ sent = 0 /\ open = 0 /\ budget = 0 /\ source = 0 /\ inputs = 0 /\ grants = 0
    /\ sup = 0 /\ rt = 0 /\ seen = 0 /\ clock = 0 /\ live = 0 /\ srv = 0 /\ cache = 0 /\ held = 0
    /\ genesis = 0 /\ defs = 0 /\ cdefs = 0 /\ events = 0 /\ queue = 0 /\ uid = 0 /\ hist = 0

ContractInit ==
    /\ scene = "Contract" /\ Contract!Init
    /\ root = 0 /\ ses = 0 /\ part = 0 /\ pod = 0 /\ w = 0 /\ ctl = 0 /\ agg = 0 /\ used = 0
    /\ late = 0 /\ sent = 0 /\ open = 0 /\ budget = 0 /\ source = 0 /\ inputs = 0 /\ grants = 0
    /\ sup = 0 /\ rt = 0 /\ seen = 0 /\ had = 0 /\ clock = 0 /\ live = 0 /\ srv = 0 /\ cache = 0
    /\ held = 0 /\ genesis = 0 /\ defs = 0 /\ cdefs = 0 /\ events = 0 /\ queue = 0 /\ uid = 0
    /\ hist = 0

RuntimeInit ==
    /\ scene = "Runtime" /\ Runtime!Init
    /\ ses = 0 /\ part = 0 /\ pod = 0 /\ w = 0 /\ ctl = 0 /\ agg = 0 /\ used = 0 /\ late = 0
    /\ sent = 0 /\ open = 0 /\ source = 0 /\ inputs = 0 /\ grants = 0 /\ sup = 0 /\ rt = 0
    /\ role = 0 /\ seen = 0 /\ pool = 0 /\ done = 0 /\ had = 0 /\ spec = 0 /\ drain = 0
    /\ env = 0 /\ genesis = 0 /\ defs = 0 /\ cdefs = 0 /\ events = 0 /\ queue = 0 /\ uid = 0
    /\ hist = 0

HealthInit ==
    /\ scene = "Health" /\ Health!Init
    /\ ses = 0 /\ part = 0 /\ pod = 0 /\ w = 0 /\ ctl = 0 /\ agg = 0 /\ used = 0 /\ late = 0
    /\ sent = 0 /\ open = 0 /\ source = 0 /\ inputs = 0 /\ grants = 0 /\ sup = 0 /\ rt = 0
    /\ role = 0 /\ pool = 0 /\ done = 0 /\ had = 0 /\ spec = 0 /\ drain = 0 /\ env = 0
    /\ live = 0 /\ held = 0 /\ genesis = 0 /\ defs = 0 /\ cdefs = 0 /\ events = 0 /\ queue = 0
    /\ uid = 0 /\ hist = 0

BaseInit ==
    /\ scene = "Base" /\ Base!Init
    /\ ses = 0 /\ pod = 0 /\ w = 0 /\ ctl = 0 /\ agg = 0 /\ used = 0 /\ late = 0 /\ sent = 0
    /\ open = 0 /\ source = 0 /\ inputs = 0 /\ grants = 0 /\ sup = 0 /\ rt = 0 /\ role = 0
    /\ seen = 0 /\ chain = 0 /\ pool = 0 /\ done = 0 /\ had = 0 /\ spec = 0 /\ drain = 0
    /\ env = 0 /\ clock = 0 /\ live = 0 /\ srv = 0 /\ cache = 0 /\ held = 0

WorkerNext == scene = "Worker" /\ Worker!Next /\ UNCHANGED <<scene, workerUnused>>

AuthorityNext == scene = "Authority" /\ Authority!Next /\ UNCHANGED <<scene, authorityUnused>>

StackerNext == scene = "Stacker" /\ Stacker!Next /\ UNCHANGED <<scene, stackerUnused>>

ContractNext == scene = "Contract" /\ Contract!Next /\ UNCHANGED <<scene, contractUnused>>

RuntimeNext == scene = "Runtime" /\ Runtime!Next /\ UNCHANGED <<scene, runtimeUnused>>

HealthNext == scene = "Health" /\ Health!Next /\ UNCHANGED <<scene, healthUnused>>

BaseNext == scene = "Base" /\ Base!Next /\ UNCHANGED <<scene, baseUnused>>

Init == WorkerInit \/ AuthorityInit \/ StackerInit \/ ContractInit \/ RuntimeInit \/ HealthInit \/ BaseInit

Next == WorkerNext \/ AuthorityNext \/ StackerNext \/ ContractNext \/ RuntimeNext \/
          HealthNext \/ BaseNext

Spec == Init /\ [][Next]_all

-----------------------------------------------------------------------------
\* Every component keeps to its types.
TypesOK ==
    /\ scene = "Worker" => Worker!TypeOK
    /\ scene = "Authority" => Authority!TypeOK
    /\ scene = "Stacker" => Stacker!TypeOK
    /\ scene = "Contract" => Contract!TypeOK
    /\ scene = "Runtime" => Runtime!TypeOK
    /\ scene = "Health" => Health!TypeOK
    /\ scene = "Base" => Base!TypeOK

\* What the ledger records of a worker's end is the truth: a settled session left nothing
\* open and submits nothing more, a terminated one has no process (session.go, runtime.go).
WorkerEndTrue == scene = "Worker" => Worker!WorkerEndTrue

\* A submission is made only by the process of the bound Pod, and under answers none of which,
\* when it was last read, forbade it (runtime.go, outage.go).
SubmissionsAuthorised ==
    /\ scene = "Worker" => Worker!SubmissionsAuthorised
    /\ scene = "Authority" => Authority!SubmissionsAuthorised

\* No nonce of a stacker carries two transactions, each submission is counted once, and a
\* drained role has no transaction that can still execute (nonce.go, pox5.go).
NoncesExact == scene = "Stacker" => Stacker!NoncesExact

\* No transaction, however late it executes, locks the stake for longer than the policy says
\* (pox4.go, pox5.go).
LockBounded == scene = "Stacker" => Stacker!LockBounded

\* A role fails, and reports itself done, only for a fact of the chain (pox4.go, pox5.go,
\* contracts.go).
RoleOutcomesJustified ==
    /\ scene = "Stacker" => Stacker!FailureJustified
    /\ scene = "Contract" => Contract!FailsOnlyByOthers

\* A gate completes, or fails the network, only on evidence that was in the API server since
\* the pass began (gates.go).
GateDecisionsEarned == [][scene = "Runtime" => Runtime!GateDecision]_root

\* Paused and Stopped are published only when everything that has to obey does
\* (networkruntime: bitcoinPaused, workersPaused, Reconcile).
PhasesTrue == [][scene = "Runtime" => Runtime!PhaseDecision]_root

\* A published height sample is an observation its process did make (burnchain.go).
SamplesTrue == scene = "Health" => Health!SamplesTrue

\* Operational and Initialized are published only when they are earned, and Initialized is
\* never taken back (operational.go).
OperationEarned ==
    [][scene = "Health" => Health!OperationalDecision /\ Health!InitializedDecision]_<<root, pass>>

\* A foundation with nothing queued, running or on its way has done what is asked of it
\* (watches.go).
RestIsConverged == scene = "Base" => Base!RestIsConverged

\* A genesis captures what was admitted and defined while it was captured (foundation:
\* reconcileTopology).
CaptureTrue == [][scene = "Base" => Base!CaptureDecision]_genesis

\* A captured policy is kept until its last gate completes, and only a loss by somebody else's
\* hand fails the network (foundation: RecoverGenesis, bootstrapPolicyPending, Fail).
CaptureKept == scene = "Base" => Base!CapturedKept /\ Base!FailureJustified
=============================================================================

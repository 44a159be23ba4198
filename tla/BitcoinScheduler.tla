-------------------------- MODULE BitcoinScheduler --------------------------
(***************************************************************************)
(* The production scheduler of operators/network/internal/bitcoincontrol:  *)
(* the offers it commits to BitcoinInitialization.status and publishes to  *)
(* one execution record, first for the bootstrap gates and then as the     *)
(* weighted baseline, under schedule overrides whose lifecycle a second    *)
(* controller keeps.                                                       *)
(*                                                                         *)
(* Time is what has passed: an opportunity is due, an offer, an activation *)
(* or a pending request has expired, an observation is no longer fresh.    *)
(* The worker that sends an offer is BitcoinWorker; here it is two steps.  *)
(* A reconciliation reads the root, then the rest of its inputs with the   *)
(* write that ends it: the scheduler is the only writer of its record, and *)
(* a write to an execution record carries the version that was read.       *)
(* Phases and reasons that are only reported are left out.                 *)
(***************************************************************************)
EXTENDS Naturals, Sequences, FiniteSets

CONSTANTS Nodes,       \* Bitcoin nodes of the frozen cohort
          Target,      \* the node of the bootstrap
          Requests,    \* schedule overrides, positive numbers in order of creation
          Ceilings,    \* BitcoinCeiling of each bootstrap gate
          Mature,      \* MatureOutputsPerMiner of the one miner wallet
          BatchLimit,  \* batchLimit of the frozen initialization
          None,        \* a nil pointer
          MaxOffer,    \* bound: offers ever committed
          MaxHeight,   \* bound: height of the chain
          Budgets      \* what may happen: one of these in each behaviour

Kinds == {"Pause", "Stop", "Policy", "Producer", "Delete", "Unready", "Crash", "Age"}

Bounds ==
    /\ Target \in Nodes /\ IsFiniteSet(Nodes) /\ Requests \subseteq Nat \ {0}
    /\ Ceilings \in Seq(Nat) /\ Ceilings # <<>>
    /\ {Mature, BatchLimit, MaxOffer, MaxHeight} \subseteq Nat /\ BatchLimit # 0
    /\ Budgets \subseteq [Kinds -> Nat]

MinimumHeight == Ceilings[1]

VARIABLES
    root,     \* the StacksNetwork: operation, gate, producer and its admitted policy
    initial,  \* BitcoinInitialization.status
    exec,     \* BitcoinExecution of each node
    obs,      \* its observation: height, mature outputs, fresh, later than the last receipt
    height,   \* height of the chain
    req,      \* the override requests
    timed,    \* time that has passed: offers, activations and pending requests expired
    op,       \* the scheduler's reconciliation: the root it read
    life,     \* the override controller's: the request and the activation it read
    done,     \* history: offers whose receipt was written, by node
    active,   \* history: how often each request was activated
    budget

vars == <<root, initial, exec, obs, height, req, timed, op, life, done, active, budget>>

-----------------------------------------------------------------------------
(* State *)

Offer == [number : 1..MaxOffer, mode : {"Bootstrap", "Baseline"}, target : Nodes,
          height : Nat, blocks : 1..BatchLimit, ceiling : Nat \cup {None},
          wallet : {"miner", "payout"}, override : Requests \cup {0}, producer : Nat]

\* BitcoinActiveOverride
Activation == [request : Requests, producer : Nat]

\* BitcoinBaselineStatus with the counters of BitcoinSchedulingStatus; cursor is Receipts.
Baseline == [sequence : Nat, stage : {"", "Selected", "Offered", "Assigned", "Skipped", "Unassigned"},
             target : Nodes \cup {None}, policy : Nat, override : Requests \cup {0},
             opportunities : Nat, assigned : Nat, skipped : Nat, unassigned : Nat,
             acknowledged : Nat, cursor : [Nodes -> Nat]]

Initial == [next : {"none", "wait", "due"}, offer : Offer \cup {None}, accounted : Nat,
            funded : Nat, prepared : BOOLEAN, ceilingSeen : {"no", "seen", "late"},
            producer : Nat, override : Activation \cup {None}, baseline : Baseline \cup {None}]

\* A nil pointer is none of the records it may stand for.
Nil == None \notin Offer \cup Activation \cup Baseline

Execution == [offer : Offer \cup {None}, armed : Offer \cup {None},
              last : Offer \cup {None}, completed : Nat]

Observation == [height : Nat, mature : Nat, fresh : BOOLEAN, later : BOOLEAN]

\* adm: status.admission, which pins the activation; source: its schedule resolves as admitted
Request == [state : {"absent", "live", "deleting", "gone"}, fin : BOOLEAN, adm : BOOLEAN,
            source : BOOLEAN,
            phase : {"", "Pending", "Active", "Completed", "Expired", "Cancelled"}]

Root == [mode : {"Running", "Paused", "Stopped", "Failed"}, gate : 1..Len(Ceilings) + 1,
         producer : Nat, policy : Nat, ready : BOOLEAN]

Idle == [pc |-> "idle", root |-> None]
NoLife == [pc |-> "idle", req |-> 0, copy |-> None, active |-> FALSE]

NoRequest == [state |-> "absent", fin |-> FALSE, adm |-> FALSE, source |-> TRUE, phase |-> ""]

\* The values every variable may take.
TypeOK ==
    /\ root \in Root /\ initial \in Initial /\ exec \in [Nodes -> Execution]
    /\ obs \in [Nodes -> Observation \cup {None}] /\ height \in 0..MaxHeight
    /\ req \in [Requests -> Request]
    /\ timed \in [offers : SUBSET (1..MaxOffer), ended : SUBSET Requests, overdue : SUBSET Requests]
    /\ op.pc \in {"idle", "decide"} /\ op.root \in Root \cup {None}
    /\ life.pc \in {"idle", "initial", "status", "finalizer"} /\ life.copy \in Request \cup {None}
    /\ done \in [Nodes -> SUBSET Offer] /\ active \in [Requests -> Nat]
    /\ budget \in [Kinds -> Nat]

Init ==
    /\ root = [mode |-> "Running", gate |-> 1, producer |-> 1, policy |-> 1, ready |-> TRUE]
    /\ initial = [next |-> "none", offer |-> None, accounted |-> 0, funded |-> 0,
                  prepared |-> FALSE, ceilingSeen |-> "no", producer |-> 1, override |-> None,
                  baseline |-> None]
    /\ exec = [n \in Nodes |-> [offer |-> None, armed |-> None, last |-> None, completed |-> 0]]
    /\ obs = [n \in Nodes |-> None]
    /\ height = 0
    /\ req = [r \in Requests |-> NoRequest]
    /\ timed = [offers |-> {}, ended |-> {}, overdue |-> {}]
    /\ op = Idle /\ life = NoLife
    /\ done = [n \in Nodes |-> {}] /\ active = [r \in Requests |-> 0]
    /\ budget \in Budgets

-----------------------------------------------------------------------------
(* Receipts *)

offerBlocks(offer) == offer.blocks

offerCountAuthorized(offer) ==
    /\ offer.ceiling # None => offer.height + offerBlocks(offer) <= offer.ceiling
    /\ \/ offerBlocks(offer) = 1
       \/ /\ offer.mode = "Bootstrap" /\ offer.ceiling = MinimumHeight
          /\ offerBlocks(offer) <= BatchLimit

\* accountBootstrapReceipt: the funding counter and the cursor move together.
bootstrapReceipt(i, offer) ==
    /\ offer # None /\ offer.mode = "Bootstrap" /\ offer.number > i.accounted
    /\ offer.number = exec[Target].completed
    /\ offerCountAuthorized(offer)

accountBootstrapReceipt(i) ==
    LET offer == exec[Target].last IN
    IF ~bootstrapReceipt(i, offer) THEN i
    ELSE [i EXCEPT !.accounted = offer.number,
                   !.funded = @ + IF offer.wallet = "miner" /\ offer.height < MinimumHeight
                                  THEN offerBlocks(offer) ELSE 0]

generationAccounted(i, n) ==
    LET offer == exec[n].last IN
    offer # None =>
      IF offer.mode = "Bootstrap" THEN i.accounted >= exec[n].completed
      ELSE i.baseline # None /\ i.baseline.cursor[n] >= exec[n].completed

\* The execution record of a node shows that the committed offer was published.
published(i, n) ==
    /\ i.baseline.stage = "Offered" /\ i.offer # None
    /\ i.offer.target = n /\ exec[n].offer = i.offer

baselineReceipt(b, n) ==
    LET offer == exec[n].last IN
    /\ offer # None /\ offer.mode = "Baseline" /\ offer.number <= b.sequence
    /\ offer.number = exec[n].completed /\ offer.number > b.cursor[n]

\* accountBaselineReceipts over the nodes whose cached record is current: another copy is
\* older and holds nothing that was not accounted before.
accountBaselineReceipts(i, current) ==
    LET boot == IF Target \in current THEN accountBootstrapReceipt(i) ELSE i
        seq  == IF boot.accounted > boot.baseline.sequence THEN boot.accounted
                ELSE boot.baseline.sequence
        b    == [boot.baseline EXCEPT !.sequence = seq]
        got  == {n \in current : baselineReceipt(b, n)}
        pub  == \E n \in current : published(i, n)
    IN  [boot EXCEPT !.baseline =
           [b EXCEPT !.stage = IF pub THEN "Assigned" ELSE @,
                     !.assigned = @ + IF pub THEN 1 ELSE 0,
                     !.acknowledged = @ + Cardinality(got),
                     !.cursor = [n \in Nodes |-> IF n \in got THEN exec[n].last.number ELSE @[n]]]]

\* Faulty variant: the stage survives the withdrawal, so it is counted again.
withdrawBaselineTwice(i) ==
    [i EXCEPT !.next = "none", !.offer = None,
              !.baseline.unassigned = @ + IF i.baseline.stage \in {"Selected", "Offered"} THEN 1 ELSE 0]

withdrawBaseline(i) ==
    LET undecided == i.baseline.stage \in {"Selected", "Offered"} IN
    [i EXCEPT !.next = "none", !.offer = None,
              !.baseline.unassigned = @ + IF undecided THEN 1 ELSE 0,
              !.baseline.stage = IF undecided THEN "Unassigned" ELSE @]

withdrawTiming(i) ==
    IF i.baseline = None THEN [i EXCEPT !.next = "none", !.offer = None]
    ELSE withdrawBaseline(i)

-----------------------------------------------------------------------------
(* Scheduler.Reconcile *)

\* report: the record is written when it differs, and the reconciliation ends.
Report(i) == initial' = i /\ op' = Idle

quiet == <<root, exec, obs, height, req, timed, life, done, active, budget>>

ReadRoot ==
    /\ op.pc = "idle"
    /\ op' = [pc |-> "decide", root |-> root]
    /\ UNCHANGED <<quiet, initial>>

\* currentProduction: the producer of the root that was read is still the one admitted.
currentProduction == op.root.producer # 0 /\ op.root.producer = root.producer

stopped == op.root.mode \in {"Stopped", "Failed"}

overrideTerminal(phase) == phase \in {"Completed", "Expired", "Cancelled"}

exists(r) == req[r].state \in {"live", "deleting"}

\* The activation may still time the production.
overrideValid ==
    LET r == initial.override.request IN
    /\ req[r].state = "live" /\ ~overrideTerminal(req[r].phase)
    /\ ~stopped /\ currentProduction /\ op.root.producer = initial.override.producer
    /\ r \notin timed.ended /\ req[r].source

\* Its request has not yet retained the activation, or the outcome of one that expired.
outcomePending ==
    LET r == initial.override.request IN
    exists(r) /\ (~req[r].adm \/ (r \in timed.ended /\ ~overrideTerminal(req[r].phase)))

AwaitOutcome ==
    /\ op.pc = "decide" /\ initial.override # None /\ ~overrideValid /\ outcomePending
    /\ op' = Idle
    /\ UNCHANGED <<quiet, initial>>

\* Faulty variant: the activation goes as soon as it is not valid.
WithdrawAtOnce ==
    /\ op.pc = "decide" /\ initial.override # None /\ ~overrideValid
    /\ Report([withdrawTiming(initial) EXCEPT !.override = None])
    /\ UNCHANGED quiet

WithdrawOverride ==
    /\ op.pc = "decide" /\ initial.override # None /\ ~overrideValid /\ ~outcomePending
    /\ Report([withdrawTiming(initial) EXCEPT !.override = None])
    /\ UNCHANGED quiet

\* Requests that may be activated; the oldest one is.
candidates == {r \in Requests : /\ req[r].state = "live" /\ req[r].fin /\ ~req[r].adm
                                /\ ~overrideTerminal(req[r].phase) /\ r \notin timed.overdue
                                /\ req[r].source}

activatable == initial.override = None /\ ~stopped /\ currentProduction /\ candidates # {}

ActivateOverride ==
    LET r == CHOOSE r \in candidates : \A q \in candidates : r <= q IN
    /\ op.pc = "decide" /\ activatable
    /\ Report([withdrawTiming(initial) EXCEPT
                 !.override = [request |-> r, producer |-> op.root.producer]])
    /\ active' = [active EXCEPT ![r] = @ + 1]
    /\ UNCHANGED <<root, exec, obs, height, req, timed, life, done, budget>>

\* reconcileOverride left the record alone.
timingSettled == IF initial.override = None THEN ~activatable ELSE overrideValid

overrideBinding == IF initial.override = None THEN 0 ELSE initial.override.request

-----------------------------------------------------------------------------
(* Bootstrap gates *)

gated == op.root.gate <= Len(Ceilings)
ceiling == Ceilings[op.root.gate]

\* currentGate: past the first gate the preparation must be on record.
currentGate == op.root.gate > 1 => initial.prepared

\* A record in which the first observation of the ceiling or the funding deadline counts.
observedCeiling(i) ==
    IF i.ceilingSeen = "no" /\ obs[Target].height >= MinimumHeight
    THEN [i EXCEPT !.ceilingSeen = "seen"] ELSE i

observed(n) == obs[n] # None /\ obs[n].fresh

\* No RPC is outstanding and every node reports the same chain.
allObserved ==
    /\ \A n \in Nodes : exec[n].armed = None /\ observed(n)
    /\ \A n \in Nodes : obs[n].height = obs[Target].height

\* bootstrapBatch: the limit, the outputs still needed or the blocks left, whichever is least.
bootstrapBatch(h, remaining) ==
    LET least == CHOOSE b \in 1..BatchLimit :
                   /\ b <= ceiling - h /\ (remaining > 0 => b <= remaining)
                   /\ \A c \in 1..BatchLimit :
                        c <= ceiling - h /\ (remaining > 0 => c <= remaining) => c <= b
    IN IF op.root.gate = 1 THEN least ELSE 1

Highest(S) == CHOOSE x \in S : \A y \in S : y <= x

numbers(i) == {i.accounted, exec[Target].completed}
              \cup {o.number : o \in {i.offer, exec[Target].offer} \ {None}}

\* The next offer: miner outputs first, then the payout wallet, at the height observed.
bootstrapOffer(i, h) ==
    LET remaining == IF i.prepared \/ i.funded >= Mature THEN 0 ELSE Mature - i.funded IN
    [number |-> Highest(numbers(i)) + 1, mode |-> "Bootstrap", target |-> Target, height |-> h,
     blocks |-> bootstrapBatch(h, remaining), ceiling |-> ceiling,
     wallet |-> IF remaining > 0 THEN "miner" ELSE "payout",
     override |-> overrideBinding, producer |-> op.root.producer]

\* The committed offer still fits what is observed.
offerStands(i, h) ==
    /\ i.offer # None /\ i.offer.number > i.accounted /\ i.offer.number \notin timed.offers
    /\ i.offer.height = h /\ i.offer.producer = op.root.producer

\* The observation is the one the last receipt was sent under.
awaitingObservation(i, h) ==
    LET last == exec[Target].last IN
    /\ last # None /\ last.number = i.accounted /\ last.height = h
    /\ ~obs[Target].later

bound(i) == IF i.producer = op.root.producer THEN i
            ELSE [i EXCEPT !.producer = op.root.producer, !.next = "none"]

Keep(i) == [record |-> i, publish |-> FALSE]

\* What Reconcile makes of the record below the end of the last gate, and whether it
\* publishes the offer that stands.  A step that only reports leaves the record.
\* ready: advancementReady, what the captured Stacks actors report past the first gate.
bootstrapped(ready) ==
    LET i0 == bound(initial)
        i1 == accountBootstrapReceipt(i0)
        i2 == IF exec[Target].armed = None /\ observed(Target) THEN observedCeiling(i1) ELSE i1
        h  == obs[Target].height
        enough == \E n \in Nodes : obs[n].mature >= Mature
    IN IF op.root.mode = "Failed" THEN Keep(initial)
       ELSE IF stopped \/ (~initial.prepared /\ initial.ceilingSeen = "late")
            THEN Keep([initial EXCEPT !.next = "none"])
       ELSE IF ~currentGate \/ ~currentProduction THEN Keep(initial)
       ELSE IF op.root.mode = "Paused" THEN Keep([i0 EXCEPT !.next = "none"])
       ELSE IF ~allObserved \/ h > ceiling THEN Keep(i2)
       ELSE IF op.root.gate = 1 /\ h >= MinimumHeight
            THEN Keep([i2 EXCEPT !.next = "none", !.prepared = @ \/ enough])
       ELSE IF i2.prepared /\ h < MinimumHeight THEN Keep(i2)
       ELSE IF h >= ceiling THEN Keep([i2 EXCEPT !.next = "none"])
       ELSE IF ~root.ready THEN Keep([i2 EXCEPT !.next = "none", !.offer = None])
       ELSE IF (op.root.gate > 1 /\ ~ready) \/ awaitingObservation(i2, h) THEN Keep(i2)
       ELSE IF offerStands(i2, h)
            THEN [record |-> i2, publish |-> exec[Target].offer # i2.offer]
       ELSE IF i2.next = "wait" THEN Keep(i2)
       ELSE IF i2.next = "none" THEN Keep([i2 EXCEPT !.next = "wait"])
       ELSE Keep([i2 EXCEPT !.next = "wait", !.offer = bootstrapOffer(i2, h)])

Bootstrap(ready) ==
    LET out == bootstrapped(ready) IN
    /\ op.pc = "decide" /\ gated /\ timingSettled
    /\ out.record.offer # None => out.record.offer.number <= MaxOffer
    /\ Report(out.record)
    /\ exec' = IF out.publish THEN [exec EXCEPT ![Target].offer = out.record.offer] ELSE exec
    /\ UNCHANGED <<root, obs, height, req, timed, life, done, active, budget>>

-----------------------------------------------------------------------------
(* Baseline *)

\* The first reconciliation after the gates starts from the numbers of the bootstrap.
baselined(i) ==
    IF i.baseline # None THEN i
    ELSE [i EXCEPT !.next = "none", !.offer = None,
                   !.baseline = [sequence |-> Highest({i.accounted} \cup
                                    {o.number : o \in {i.offer} \ {None}}),
                                 stage |-> "", target |-> None, policy |-> 0, override |-> 0,
                                 opportunities |-> 0, assigned |-> 0, skipped |-> 0,
                                 unassigned |-> 0, acknowledged |-> 0,
                                 cursor |-> [n \in Nodes |-> 0]]]

\* observeBaselineTarget: ready, idle, accounted and observed.
targetReady(i, n) ==
    /\ root.ready /\ exec[n].armed = None /\ generationAccounted(i, n) /\ observed(n)

\* Policy and timing as they are now replace the ones the baseline was decided under.
adopted(i) ==
    [withdrawBaseline(i) EXCEPT
       !.baseline.policy = root.policy, !.baseline.override = overrideBinding,
       !.baseline.target = None, !.baseline.stage = "", !.producer = op.root.producer]

baselineOffer(i) ==
    [number |-> i.baseline.sequence, mode |-> "Baseline", target |-> i.baseline.target,
     height |-> obs[i.baseline.target].height, blocks |-> 1, ceiling |-> None,
     wallet |-> "payout", override |-> overrideBinding, producer |-> op.root.producer]

expiredBeforeAssignment(i) ==
    [i EXCEPT !.offer = None, !.baseline.unassigned = @ + 1, !.baseline.stage = "Unassigned"]

skippedTarget(i) ==
    [i EXCEPT !.offer = None, !.baseline.skipped = @ + 1, !.baseline.stage = "Skipped"]

assignedOffer(i) == [i EXCEPT !.baseline.assigned = @ + 1, !.baseline.stage = "Assigned"]

\* selectBaselineTarget: a draw by weight alone, whatever the state of the nodes.
selectBaselineTarget(i, n) ==
    [i EXCEPT !.next = "wait", !.offer = None,
              !.baseline.sequence = @ + 1, !.baseline.opportunities = @ + 1,
              !.baseline.target = n, !.baseline.stage = "Selected"]

\* baselineCompleted and baselineInputs: the recorded completion, the producer's admission and
\* its targets resolve (available), under the producer that was read.
baselineInputs(available) == available /\ currentProduction

\* reconcileBaseline, with the draw n and the nodes whose cached records are current.
baselineStep(n, current, inputs) ==
    LET i == accountBaselineReceipts(baselined(initial), current)
        b == i.baseline
    IN IF stopped \/ ~baselineInputs(inputs) THEN Keep(withdrawBaseline(i))
       ELSE IF b.policy # root.policy \/ b.override # overrideBinding THEN Keep(adopted(i))
       ELSE IF op.root.mode = "Paused" THEN Keep(withdrawBaseline(i))
       ELSE IF i.next = "none" THEN Keep([i EXCEPT !.next = "wait"])
       ELSE IF b.stage \in {"Selected", "Offered"}
            THEN IF i.next = "due" THEN Keep(expiredBeforeAssignment(i))
                 ELSE IF b.target \notin current \/ ~targetReady(i, b.target)
                      THEN Keep(skippedTarget(i))
                 ELSE IF b.stage = "Selected"
                      THEN Keep([i EXCEPT !.offer = baselineOffer(i), !.baseline.stage = "Offered"])
                 ELSE IF i.offer = None \/ i.offer.number # b.sequence THEN Keep(i)
                 ELSE [record |-> assignedOffer(i), publish |-> exec[b.target].offer # i.offer]
       ELSE IF i.next = "wait" THEN Keep(i)
       ELSE Keep(selectBaselineTarget(i, n))

BaselineStep(n, current, inputs) ==
    LET out == baselineStep(n, current, inputs) IN
    /\ op.pc = "decide" /\ ~gated /\ timingSettled
    /\ out.record.baseline.sequence <= MaxOffer
    /\ Report(out.record)
    /\ exec' = IF out.publish THEN [exec EXCEPT ![out.record.offer.target].offer = out.record.offer]
               ELSE exec
    /\ UNCHANGED <<root, obs, height, req, timed, life, done, active, budget>>

Take(k) == budget[k] > 0 /\ budget' = [budget EXCEPT ![k] = @ - 1]

\* The execution record was written and the report of it was lost.
PublishUnreported ==
    /\ op.pc = "decide" /\ timingSettled /\ Take("Crash")
    /\ \E out \in IF gated THEN {bootstrapped(TRUE)}
                  ELSE {baselineStep(Target, Nodes, TRUE)} :
         /\ out.publish
         /\ exec' = [exec EXCEPT ![out.record.offer.target].offer = out.record.offer]
    /\ op' = Idle
    /\ UNCHANGED <<root, initial, obs, height, req, timed, life, done, active>>

\* A failed call or a restart before anything was written.
Abort ==
    /\ op.pc = "decide" /\ op' = Idle
    /\ UNCHANGED <<quiet, initial>>

Scheduler ==
    \/ ReadRoot \/ AwaitOutcome \/ WithdrawOverride \/ ActivateOverride
    \/ (\E ready \in BOOLEAN : Bootstrap(ready))
    \/ (\E n \in Nodes, current \in SUBSET Nodes, inputs \in BOOLEAN : BaselineStep(n, current, inputs))
    \/ PublishUnreported \/ Abort

-----------------------------------------------------------------------------
(* OverrideReconciler.Reconcile *)

others == <<root, initial, exec, obs, height, timed, op, done, active, budget>>

ReadRequest(r) ==
    /\ life.pc = "idle" /\ exists(r)
    /\ life' = [NoLife EXCEPT !.pc = "initial", !.req = r, !.copy = req[r]]
    /\ UNCHANGED <<others, req>>

ReadInitial ==
    /\ life.pc = "initial"
    /\ life' = [life EXCEPT !.pc = "status",
                            !.active = /\ initial.override # None
                                       /\ initial.override.request = life.req]
    /\ UNCHANGED <<others, req>>

\* The phase of a request, from the activation that was read and the time it is now.
overridePhase ==
    LET c == life.copy IN
    IF life.active
    THEN IF c.state = "deleting" THEN "Cancelled"
         ELSE IF life.req \in timed.ended THEN "Completed" ELSE "Active"
    ELSE IF overrideTerminal(c.phase) THEN c.phase
    ELSE IF c.adm \/ c.state = "deleting" THEN "Cancelled"
    ELSE IF life.req \in timed.overdue THEN "Expired" ELSE "Pending"

\* applyStatus carries the version that was read.
ApplyStatus ==
    /\ life.pc = "status" /\ req[life.req] = life.copy
    /\ req' = [req EXCEPT ![life.req].phase = overridePhase,
                          ![life.req].adm = @ \/ life.active]
    /\ life' = [life EXCEPT !.pc = "finalizer", !.copy = req'[life.req]]
    /\ UNCHANGED others

\* The finalizer goes with a terminal request that is not active, and comes with any other.
SetFinalizer ==
    /\ life.pc = "finalizer" /\ req[life.req] = life.copy
    /\ LET closed == ~life.active /\ overrideTerminal(life.copy.phase) IN
       req' = [req EXCEPT ![life.req] =
                 IF closed THEN [life.copy EXCEPT !.fin = FALSE,
                                   !.state = IF @ = "deleting" THEN "gone" ELSE @]
                 ELSE [life.copy EXCEPT !.fin = @ \/ life.copy.state = "live"]]
    /\ life' = NoLife
    /\ UNCHANGED others

\* A conflict, a failed call or a restart.
AbortLife ==
    /\ life.pc # "idle" /\ life' = NoLife
    /\ UNCHANGED <<others, req>>

OverrideController ==
    \/ (\E r \in Requests : ReadRequest(r)) \/ ReadInitial \/ ApplyStatus \/ SetFinalizer
    \/ AbortLife

-----------------------------------------------------------------------------
(* The workers, as BitcoinWorker describes them, users and time *)

\* authorizeTimingOverride
timingAuthorized(offer) ==
    IF initial.override = None THEN offer.override = 0
    ELSE LET r == initial.override.request IN
         /\ offer.override = r /\ offer.producer = initial.override.producer
         /\ r \notin timed.ended /\ req[r].state = "live" /\ req[r].fin
         /\ ~overrideTerminal(req[r].phase) /\ req[r].source

\* authorizeOffer and baselineOfferMatches
offerAuthorized(n, offer) ==
    /\ offer = initial.offer /\ offer.number \notin timed.offers /\ offerCountAuthorized(offer)
    /\ root.mode = "Running" /\ root.ready /\ timingAuthorized(offer)
    /\ offer.producer = root.producer /\ offer.producer = initial.producer
    /\ \/ /\ offer.mode = "Baseline" /\ root.gate > Len(Ceilings) /\ initial.baseline # None
          /\ initial.baseline.policy = root.policy /\ initial.baseline.target = n
          /\ initial.baseline.sequence = offer.number
          /\ initial.baseline.stage \in {"Offered", "Assigned"}
       \/ /\ offer.mode = "Bootstrap" /\ n = Target /\ root.gate <= Len(Ceilings)
          /\ offer.ceiling = Ceilings[root.gate] /\ (root.gate > 1 => initial.prepared)

fixed == <<root, initial, req, timed, op, life, active>>

Arm(n) ==
    LET offer == exec[n].offer IN
    /\ exec[n].armed = None /\ offer # None /\ offer.number > exec[n].completed
    /\ generationAccounted(initial, n) /\ offerAuthorized(n, offer)
    /\ height = offer.height /\ height + offer.blocks <= MaxHeight
    /\ exec' = [exec EXCEPT ![n].armed = offer]
    /\ UNCHANGED <<fixed, obs, height, done, budget>>

Receipt(n) ==
    LET offer == exec[n].armed IN
    /\ offer # None
    /\ exec' = [exec EXCEPT ![n].armed = None, ![n].last = offer, ![n].completed = offer.number]
    /\ height' = IF height + offer.blocks <= MaxHeight THEN height + offer.blocks ELSE height
    /\ obs' = [obs EXCEPT ![n] = IF @ = None THEN @ ELSE [@ EXCEPT !.later = FALSE]]
    /\ done' = [done EXCEPT ![n] = @ \cup {offer}]
    /\ UNCHANGED <<fixed, budget>>

MinerBlocks == LET S == {o \in done[Target] : o.wallet = "miner"} IN
    Cardinality(UNION {{<<o.number, k>> : k \in 1..o.blocks} : o \in S})

\* An observation reports the chain and the outputs of the miner wallet that matured.
Observe(n) ==
    /\ exec[n].armed = None
    /\ \E m \in {0, MinerBlocks} :
         obs' = [obs EXCEPT ![n] = [height |-> height, mature |-> m, fresh |-> TRUE, later |-> TRUE]]
    /\ UNCHANGED <<fixed, exec, height, done, budget>>

state == <<exec, height, op, life, done, active>>

Due ==
    /\ initial.next = "wait" /\ initial' = [initial EXCEPT !.next = "due"]
    /\ UNCHANGED <<state, root, obs, req, timed, budget>>

CeilingDeadline ==
    /\ initial.ceilingSeen = "seen" /\ ~initial.prepared /\ Take("Age")
    /\ initial' = [initial EXCEPT !.ceilingSeen = "late"]
    /\ UNCHANGED <<state, root, obs, req, timed>>

Expire ==
    /\ \/ \E k \in 1..MaxOffer : timed' = [timed EXCEPT !.offers = @ \cup {k}] /\ Take("Age")
       \/ \E r \in Requests :
            /\ initial.override # None /\ initial.override.request = r
            /\ timed' = [timed EXCEPT !.ended = @ \cup {r}] /\ UNCHANGED budget
       \/ \E r \in Requests : /\ exists(r) /\ timed' = [timed EXCEPT !.overdue = @ \cup {r}]
                              /\ UNCHANGED budget
    /\ UNCHANGED <<state, root, obs, req, initial>>

GrowOld(n) ==
    /\ observed(n) /\ Take("Age")
    /\ obs' = [obs EXCEPT ![n].fresh = FALSE]
    /\ UNCHANGED <<state, root, req, initial, timed>>

CreateOverride(r) ==
    /\ req[r].state = "absent"
    /\ req' = [req EXCEPT ![r] = [NoRequest EXCEPT !.state = "live"]]
    /\ UNCHANGED <<state, root, obs, initial, timed, budget>>

DeleteOverride(r) ==
    /\ req[r].state = "live" /\ Take("Delete")
    /\ req' = [req EXCEPT ![r].state = IF req[r].fin THEN "deleting" ELSE "gone"]
    /\ UNCHANGED <<state, root, obs, initial, timed>>

\* The BitcoinBlockSchedule the request names is edited.
EditSchedule(r) ==
    /\ req[r].state = "live" /\ req[r].source /\ Take("Policy")
    /\ req' = [req EXCEPT ![r].source = FALSE]
    /\ UNCHANGED <<state, root, obs, initial, timed>>

\* The gates open when the network runtime has seen the ceiling, and close for ever.
AdvanceGate ==
    /\ root.gate <= Len(Ceilings) /\ height >= Ceilings[root.gate] /\ initial.prepared
    /\ root' = [root EXCEPT !.gate = @ + 1]
    /\ UNCHANGED <<state, obs, initial, req, timed, budget>>

EditRoot ==
    /\ \/ Take("Pause") /\ root.mode = "Running" /\ root' = [root EXCEPT !.mode = "Paused"]
       \/ root.mode = "Paused" /\ UNCHANGED budget /\ root' = [root EXCEPT !.mode = "Running"]
       \/ \E m \in {"Stopped", "Failed"} : Take("Stop") /\ root' = [root EXCEPT !.mode = m]
       \/ Take("Policy") /\ root' = [root EXCEPT !.policy = @ + 1]
       \/ Take("Producer") /\ root' = [root EXCEPT !.producer = IF @ = 0 THEN 2 ELSE 0,
                                                   !.policy = @ + 1]
       \/ Take("Unready") /\ root' = [root EXCEPT !.ready = ~@]
    /\ UNCHANGED <<state, obs, initial, req, timed>>

Next ==
    \/ Scheduler \/ OverrideController
    \/ \E n \in Nodes : Arm(n) \/ Receipt(n) \/ Observe(n) \/ GrowOld(n)
    \/ Due \/ CeilingDeadline \/ Expire \/ AdvanceGate \/ EditRoot
    \/ \E r \in Requests : CreateOverride(r) \/ DeleteOverride(r) \/ EditSchedule(r)

Spec == Init /\ [][Next]_vars

-----------------------------------------------------------------------------
(* Properties *)

\* Every opportunity of the baseline is assigned, skipped or left unassigned exactly once,
\* whatever was lost between the execution record and the scheduler's own.
OpportunitiesConserved ==
    initial.baseline # None =>
      LET b == initial.baseline IN
      b.opportunities = b.assigned + b.skipped + b.unassigned
                        + IF b.stage \in {"Selected", "Offered"} THEN 1 ELSE 0

\* The counters are exact: every receipt is counted once, in blocks for the funding of the
\* miner wallet, and a receipt is replaced by the next one only after it was counted.
ReceiptsCountedOnce ==
    LET counted(n) == IF initial.baseline = None THEN 0 ELSE initial.baseline.cursor[n]
        base(n) == {o \in done[n] : o.mode = "Baseline"}
        boot == {o \in done[Target] : o.mode = "Bootstrap"}
        paid == {o \in boot : o.number <= initial.accounted /\ o.wallet = "miner"
                              /\ o.height < MinimumHeight}
    IN  /\ initial.funded = Cardinality(UNION {{<<o.number, k>> : k \in 1..o.blocks} : o \in paid})
        /\ initial.baseline # None =>
             initial.baseline.acknowledged =
               Cardinality(UNION {{<<n, o.number>> : o \in {x \in base(n) : x.number <= counted(n)}}
                                  : n \in Nodes})
        /\ \A n \in Nodes : \A o \in base(n) : o.number > counted(n) => o = exec[n].last
        /\ \A o \in boot : o.number > initial.accounted => o = exec[Target].last

\* An override is activated once.  When its activation is withdrawn, a request that still
\* exists has retained it, so that it ends as completed or cancelled and never as one that
\* waited in vain.
OverrideOutcomeRetained ==
    \A r \in Requests :
      /\ active[r] <= 1
      /\ active[r] = 1 /\ exists(r) /\ (initial.override = None \/ initial.override.request # r) =>
           req[r].adm /\ req[r].phase \notin {"", "Pending", "Expired"}
=============================================================================

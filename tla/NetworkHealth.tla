---------------------------- MODULE NetworkHealth ----------------------------
(***************************************************************************)
(* What the root reports of a network whose gates have completed           *)
(* (operators/network/internal/networkruntime, operational.go and          *)
(* burnchain.go): the historical condition Initialized, the assessment     *)
(* Operational of the required baseline, and the two height samples.       *)
(*                                                                         *)
(* A pass reads the root from the API server, the participants and the     *)
(* Bitcoin execution from two informers that lag, and the retained         *)
(* override from the API server again; it publishes the status under the   *)
(* resourceVersion it read.                                                *)
(***************************************************************************)
EXTENDS Naturals, Sequences

CONSTANTS Miners,   \* the mining Stacks nodes, by participant UID
          Boundary, \* the height beyond the last ceiling
          Window,   \* the progress window, in freshness windows
          Budgets   \* what may happen: one of these in each behaviour

Kinds == {"Pause", "Control", "Suspend", "Stop", "Fail", "Override", "Rebind", "Unready",
          "Diverge", "Block", "Transfer", "Report", "Tick", "Started"}

\* At least one miner; the last ceiling is a height.
Bounds ==
    /\ Miners \subseteq Nat \ {0} /\ Miners # {}
    /\ Boundary \in Nat \ {0} /\ Window \in Nat
    /\ \A b \in Budgets : b \in [Kinds -> Nat]

VARIABLES
    clock,  \* wall-clock time, in freshness windows
    chain,  \* height of the burnchain
    root,   \* the StacksNetwork in the API server
    srv,    \* the participants, the execution and the retained override in the API server
    cache,  \* the informers' copies of them
    pass,   \* the projection: program counter, the root read and to be written, its copies
    seen,   \* history: every observation <<process, height, time>> a source has made
    budget  \* how often each kind of decision or fault may still happen

vars == <<clock, chain, root, srv, cache, pass, seen, budget>>

-----------------------------------------------------------------------------
(* State *)

NoSample == <<>>
Sources == Miners \cup {0}          \* 0: the Bitcoin node

\* What a control may hold: the two production capabilities and the miners.
Prod == 100
Tx == 101
Controls == SUBSET ({Prod, Tx} \cup Miners)

\* A height sample: process, height, first observation
Sample == (Nat \X Nat \X Nat) \cup {NoSample}

\* control: paused capabilities and suspended miners in the root's spec
Root == [gen : Nat, op : {"Running", "Paused", "Stopped"}, control : Controls,
         failed : BOOLEAN, initialized : BOOLEAN, phase : {"Initializing", "Running", "Pausing",
         "Stopping", "Failed"}, oper : {"True", "False", "Unknown"}, bitcoin : Sample, miner : Sample]

\* An actor: its process, its workload condition, its own observation
Actor == [proc : Nat, ready : {"True", "False", "Unknown"}, height : Nat, at : Nat, of : Nat]

\* The reports of the three capabilities
Production == [at : Nat, targets : Nat, acked : Nat, over : BOOLEAN]
Traffic == [at : Nat, gen : Nat, target : Nat, submitted : Nat, included : Nat]
Contracts == [at : Nat, gen : Nat, match : BOOLEAN]

\* The participants: projected controls, actors, reports
Parts == [control : Controls, actor : [Sources -> Actor], prod : Production, tx : Traffic, con : Contracts]

\* The Bitcoin node's height is in its execution.
Exe == [height : Nat, at : Nat, of : Nat]

Server == [parts : Parts, exe : Exe, over : BOOLEAN]
Cache == [parts : Parts, exe : Exe]

NoExe == [height |-> 0, at |-> 0, of |-> 0]

\* timing: history, the overrides that were retained since the pass began
Idle == [pc |-> "idle", base |-> <<>>, root |-> <<>>, got |-> <<>>, timing |-> {}]

Projecting == [pc : {"project", "validate"}, base : Root, root : Root, got : Parts, timing : SUBSET BOOLEAN]
Writing == [pc : {"write"}, base : Root, root : Root, got : [over : BOOLEAN], timing : SUBSET BOOLEAN]

\* The values every variable may take.
TypeOK ==
    /\ clock \in Nat /\ chain \in Nat /\ root \in Root
    /\ srv \in Server /\ cache \in Cache
    /\ pass = Idle \/ pass \in Projecting \/ pass \in Writing
    /\ seen \subseteq Nat \X Nat \X Nat
    /\ budget \in [Kinds -> Nat]

\* Process k of source s has a number of its own.
Process(s, k) == 10 * s + k

\* Every gate is complete and everything has just been observed; the network is initialized,
\* or the transfer that is to show it was submitted before the last ceiling was passed.
Init ==
    /\ clock = 1 /\ budget \in Budgets
    /\ LET started == budget["Started"] > 0
           height == IF started THEN Boundary ELSE Boundary - 1
       IN  /\ chain = height
           /\ root = [gen |-> 1, op |-> "Running", control |-> {}, failed |-> FALSE,
                      initialized |-> started, phase |-> IF started THEN "Running" ELSE "Initializing",
                      oper |-> "False", bitcoin |-> NoSample, miner |-> NoSample]
           /\ srv = [parts |-> [control |-> {},
                                actor |-> [s \in Sources |-> [proc |-> Process(s, 1), ready |-> "True",
                                              height |-> height, at |-> 1, of |-> Process(s, 1)]],
                                prod |-> [at |-> 1, targets |-> 1, acked |-> 1, over |-> FALSE],
                                tx |-> [at |-> 1, gen |-> 1, target |-> Process(CHOOSE s \in Miners : TRUE, 1),
                                        submitted |-> height, included |-> 1],
                                con |-> [at |-> 1, gen |-> 1, match |-> TRUE]],
                     exe |-> [height |-> height, at |-> 1, of |-> Process(0, 1)],
                     over |-> FALSE]
           /\ seen = {<<Process(s, 1), height, 1>> : s \in Sources}
    /\ cache = [parts |-> srv.parts, exe |-> srv.exe]
    /\ pass = Idle

-----------------------------------------------------------------------------
(* The predicates *)

fresh(at) == at # 0 /\ at <= clock /\ clock - at <= 1

\* ProgressWindow, from a past success.
recent(at) == at # 0 /\ clock - at <= Window

\* capabilityPaused and actorSuspended: the root's intent counts before it is projected.
controlled(r, p, c) == c \in p.control \cup r.control

bitcoinOperational(r, p) ==
    IF controlled(r, p, Prod) THEN "False"
    ELSE IF ~fresh(p.prod.at) THEN "Unknown"
    ELSE IF p.prod.targets = 0 \/ ~recent(p.prod.acked) THEN "False" ELSE "True"

currentActorReady(a) == a.ready = "True"

\* The miners that are not suspended: one ready is enough.
minerOperational(r, p) ==
    LET required == {m \in Miners : ~controlled(r, p, m)}
    IN  IF \E m \in required : currentActorReady(p.actor[m]) THEN "True"
        ELSE IF \E m \in required : p.actor[m].ready = "Unknown" THEN "Unknown" ELSE "False"

\* A report of this generation of the network, recent enough.
currentWorker(r, w) == w.gen = r.gen /\ fresh(w.at)

\* The transfer went in through an actor's current process, and was included recently.
trafficOperational(r, p) ==
    IF controlled(r, p, Tx) THEN "False"
    ELSE IF ~currentWorker(r, p.tx) THEN "Unknown"
    ELSE IF p.tx.included = 0 THEN "False"
    ELSE IF ~\E m \in Miners : currentActorReady(p.actor[m]) /\ p.actor[m].proc = p.tx.target THEN "Unknown"
    ELSE IF ~recent(p.tx.included) THEN "False" ELSE "True"

contractsOperational(r, p) ==
    IF ~currentWorker(r, p.con) THEN "Unknown" ELSE IF p.con.match THEN "True" ELSE "False"

\* A known unmet requirement goes before a missing observation.
combinePredicates(S) == IF "False" \in S THEN "False" ELSE IF "Unknown" \in S THEN "Unknown" ELSE "True"

\* An actor's own observation, of the process it runs now.
current(a) == currentActorReady(a) /\ fresh(a.at) /\ a.of = a.proc

\* A transfer submitted beyond the last ceiling, and every initial node beyond it.
postWaterfallObserved(p) ==
    /\ p.tx.submitted >= Boundary
    /\ \A m \in Miners : current(p.actor[m]) /\ p.actor[m].height >= Boundary

-----------------------------------------------------------------------------
(* The height samples: <<process, height, first observation>>.  Processes are numbered by UID. *)

\* The greatest height, the least UID among equals.
greatestSample(S) ==
    IF S = {} THEN NoSample
    ELSE CHOOSE s \in S : \A t \in S : s[2] > t[2] \/ (s[2] = t[2] /\ s[1] <= t[1])

currentBitcoinSample(p, e) ==
    IF currentActorReady(p.actor[0]) /\ fresh(e.at) /\ e.of = p.actor[0].proc
    THEN <<e.of, e.height, e.at>> ELSE NoSample

currentMinerSample(r, p) ==
    greatestSample({<<p.actor[m].of, p.actor[m].height, p.actor[m].at>> :
                      m \in {m \in Miners : current(p.actor[m]) /\ ~controlled(r, p, m)}})

\* Faulty variant: an unchanged height goes on, whoever reports it.
retainHeight(previous, sample) ==
    IF previous # NoSample /\ sample # NoSample /\ previous[2] = sample[2] THEN [sample EXCEPT ![3] = previous[3]]
    ELSE sample

\* The first observation is kept while process and height stay the same.
retainHeightSample(previous, sample) ==
    IF previous # NoSample /\ sample # NoSample /\ previous[1] = sample[1] /\ previous[2] = sample[2]
       /\ previous[3] <= sample[3] THEN previous
    ELSE sample

-----------------------------------------------------------------------------
(* A pass *)

world == <<clock, chain, root, srv, cache, seen, budget>>

Withdrawn(r) == [r EXCEPT !.bitcoin = NoSample, !.miner = NoSample]

\* An unchanged status is not written; of the copies only the timing is of interest later.
Finish(r) ==
    pass' = IF r = pass.base THEN Idle
            ELSE [pass EXCEPT !.pc = "write", !.root = r, !.got = [over |-> pass.got.prod.over],
                              !.timing = IF r.oper = "True" THEN @ ELSE {}]

\* reconcileRuntime reads the root, Reconcile lists the cached participants.
Start ==
    /\ pass = Idle
    /\ pass' = [pc |-> "project", base |-> root, root |-> root, got |-> cache.parts,
                timing |-> {srv.over}]
    /\ UNCHANGED world

\* A stopped or failed network is not operational, and its samples are withdrawn.
ProjectEnd ==
    /\ pass.pc = "project" /\ (pass.root.op = "Stopped" \/ pass.root.failed)
    /\ Finish([Withdrawn(pass.root) EXCEPT !.oper = "False",
                  !.phase = IF pass.root.op = "Stopped" THEN "Stopping" ELSE "Failed"])
    /\ UNCHANGED world

\* projectKnownOperation.
knownPhase(r) == IF r.op = "Paused" THEN "Pausing" ELSE IF r.initialized THEN "Running" ELSE "Initializing"

\* projectOperation, up to the override: samples, history, then the assessment.
projected(r, p, e) ==
    LET traffic == trafficOperational(r, p)
        sampled == [r EXCEPT !.phase = knownPhase(r), !.oper = "False",
                             !.bitcoin = retainHeightSample(@, currentBitcoinSample(p, e)),
                             !.miner = retainHeightSample(@, currentMinerSample(r, p))]
    IN  IF ~r.initialized /\ ~(traffic = "True" /\ postWaterfallObserved(p)) THEN sampled
        ELSE IF r.op # "Running" THEN [sampled EXCEPT !.initialized = TRUE]
        ELSE [sampled EXCEPT !.initialized = TRUE, !.phase = "Running",
                 !.oper = combinePredicates({bitcoinOperational(r, p), minerOperational(r, p),
                                             traffic, contractsOperational(r, p)})]

assessed(r) == r.op = "Running" /\ r.initialized

ProjectOperation ==
    /\ pass.pc = "project" /\ pass.root.op # "Stopped" /\ ~pass.root.failed
    /\ \E e \in {cache.exe, NoExe} :
          LET r == projected(pass.root, pass.got, e)
          IN  IF assessed(r) /\ bitcoinOperational(pass.root, pass.got) = "True"
              THEN pass' = [pass EXCEPT !.pc = "validate", !.root = r]
              ELSE Finish(r)
    /\ UNCHANGED world

\* Faulty variant: the projected override is taken for the retained one.
ValidateNothing ==
    /\ pass.pc = "validate"
    /\ Finish(pass.root)
    /\ UNCHANGED world

\* ValidateSchedulingOverride: the projected override is the one retained now, or the
\* Bitcoin predicate is unknown.
Validate ==
    /\ pass.pc = "validate"
    /\ Finish(IF srv.over = pass.got.prod.over THEN pass.root
              ELSE [pass.root EXCEPT !.oper = combinePredicates({@, "Unknown"})])
    /\ UNCHANGED world

\* A read fails: what is known of the lifecycle stays, the samples are withdrawn.  The phase
\* depends on how far the pass had come.
observationUnavailable(r, phase) ==
    [Withdrawn(r) EXCEPT
        !.phase = IF r.op = "Stopped" THEN @ ELSE IF r.failed THEN "Failed"
                  ELSE IF r.op = "Running" /\ r.initialized THEN "Running" ELSE phase,
        !.oper = IF r.op = "Running" /\ r.initialized /\ ~r.failed THEN "Unknown" ELSE "False"]

Unavailable ==
    /\ pass.pc = "project"
    /\ \E phase \in {pass.root.phase, knownPhase(pass.root)} :
          Finish(observationUnavailable(pass.root, phase))
    /\ UNCHANGED world

Write ==
    /\ pass.pc = "write" /\ root = pass.base
    /\ root' = pass.root /\ pass' = Idle
    /\ UNCHANGED <<clock, chain, srv, cache, seen, budget>>

Conflict ==
    /\ pass.pc = "write" /\ root # pass.base
    /\ pass' = Idle
    /\ UNCHANGED world

Pass == Start \/ ProjectEnd \/ ProjectOperation \/ Validate \/ Unavailable \/ Write \/ Conflict

-----------------------------------------------------------------------------
(* Everyone else *)

Spend(k) == budget[k] > 0 /\ budget' = [budget EXCEPT ![k] = @ - 1]

Edit(r) ==
    /\ root' = [r EXCEPT !.gen = @ + 1]
    /\ UNCHANGED <<clock, chain, srv, cache, pass, seen>>

\* Users edit the operation and the participants' controls.
Operate ==
    \/ /\ root.op \in {"Running", "Paused"} /\ Spend("Pause")
       /\ Edit([root EXCEPT !.op = IF @ = "Running" THEN "Paused" ELSE "Running"])
    \/ /\ root.op # "Stopped" /\ Spend("Stop")
       /\ Edit([root EXCEPT !.op = "Stopped"])

toggled(S, x) == (S \ {x}) \cup ({x} \ S)

Control ==
    \/ /\ Spend("Control")
       /\ \E c \in {Prod, Tx} : Edit([root EXCEPT !.control = toggled(@, c)])
    \/ /\ Spend("Suspend")
       /\ \E m \in Miners : Edit([root EXCEPT !.control = toggled(@, m)])

\* Another controller latches a failure.
Fail ==
    /\ ~root.failed /\ Spend("Fail")
    /\ root' = [root EXCEPT !.failed = TRUE, !.phase = "Failed"]
    /\ UNCHANGED <<clock, chain, srv, cache, pass, seen>>

Tick ==
    /\ Spend("Tick") /\ clock' = clock + 1
    /\ UNCHANGED <<chain, root, srv, cache, pass, seen>>

Sync ==
    /\ cache' = [cache EXCEPT !.parts = srv.parts] \/ cache' = [cache EXCEPT !.exe = srv.exe]
    /\ cache' # cache
    /\ UNCHANGED <<clock, chain, root, srv, pass, seen, budget>>

actor(s) == srv.parts.actor[s]
withActor(s, a) == [srv.parts EXCEPT !.actor = [@ EXCEPT ![s] = a]]

participants(v) ==
    /\ srv' = [srv EXCEPT !.parts = v]
    /\ UNCHANGED <<clock, chain, root, cache, pass>>

\* The foundation patches the controls into the instances: a new generation, whose conditions
\* and reports are still to come.
ProjectControl ==
    /\ srv.parts.control # root.control
    /\ LET changed == {c \in root.control \cup srv.parts.control : ~(c \in root.control /\ c \in srv.parts.control)}
       IN  participants([srv.parts EXCEPT !.control = root.control,
              !.actor = [s \in Sources |-> IF s \in changed THEN [actor(s) EXCEPT !.ready = "Unknown"] ELSE actor(s)],
              !.tx = IF Tx \in changed THEN [srv.parts.tx EXCEPT !.gen = 0] ELSE @])
    /\ UNCHANGED <<seen, budget>>

\* A miner observes its own chain, and its conditions are current again.
ObserveMiner(m) ==
    /\ Spend("Report") /\ m \notin root.control
    /\ participants(withActor(m, [proc |-> actor(m).proc, ready |-> "True", height |-> chain, at |-> clock,
                                  of |-> actor(m).proc]))
    /\ seen' = seen \cup {<<actor(m).proc, chain, clock>>}

\* The control process observes the Bitcoin node it is bound to.
ObserveBitcoin ==
    /\ Spend("Report")
    /\ srv' = [srv EXCEPT !.parts = withActor(0, [actor(0) EXCEPT !.ready = "True"]),
                          !.exe = [height |-> chain, at |-> clock, of |-> actor(0).proc]]
    /\ seen' = seen \cup {<<actor(0).proc, chain, clock>>}
    /\ UNCHANGED <<clock, chain, root, cache, pass>>

\* An actor's Pod is replaced, or is not ready.
Rebind(s) ==
    /\ Spend("Rebind")
    /\ participants(withActor(s, [actor(s) EXCEPT !.ready = "False", !.proc = @ + 1]))
    /\ UNCHANGED seen

Unready(s) ==
    /\ actor(s).ready = "True" /\ Spend("Unready")
    /\ participants(withActor(s, [actor(s) EXCEPT !.ready = "False"]))
    /\ UNCHANGED seen

withProd(v) == [srv.parts EXCEPT !.prod = v]
withTx(v) == [srv.parts EXCEPT !.tx = v]
withCon(v) == [srv.parts EXCEPT !.con = v]

\* The scheduler reports: targets, the override it applies; a block is acknowledged.
ReportScheduling ==
    /\ Spend("Report")
    /\ participants(withProd([srv.parts.prod EXCEPT !.at = clock, !.over = srv.over]))
    /\ UNCHANGED seen

Block ==
    /\ Prod \notin srv.parts.control /\ srv.parts.prod.targets > 0 /\ Spend("Block")
    /\ srv' = [srv EXCEPT !.parts = withProd([srv.parts.prod EXCEPT !.acked = clock])]
    /\ chain' = chain + 1
    /\ UNCHANGED <<clock, root, cache, pass, seen>>

\* The workers report under the generation they obey; a transfer is submitted and included.
ReportWorker ==
    /\ Spend("Report")
    /\ \/ participants(withTx([srv.parts.tx EXCEPT !.at = clock, !.gen = root.gen]))
       \/ participants(withCon([srv.parts.con EXCEPT !.at = clock, !.gen = root.gen]))
    /\ UNCHANGED seen

Transfer(m) ==
    /\ Tx \notin srv.parts.control /\ actor(m).ready = "True" /\ Spend("Transfer")
    /\ participants(withTx([srv.parts.tx EXCEPT !.at = clock, !.target = actor(m).proc,
                                                !.submitted = chain, !.included = clock]))
    /\ UNCHANGED seen

\* A fork drops the transfer, the contracts differ, or no target is eligible.
Diverge ==
    /\ Spend("Diverge")
    /\ \/ participants(withTx([srv.parts.tx EXCEPT !.included = 0]))
       \/ participants(withCon([srv.parts.con EXCEPT !.match = FALSE]))
       \/ participants(withProd([srv.parts.prod EXCEPT !.targets = 0]))
    /\ UNCHANGED seen

\* An override is retained, or its activation withdrawn.
Override ==
    /\ Spend("Override")
    /\ srv' = [srv EXCEPT !.over = ~@]
    /\ pass' = IF pass.timing = {} THEN pass ELSE [pass EXCEPT !.timing = @ \cup {~srv.over}]
    /\ UNCHANGED <<clock, chain, root, cache, seen>>

Others == \/ Operate \/ Control \/ Fail \/ Tick \/ Sync \/ ProjectControl \/ ObserveBitcoin
          \/ \E m \in Miners : ObserveMiner(m) \/ Transfer(m)
          \/ \E s \in Sources : Rebind(s) \/ Unready(s)
          \/ ReportScheduling \/ Block \/ ReportWorker \/ Diverge \/ Override

Next == Pass \/ Others

Spec == Init /\ [][Next]_vars

-----------------------------------------------------------------------------
(* Properties *)

\* Operational is published only for a network whose root asks it to run, has not failed and
\* holds none of the baseline, with a miner it does not suspend, and under a timing override
\* that was retained while the pass ran; the caches of the pass may lag behind all of these
\* (projectOperation, capabilityPaused, ValidateSchedulingOverride).
OperationalDecision ==
    root'.oper = "True" /\ root' # root /\ pass.pc = "write" /\ pass' = Idle =>
        /\ root'.op = "Running" /\ ~root'.failed /\ root'.initialized
        /\ root'.control \cap {Prod, Tx} = {} /\ ~(Miners \subseteq root'.control)
        /\ pass.got.over \in pass.timing

\* Initialized is a historical fact: it is published once a transfer submitted beyond the
\* last ceiling has been included, and nothing that happens later takes it back
\* (projectOperation, postWaterfallObserved).
InitializedDecision ==
    /\ root.initialized => root'.initialized
    /\ root'.initialized /\ ~root.initialized => srv.parts.tx.submitted >= Boundary

\* Both, of every step.
OperationEarned == [][OperationalDecision /\ InitializedDecision]_vars

\* A published sample is attributed: its process did observe its height at the time the
\* sequence is said to begin (burnchainObservations, retainHeightSample, greatestSample).
SamplesTrue ==
    \A s \in {root.bitcoin, root.miner} \ {NoSample} : s \in seen
====

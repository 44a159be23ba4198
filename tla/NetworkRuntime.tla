--------------------------- MODULE NetworkRuntime ---------------------------
(***************************************************************************)
(* The projection of runtime facts into the root status until the network  *)
(* is initialized (operators/network/internal/networkruntime): worker      *)
(* sessions, the lifecycle phase, and the six frozen bootstrap gates that  *)
(* release one Bitcoin ceiling after the other.  foundation/runtime.go     *)
(* runs it and publishes its result under the resourceVersion it read.     *)
(*                                                                         *)
(* A pass reads the root from the API server and nearly everything else    *)
(* from informer caches, each of which lags on its own; a decision that    *)
(* cannot be taken back is evaluated again on fresh reads, one object      *)
(* after the other.  One required member of each sort stands for the       *)
(* cohort: a management worker, a Stacks node, the Bitcoin control.        *)
(***************************************************************************)
EXTENDS Naturals

CONSTANTS Ceiling,   \* frozen Bitcoin ceiling of each gate
          Cycle,     \* target cycle of each gate, 0 for none
          Deadline,  \* the gate observation deadline, in freshness windows
          Budgets    \* what may happen, from which gate on: one of these in each behaviour

Kinds == {"Pause", "Stop", "Delete", "Regress", "Exceed", "Rebind", "Roll", "Lost", "Late",
          "Block", "Report", "Tick", "From"}

Names == <<"PrepareBitcoin", "EnrollPoX4", "PrepareNakamoto",
           "PreparePoX5", "EnrollPoX5", "PrepareWaterfall">>

VARIABLES
    clock,  \* wall-clock time
    chain,  \* height of the target's chain
    live,   \* the processes that run
    root,   \* the StacksNetwork in the API server
    srv,    \* the other objects in the API server
    cache,  \* the informers' copies of them
    pass,   \* the projection: program counter, the root it read and the one it will write
    held,   \* history: what was true in the API server at some time since the pass began
    budget  \* how often each kind of decision or fault may still happen

vars == <<clock, chain, live, root, srv, cache, pass, held, budget>>

-----------------------------------------------------------------------------
(* State *)

NGates == 6
Times == Nat   \* in freshness windows; 0: never

\* What the model's constants are.
Bounds ==
    /\ Ceiling \in [1 .. NGates -> Nat] /\ Cycle \in [1 .. NGates -> Nat] /\ Deadline \in Nat
    /\ Budgets \subseteq [Kinds -> Nat] /\ \A b \in Budgets : b["From"] <= NGates

Phases == {"", "Uninitialized", "Initializing", "Pausing", "Paused", "Stopping", "Stopped",
           "Failed", "Destroying"}

\* index: gates completed, once seeded; first: first ceiling observation of the current gate;
\* wrk: the worker's identity and session in the ledger
Root == [gen : Nat, op : {"Running", "Paused", "Stopped"}, deleting : BOOLEAN,
         genesis : BOOLEAN, phase : Phases, failed : BOOLEAN, seeded : BOOLEAN,
         index : 0 .. NGates, first : Times, wrk : {"unlisted", "none", "bound", "ended"}]

NoRoot == [gen |-> 0, op |-> "Running", deleting |-> FALSE, genesis |-> FALSE, phase |-> "",
           failed |-> FALSE, seeded |-> FALSE, index |-> 0, first |-> 0, wrk |-> "none"]

\* BitcoinInitialization: its own view of the first gate
Rec == [first : Times, prepared : Times, failed : BOOLEAN]

\* BitcoinExecution: an observation of process proc, an armed request, the acknowledgement
Exe == [height : Nat, at : Times, proc : Nat, armed : BOOLEAN, ack : Nat, paused : BOOLEAN]

\* The Bitcoin participant: the process it publishes, the end of its control processes
Btc == [proc : Nat, term : BOOLEAN, gen : Nat]

\* The worker: its Pod, and in its report the cohort fact and the pause it obeys
Wrk == [pod : {"none", "live", "dead", "lost"}, fact : {"none", "pox4", "contracts", "pox5"},
        cycle : Nat, at : Times, ready : BOOLEAN, ack : Nat, paused : BOOLEAN]

\* The node: created, its StatefulSet wanted, its end recorded, its prepared signer set;
\* rolled: a history of replaced Pods
Node == [known : BOOLEAN, up : BOOLEAN, term : BOOLEAN, rolled : BOOLEAN, ready : BOOLEAN,
         set : Nat, at : Times]

NoObjects ==
    [rec  |-> [first |-> 0, prepared |-> 0, failed |-> FALSE],
     exe  |-> [height |-> 0, at |-> 0, proc |-> 0, armed |-> FALSE, ack |-> 0, paused |-> FALSE],
     btc  |-> [proc |-> 0, term |-> FALSE, gen |-> 0],
     wrk  |-> [pod |-> "none", fact |-> "none", cycle |-> 0, at |-> 0, ready |-> FALSE,
               ack |-> 0, paused |-> FALSE],
     node |-> [known |-> FALSE, up |-> FALSE, term |-> FALSE, rolled |-> FALSE,
              ready |-> FALSE, set |-> 0, at |-> 0]]

Objects == [rec : Rec, exe : Exe, btc : Btc, wrk : Wrk, node : Node]

\* base, root: as read and as it will be written; got: the copies a pass decides on
Idle == [pc |-> "idle", base |-> NoRoot, root |-> NoRoot, got |-> NoObjects]

Steps == {"idle", "sessions", "lifecycle", "records", "preparation", "gates",
          "fresh wrk", "fresh node", "confirm", "pause", "write"}

PassState == [pc : Steps, base : Root, root : Root, got : Objects]

\* The values every variable may take.
TypeOK ==
    /\ clock \in Nat /\ chain \in Nat
    /\ live \in [{"ctl", "wrk", "node"} -> BOOLEAN]
    /\ root \in Root /\ srv \in Objects /\ cache \in Objects
    /\ pass \in PassState
    /\ held \subseteq {"prepared", "pox4", "contracts", "pox5", "set", "height", "over"}
    /\ budget \in [Kinds -> Nat]

\* A network whose first n gates have completed, or one that has not been captured yet; an
\* informer may not have seen the node that joined last.
Init ==
    /\ clock = 1 /\ budget \in Budgets
    /\ \E n \in {budget["From"]}, listed \in {"unlisted", "none"} :
          /\ n > 0 => listed = "none"
          /\ chain = IF n = 0 THEN 0 ELSE Ceiling[n]
          /\ root = [NoRoot EXCEPT !.gen = 1, !.genesis = n > 0, !.seeded = n > 0, !.index = n,
                                   !.phase = IF n = 0 THEN "" ELSE "Initializing", !.wrk = listed]
          /\ srv = [NoObjects EXCEPT !.node.known = TRUE, !.node.up = n > 0,
                                     !.btc.proc = IF n = 0 THEN 0 ELSE 1]
          /\ live = [p \in {"ctl", "wrk", "node"} |-> n > 0 /\ p # "wrk"]
    /\ cache = IF budget["Late"] > 0 THEN [srv EXCEPT !.node = NoObjects.node] ELSE srv
    /\ pass = Idle
    /\ held = {}

-----------------------------------------------------------------------------
(* Evidence *)

fresh(at) == at # 0 /\ at <= clock /\ clock - at <= 1

\* currentBitcoinObservation and the age of the observation: the target's height is known.
heightKnown(o) == fresh(o.exe.at) /\ o.exe.proc = o.btc.proc

preparedInTime(rec) ==
    /\ rec.prepared # 0
    /\ rec.first # 0 => rec.prepared < rec.first + Deadline

requiredWorker(r, w) == r.wrk = "bound" /\ w.ready

pox4CohortSatisfied(r, w, g) ==
    requiredWorker(r, w) /\ w.fact = "pox4" /\ fresh(w.at) /\ w.cycle = Cycle[g]

pox5CohortSatisfied(r, w, g) ==
    requiredWorker(r, w) /\ w.fact = "pox5" /\ fresh(w.at) /\ w.cycle = Cycle[g]

contractCohortSatisfied(r, w) ==
    requiredWorker(r, w) /\ w.fact = "contracts" /\ fresh(w.at)

\* Every required node, ready, reports the signer set of the target cycle.
preparedCohortSatisfied(n, g) ==
    n.known /\ n.ready /\ ~n.term /\ fresh(n.at) /\ n.set = Cycle[g]

\* What gate g needs, by name.
needs(g) == CASE Names[g] = "PrepareBitcoin"   -> {"prepared"}
              [] Names[g] = "EnrollPoX4"       -> {"height", "pox4"}
              [] Names[g] = "PrepareNakamoto"  -> {"height", "pox4", "set"}
              [] Names[g] = "PreparePoX5"      -> {"height", "contracts"}
              [] Names[g] = "EnrollPoX5"       -> {"height", "pox5"}
              [] Names[g] = "PrepareWaterfall" -> {"height", "pox5", "set"}

\* The evidence for gate g that a set of copies holds.
evidence(r, o, g) ==
    {f \in {"prepared"} : preparedInTime(o.rec)}
    \cup {f \in {"pox4"} : pox4CohortSatisfied(r, o.wrk, g)}
    \cup {f \in {"contracts"} : contractCohortSatisfied(r, o.wrk)}
    \cup {f \in {"pox5"} : pox5CohortSatisfied(r, o.wrk, g)}
    \cup {f \in {"set"} : preparedCohortSatisfied(o.node, g)}
    \cup {f \in {"height"} : heightKnown(o)}
    \cup {f \in {"over"} : heightKnown(o) /\ o.exe.height > Ceiling[g]}

-----------------------------------------------------------------------------
(* projectGates *)

Gate(r) == r.index + 1

Latched(r) == [r EXCEPT !.failed = TRUE, !.phase = "Failed"]

\* initializeGates seeds the record of the frozen gates.
initializeGates(r) == [r EXCEPT !.seeded = TRUE]

\* The first ceiling observation: the record's for the first gate, else this one.
firstCeiling(r, o) ==
    IF r.first # 0 THEN r.first
    ELSE IF Gate(r) = 1 /\ o.rec.first # 0 THEN o.rec.first
    ELSE IF heightKnown(o) /\ o.exe.height = Ceiling[Gate(r)] THEN clock ELSE 0

exceeded(r, o) == "over" \in evidence(r, o, Gate(r))

expired(r, o) ==
    /\ firstCeiling(r, o) # 0 /\ clock >= firstCeiling(r, o) + Deadline
    /\ ~(Gate(r) = 1 /\ preparedInTime(o.rec))

complete(r, o) == needs(Gate(r)) \subseteq evidence(r, o, Gate(r))

projectGates(r, o) ==
    LET s == initializeGates(r)
    IN  IF r.index = NGates THEN s
        ELSE IF exceeded(r, o) \/ expired(r, o) THEN Latched([s EXCEPT !.first = firstCeiling(r, o)])
        ELSE IF complete(r, o) THEN [s EXCEPT !.index = @ + 1, !.first = 0]
        ELSE [s EXCEPT !.first = firstCeiling(r, o)]

-----------------------------------------------------------------------------
(* A pass *)

\* The history: evidence for the gate of the pass, in the API server, since the pass began.
Witness ==
    held' = IF pass'.pc = "idle" THEN {}
            ELSE (IF pass.pc = "idle" THEN {} ELSE held)
                 \cup (IF pass'.base.index = NGates THEN {}
                       ELSE evidence([pass'.base EXCEPT !.wrk = pass'.root.wrk], srv',
                                     pass'.base.index + 1))

world == <<clock, chain, live, root, srv, cache, budget>>

Only == UNCHANGED world /\ Witness

\* reconcileRuntime reads the root, Reconcile the cached participants; the failure is sticky.
Start ==
    /\ pass.pc = "idle"
    /\ pass' = [Idle EXCEPT !.pc = "sessions", !.base = root,
                   !.root = IF root.phase = "Failed" THEN Latched(root) ELSE root,
                   !.got.wrk = cache.wrk, !.got.node = cache.node, !.got.btc = cache.btc]
    /\ Only

\* ProjectSession: bind a candidate, record the end of a stopped worker, or fail.  How a
\* worker is shut down is StacksWorker's subject; here it ends with its acknowledgement.
session(r, pod) ==
    IF r.wrk = "none" /\ pod = "live" /\ r.op = "Running" /\ ~r.failed /\ ~r.deleting
       THEN [r EXCEPT !.wrk = "bound"]
    ELSE IF r.wrk = "bound" /\ pod = "dead" /\ r.op = "Stopped" THEN [r EXCEPT !.wrk = "ended"]
    ELSE IF r.wrk = "bound" /\ pod # "live" THEN Latched(r)
    ELSE r

\* projectWorkers: what the cached Pod suggests is decided on the current one.
ProjectWorkers ==
    /\ pass.pc = "sessions"
    /\ pass' = [pass EXCEPT !.pc = "lifecycle",
                   !.root = IF session(@, cache.wrk.pod) # @ THEN session(@, srv.wrk.pod) ELSE @]
    /\ Only

\* An unchanged status is not written.
Finish(r) == pass' = IF r = pass.base THEN Idle
                     ELSE [Idle EXCEPT !.pc = "write", !.base = pass.base, !.root = r]

\* Deletion goes before everything else.
ProjectDeletion ==
    /\ pass.pc = "lifecycle" /\ pass.root.deleting
    /\ Finish([pass.root EXCEPT !.phase = "Destroying"])
    /\ Only

\* Every session that was activated, every actor and every control has ended; an instance in
\* the ledger that was not observed proves nothing.
terminated(r, o) ==
    /\ r.wrk \in {"ended", "none"} \/ (r.wrk = "unlisted" /\ o.wrk.pod = "none")
    /\ o.node.known /\ o.node.term
    /\ o.btc.term /\ o.btc.gen = r.gen

\* A requested stop, failed or not.
ProjectStop ==
    /\ pass.pc = "lifecycle" /\ ~pass.root.deleting /\ pass.root.op = "Stopped"
    /\ Finish([pass.root EXCEPT
                 !.phase = IF terminated(pass.root, pass.got) THEN "Stopped" ELSE "Stopping"])
    /\ Only

Going == pass.pc = "lifecycle" /\ ~pass.root.deleting /\ pass.root.op # "Stopped"

ProjectFailure ==
    /\ Going /\ pass.root.failed
    /\ Finish([pass.root EXCEPT !.phase = "Failed"])
    /\ Only

\* Nothing is captured: a pause is all there is to report.
ProjectUncaptured ==
    /\ Going /\ ~pass.root.failed /\ ~pass.root.genesis
    /\ Finish([pass.root EXCEPT !.phase = IF pass.root.op = "Paused" THEN "Uninitialized" ELSE @])
    /\ Only

\* Something has run: a participant publishes workloads.
activated(o) == o.btc.proc > 0 \/ o.wrk.pod # "none"

\* EnsureRecords, and the phase before any gate is looked at.
ProjectRecords ==
    /\ Going /\ ~pass.root.failed /\ pass.root.genesis
    /\ pass' = [pass EXCEPT !.pc = "preparation", !.root.phase =
                   IF pass.root.op = "Running" THEN "Initializing"
                   ELSE IF activated(pass.got) THEN "Pausing" ELSE "Uninitialized"]
    /\ Only

\* projectPreparation on the cached record; its failure is confirmed on the current one.
ProjectPreparation ==
    /\ pass.pc = "preparation"
    /\ LET rec == IF cache.rec.failed THEN srv.rec ELSE cache.rec
       IN  IF rec.failed THEN Finish(Latched(pass.root))
           ELSE pass' = [pass EXCEPT !.pc = "gates", !.got.rec = rec]
    /\ Only

\* Where the pass goes on once the gates are settled.
AfterGates(r) ==
    IF r.failed \/ r.op # "Paused" \/ ~activated(pass.got) THEN Finish(r)
    ELSE pass' = [pass EXCEPT !.pc = "pause", !.root = r, !.got.rec = NoObjects.rec,
                              !.got.node = NoObjects.node]

\* Faulty variant: what the caches say is good enough.
GatesFromCache ==
    /\ pass.pc = "gates"
    /\ AfterGates(projectGates(pass.root, [pass.got EXCEPT !.exe = cache.exe, !.btc = cache.btc]))
    /\ Only

\* reconcileGates: the trial on cached copies decides only whether to look again.
TryGates ==
    /\ pass.pc = "gates"
    /\ LET trial == projectGates(pass.root, [pass.got EXCEPT !.exe = cache.exe, !.btc = cache.btc])
       IN  IF trial = pass.root THEN AfterGates(trial)
           ELSE pass' = [pass EXCEPT !.pc = "fresh wrk"]
    /\ Only

\* The confirming reads, one object after the other (the record serves the first gate only,
\* the worker the others: no gate tells their order).
ReadWorker ==
    /\ pass.pc = "fresh wrk"
    /\ pass' = [pass EXCEPT !.pc = "fresh node", !.got.rec = srv.rec, !.got.wrk = srv.wrk]
    /\ Only

ReadNode ==
    /\ pass.pc = "fresh node"
    /\ pass' = [pass EXCEPT !.pc = "confirm",
                   !.got.node = IF pass.got.node.known THEN srv.node ELSE @]
    /\ Only

\* The height is read last, and only this evaluation is adopted.
ConfirmGates ==
    /\ pass.pc = "confirm"
    /\ AfterGates(projectGates(pass.root, [pass.got EXCEPT !.exe = srv.exe, !.btc = srv.btc]))
    /\ Only

\* Nothing armed, and a fresh acknowledgement of this generation's pause.
bitcoinPaused(e, r) == ~e.armed /\ e.paused /\ e.ack = r.gen /\ fresh(e.at)

workersPaused(r, w) == r.wrk = "bound" => w.paused /\ w.ack = r.gen /\ fresh(w.at)

\* The cached execution record and the listed worker acknowledge the pause.
ProjectPause ==
    /\ pass.pc = "pause"
    /\ Finish([pass.root EXCEPT !.phase =
                 IF bitcoinPaused(cache.exe, pass.root) /\ workersPaused(pass.root, pass.got.wrk)
                 THEN "Paused" ELSE @])
    /\ Only

\* observationUnavailable: a read failed; what is known is published all the same.
Unavailable ==
    /\ pass.pc \notin {"idle", "write", "lifecycle"}
    /\ Finish([pass.root EXCEPT !.phase =
                 CASE pass.root.deleting -> "Destroying"
                   [] ~pass.root.deleting /\ pass.root.op # "Stopped" /\ pass.root.failed -> "Failed"
                   [] OTHER -> @])
    /\ Only

\* Faulty variant: the status is written whatever has become of the root.
WriteBlind ==
    /\ pass.pc = "write"
    /\ root' = [pass.root EXCEPT !.gen = root.gen, !.op = root.op, !.deleting = root.deleting]
    /\ pass' = Idle
    /\ UNCHANGED <<clock, chain, live, srv, cache, budget>> /\ Witness

\* The status patch carries the resourceVersion that was read.
Write ==
    /\ pass.pc = "write" /\ root = pass.base
    /\ root' = pass.root
    /\ pass' = Idle
    /\ UNCHANGED <<clock, chain, live, srv, cache, budget>> /\ Witness

Conflict ==
    /\ pass.pc = "write"
    /\ pass' = Idle
    /\ Only

Pass == \/ Start \/ ProjectWorkers \/ ProjectDeletion \/ ProjectStop \/ ProjectFailure
        \/ ProjectUncaptured \/ ProjectRecords \/ ProjectPreparation \/ TryGates \/ ReadWorker
        \/ ReadNode \/ ConfirmGates \/ ProjectPause \/ Unavailable \/ Write
        \/ Conflict

-----------------------------------------------------------------------------
(* Everyone else *)

Spend(k) == budget[k] > 0 /\ budget' = [budget EXCEPT ![k] = @ - 1]

Edit(r) == root' = [r EXCEPT !.gen = @ + 1]

\* Users edit spec.operation, or delete the network.
Pause ==
    /\ root.op \in {"Running", "Paused"} /\ Spend("Pause")
    /\ Edit([root EXCEPT !.op = IF @ = "Running" THEN "Paused" ELSE "Running"])
    /\ UNCHANGED <<clock, chain, live, srv, cache, pass>> /\ Witness

Stop ==
    /\ root.op # "Stopped" /\ Spend("Stop")
    /\ Edit([root EXCEPT !.op = "Stopped"])
    /\ UNCHANGED <<clock, chain, live, srv, cache, pass>> /\ Witness

Delete ==
    /\ ~root.deleting /\ Spend("Delete")
    /\ root' = [root EXCEPT !.deleting = TRUE]
    /\ UNCHANGED <<clock, chain, live, srv, cache, pass>> /\ Witness

\* The foundation lists the worker's identity and captures genesis; processes may then start.
Capture ==
    /\ ~root.genesis /\ root.op = "Running" /\ ~root.failed
    /\ root' = IF root.wrk = "unlisted" THEN [root EXCEPT !.wrk = "none"]
               ELSE [root EXCEPT !.genesis = TRUE, !.phase = "Initializing"]
    /\ UNCHANGED <<clock, chain, live, srv, cache, pass, budget>> /\ Witness

Tick ==
    /\ Spend("Tick") /\ clock' = clock + 1
    /\ UNCHANGED <<chain, live, root, srv, cache, pass>> /\ Witness

\* An informer catches up; the participants share one.
Sync ==
    /\ \/ cache' = [cache EXCEPT !.rec = srv.rec] \/ cache' = [cache EXCEPT !.exe = srv.exe]
       \/ cache' = [cache EXCEPT !.btc = srv.btc, !.wrk = srv.wrk, !.node = srv.node]
    /\ cache' # cache
    /\ UNCHANGED <<clock, chain, live, root, srv, pass, budget>> /\ Witness

mayStart == root.genesis /\ root.op = "Running" /\ ~root.failed /\ ~root.deleting

object(s) ==
    /\ srv' = s
    /\ UNCHANGED <<clock, root, cache, pass>> /\ Witness

\* The control process arms within the released ceiling unless it acknowledged a pause.
Released == IF root.index = NGates THEN Ceiling[NGates] + 1 ELSE Ceiling[root.index + 1]

Arm ==
    /\ live["ctl"] /\ ~srv.exe.armed /\ ~srv.exe.paused /\ root.genesis /\ root.op # "Stopped"
    /\ chain < Released /\ Spend("Block")
    /\ object([srv EXCEPT !.exe = [@ EXCEPT !.armed = TRUE]])
    /\ UNCHANGED <<chain, live>>

Receive ==
    /\ srv.exe.armed /\ chain' = chain + 1
    /\ object([srv EXCEPT !.exe = [@ EXCEPT !.armed = FALSE]])
    /\ UNCHANGED <<live, budget>>

\* Somebody else mines beyond the ceiling.
Exceed ==
    /\ Spend("Exceed") /\ chain' = chain + 1
    /\ UNCHANGED <<clock, live, root, srv, cache, pass>> /\ Witness

\* The control observes its target and acknowledges the operation; a pause only unarmed.
Beat ==
    /\ live["ctl"] /\ srv.btc.proc > 0
    /\ root.op = "Paused" => ~srv.exe.armed
    /\ object([srv EXCEPT !.exe = [@ EXCEPT !.height = chain, !.at = clock, !.proc = srv.btc.proc,
                                 !.ack = root.gen, !.paused = root.op = "Paused"]])
    /\ Spend("Report") /\ UNCHANGED <<chain, live>>

\* The Bitcoin process starts, or is replaced.
Rebind ==
    /\ mayStart
    /\ IF srv.btc.proc = 0 THEN UNCHANGED budget ELSE Spend("Rebind")
    /\ object([srv EXCEPT !.btc = [@ EXCEPT !.proc = srv.btc.proc + 1]])
    /\ live' = [live EXCEPT !["ctl"] = TRUE] /\ UNCHANGED chain

EndControl ==
    /\ root.op = "Stopped" /\ ~srv.exe.armed /\ live["ctl"]
    /\ live' = [live EXCEPT !["ctl"] = FALSE]
    /\ UNCHANGED <<clock, chain, root, srv, cache, pass, budget>> /\ Witness

RecordControl ==
    /\ root.op = "Stopped" /\ ~live["ctl"] /\ (srv.btc.term => srv.btc.gen # root.gen)
    /\ object([srv EXCEPT !.btc = [@ EXCEPT !.term = TRUE, !.gen = root.gen]])
    /\ UNCHANGED <<chain, live, budget>>

\* The production controller keeps the record of the first gate.
Prepare ==
    /\ root.genesis /\ root.index = 0 /\ srv.rec.prepared = 0 /\ ~srv.rec.failed
    /\ LET late == srv.rec.first # 0 /\ clock >= srv.rec.first + Deadline
       IN  \/ /\ chain = Ceiling[1] /\ srv.rec.first = 0
              /\ object([srv EXCEPT !.rec = [@ EXCEPT !.first = clock]])
           \/ /\ chain <= Ceiling[1] /\ ~late
              /\ object([srv EXCEPT !.rec = [@ EXCEPT !.prepared = clock]])
           \/ /\ chain > Ceiling[1] \/ late
              /\ object([srv EXCEPT !.rec = [@ EXCEPT !.failed = TRUE]])
    /\ UNCHANGED <<chain, live, budget>>

StartWorker ==
    /\ mayStart /\ srv.wrk.pod = "none"
    /\ object([srv EXCEPT !.wrk = [@ EXCEPT !.pod = "live"]])
    /\ live' = [live EXCEPT !["wrk"] = TRUE] /\ UNCHANGED <<chain, budget>>

\* What the role of the current gate can report.
roleFact == LET g == IF root.index = NGates THEN NGates ELSE Gate(root)
            IN  <<CASE "pox4" \in needs(g) -> "pox4" [] "pox5" \in needs(g) -> "pox5"
                    [] "contracts" \in needs(g) -> "contracts" [] OTHER -> "none", Cycle[g]>>

\* A report: the fact of the gate, and the operation the worker obeys.
ReportWorker ==
    /\ live["wrk"] /\ root.wrk = "bound" /\ root.op # "Stopped"
    /\ object([srv EXCEPT !.wrk = [@ EXCEPT !.fact = roleFact[1], !.cycle = roleFact[2], !.at = clock,
                                 !.ready = TRUE, !.ack = root.gen, !.paused = root.op = "Paused"]])
    /\ Spend("Report") /\ UNCHANGED <<chain, live>>

\* The fact is withdrawn: a fork, an edit of the policy, a worker that is not ready.
RegressWorker ==
    /\ live["wrk"] /\ srv.wrk.fact # "none" /\ Spend("Regress")
    /\ object([srv EXCEPT !.wrk = [@ EXCEPT !.fact = "none", !.ready = FALSE, !.at = clock]])
    /\ UNCHANGED <<chain, live>>

EndWorker ==
    /\ srv.wrk.pod = "live" /\ root.op = "Stopped" /\ UNCHANGED budget
    /\ object([srv EXCEPT !.wrk = [@ EXCEPT !.pod = "dead"]])
    /\ live' = [live EXCEPT !["wrk"] = FALSE] /\ UNCHANGED chain

\* The Pod is deleted by force; its process may go on.
LoseWorker ==
    /\ srv.wrk.pod = "live" /\ Spend("Lost")
    /\ object([srv EXCEPT !.wrk = [@ EXCEPT !.pod = "lost"]])
    /\ UNCHANGED <<chain, live>>

\* The StatefulSet starts the node, again after a roll and until it is scaled down.
StartNode ==
    /\ ~live["node"] /\ (srv.node.up \/ mayStart)
    /\ object([srv EXCEPT !.node = [@ EXCEPT !.up = TRUE]])
    /\ live' = [live EXCEPT !["node"] = TRUE] /\ UNCHANGED <<chain, budget>>

\* The node's status: alive, with the signer set of the gate's cycle.
ReportNode ==
    /\ live["node"] /\ root.genesis
    /\ object([srv EXCEPT !.node = [@ EXCEPT !.term = FALSE, !.ready = TRUE, !.set = roleFact[2],
                                             !.at = clock]])
    /\ Spend("Report") /\ UNCHANGED <<chain, live>>

RegressNode ==
    /\ live["node"] /\ srv.node.ready /\ Spend("Regress")
    /\ object([srv EXCEPT !.node = [@ EXCEPT !.ready = FALSE]])
    /\ UNCHANGED <<chain, live>>

\* The node's Pod is replaced: its end is recorded before the StatefulSet starts another.
RollNode ==
    /\ live["node"] /\ srv.node.up /\ Spend("Roll")
    /\ object([srv EXCEPT !.node = [@ EXCEPT !.term = TRUE, !.ready = FALSE, !.rolled = TRUE]])
    /\ live' = [live EXCEPT !["node"] = FALSE] /\ UNCHANGED chain

\* shutdown of the actor: scaled to zero, ended, recorded.
ScaleNode ==
    /\ root.op = "Stopped" /\ srv.node.up
    /\ object([srv EXCEPT !.node = [@ EXCEPT !.up = FALSE]])
    /\ UNCHANGED <<chain, live, budget>>

EndNode ==
    /\ ~srv.node.up /\ live["node"]
    /\ live' = [live EXCEPT !["node"] = FALSE]
    /\ UNCHANGED <<clock, chain, root, srv, cache, pass, budget>> /\ Witness

RecordNode ==
    /\ root.op = "Stopped" /\ ~srv.node.up /\ ~live["node"] /\ ~srv.node.term
    /\ object([srv EXCEPT !.node = [@ EXCEPT !.term = TRUE, !.ready = FALSE]])
    /\ UNCHANGED <<chain, live, budget>>

Others == \/ Pause \/ Stop \/ Delete \/ Capture \/ Tick \/ Sync \/ Arm \/ Receive \/ Exceed
          \/ Beat \/ Rebind \/ EndControl \/ RecordControl \/ Prepare \/ StartWorker
          \/ ReportWorker \/ RegressWorker \/ EndWorker \/ LoseWorker \/ StartNode \/ ReportNode
          \/ RegressNode \/ RollNode \/ ScaleNode \/ EndNode \/ RecordNode

Next == Pass \/ Others

Spec == Init /\ [][Next]_vars

-----------------------------------------------------------------------------
(* Properties *)

\* Gate decisions are earned: a pass that completes a gate found, in the API server and since
\* it began, every piece of evidence the gate needs; it completes one at a time; and it
\* latches a failure only for a lost worker, a failed preparation, a height beyond the ceiling
\* that was in the API server, or a first ceiling observation older than the deadline
\* (reconcileGates, projectGates, projectPreparation).
GateDecision ==
    /\ root'.index # root.index =>
          root'.index = root.index + 1 /\ needs(root'.index) \subseteq held
    /\ root'.failed /\ ~root.failed =>
          \/ srv.wrk.pod # "live" \/ srv.rec.failed \/ "over" \in held
          \/ root'.first # 0 /\ clock >= root'.first + Deadline

GateDecisionsEarned == [][GateDecision]_vars

\* Paused is published only when nothing is armed and the control and every bound worker obey
\* the pause; Stopped only when the control and every activated worker have ended, and
\* every actor whose Pod was never replaced (bitcoinPaused, workersPaused,
\* Reconcile).
PhaseDecision ==
    /\ root'.phase = "Paused" /\ root.phase # "Paused" =>
          /\ root.op = "Paused" /\ ~srv.exe.armed /\ srv.exe.paused
          /\ root.wrk = "bound" => srv.wrk.paused
    /\ root'.phase = "Stopped" /\ root.phase # "Stopped" =>
          /\ ~live["ctl"]
          /\ live["wrk"] => root'.wrk = "none"
          /\ live["node"] => srv.node.rolled

PhasesTrue == [][PhaseDecision]_vars

\* Stopped is published only when every actor process has ended (Reconcile, the phase table of
\* the public API: "Terminal shutdown is requested / confirmed").
StoppedConfirmed ==
    [][root'.phase = "Stopped" /\ root.phase # "Stopped" => ~live["node"]]_vars
====

--------------------------- MODULE BitcoinActions ---------------------------
(***************************************************************************)
(* Finite actions on one Bitcoin node: a block generation or a             *)
(* reorganization reserves the execution record, is sent call by call by   *)
(* the node's worker (operators/network/internal/bitcoincontrol), and is   *)
(* reported to the user by the action operator                             *)
(* (operators/action/controllers/foundation), which reads the reservation  *)
(* and writes nothing but the request.                                     *)
(*                                                                         *)
(* Blocks are numbers with a parent, work is height, and a block marked    *)
(* invalid takes its descendants with it.  The arm, confirm, collect and   *)
(* account steps are those of BitcoinWorker, here with what they do to an  *)
(* action.  Cadence only delays a call and is left to the scheduling of    *)
(* the steps; observations are left to BitcoinWorker.                      *)
(***************************************************************************)
EXTENDS Naturals, Sequences, FiniteSets

CONSTANTS Requests,   \* requests, positive numbers in order of creation
          Cases,      \* the requests made and what may happen: one of these in each behaviour
          Base,       \* blocks of the chain at the start
          MaxBlock,   \* bound: blocks ever made
          Ceiling,    \* height at which the current gate refuses further blocks
          None        \* a nil pointer

Kinds == {"Crash", "Lose", "Peer", "Restart", "Delete", "Expire", "Pause", "Stop", "Disable"}

VARIABLES
    chain,    \* Bitcoin Core: the path to every block, the marked ones, the tip
    wire,     \* calls sent and not yet executed
    exec,     \* BitcoinExecution.status: action, armed, drained; exists
    req,      \* the requests
    root,     \* operation of the network, process of the actor, actions enabled
    w,        \* the worker: step, what it read, the operation, its collector
    life,     \* the action operator: step and what it read
    clock,    \* per request: 0 in time, 1 expired, 2 past the cleanup horizon
    made,     \* history: calls executed for each request, by method
    spec,     \* kind and size (blocks or depth) of each request
    budget

vars == <<chain, wire, exec, req, root, w, life, clock, made, spec, budget>>

\* What a request asks for; blocks, or the depth of the replaced suffix.
Wanted == [kind : {"Generation", "Reorganization"}, size : Nat \ {0}]

Bounds ==
    /\ Requests \subseteq Nat \ {0} /\ {Base, MaxBlock, Ceiling} \subseteq Nat
    /\ Cases \subseteq [spec : [Requests -> Wanted \cup {None}], budget : [Kinds -> Nat]]

-----------------------------------------------------------------------------
(* State *)

Methods == {"generate", "invalidate", "reconsider"}

\* BitcoinArmedRPC
Call == [id : Nat, method : Methods, request : Requests]

\* BitcoinActionReservation: stop is StopReason, hash InvalidatedHash
Reservation == [request : Requests, runtime : Nat, started : BOOLEAN, blocks : Nat, last : Nat,
                timely : BOOLEAN, stop : {"", "IdentityDiverged", "Stopped"}, uncertain : BOOLEAN,
                unsafe : BOOLEAN, original : Nat, fork : Nat, hash : Nat, accepted : Nat \cup {None},
                replaced : Seq(Nat), inval : BOOLEAN, clean : BOOLEAN, final : Nat \cup {None}]

Execution == [exists : BOOLEAN, action : Reservation \cup {None}, armed : Call \cup {None},
              drained : BOOLEAN]

Phases == {"", "Pending", "Admitted", "Active", "Recovering", "Completed", "Failed", "Inconclusive"}

\* BitcoinBlockGenerationStatus; nothing is status.reason NoDispatch
Request == [state : {"absent", "live", "deleting", "gone"}, fin : BOOLEAN, phase : Phases,
            adm : BOOLEAN, blocks : Nat, last : Nat, clean : BOOLEAN, nothing : BOOLEAN]

\* A nil pointer is none of the values it may stand for.
Nil == None \notin Nat \cup Wanted \cup Call \cup Reservation \cup Execution \cup Request

NoRequest == [state |-> "absent", fin |-> FALSE, phase |-> "", adm |-> FALSE, blocks |-> 0,
              last |-> 0, clean |-> FALSE, nothing |-> FALSE]

Idle == [pc |-> "idle", exec |-> None, method |-> "generate", request |-> 0, active |-> None,
         got |-> None]
NoLife == [pc |-> "idle", request |-> 0, copy |-> None, exec |-> None]

\* The values every variable may take.
TypeOK ==
    /\ chain.path \in Seq(Seq(1..Len(chain.path))) /\ chain.tip \in 0..Len(chain.path)
    /\ chain.marked \subseteq 1..Len(chain.path) /\ wire \subseteq Call
    /\ exec \in Execution /\ req \in [Requests -> Request]
    /\ root \in [mode : {"Running", "Paused", "Stopped", "Deleting", "Gone"}, actor : Nat,
                 enabled : BOOLEAN]
    /\ w.pc \in {"idle", "decide", "reserve", "arm", "confirm", "withdraw"}
    /\ w.exec \in Execution \cup {None} /\ w.active \in Call \cup {None}
    /\ life.pc \in {"idle", "exec", "write"} /\ life.copy \in Request \cup {None}
    /\ clock \in [Requests -> 0..2] /\ made \in [Requests -> [Methods -> Nat]]
    /\ budget \in [Kinds -> Nat]

Init ==
    /\ chain = [path |-> [i \in 1..Base |-> [j \in 1..i |-> j]], marked |-> {}, tip |-> Base]
    /\ wire = {}
    /\ exec = [exists |-> TRUE, action |-> None, armed |-> None, drained |-> FALSE]
    /\ req = [r \in Requests |-> NoRequest]
    /\ root = [mode |-> "Running", actor |-> 1, enabled |-> TRUE]
    /\ w = Idle /\ life = NoLife
    /\ clock = [r \in Requests |-> 0]
    /\ made = [r \in Requests |-> [m \in Methods |-> 0]]
    /\ \E c \in Cases : spec = c.spec /\ budget = c.budget

-----------------------------------------------------------------------------
(* Bitcoin Core *)

\* The blocks from the first after the genesis (0) to b; work is height.
line(c, b) == IF b = 0 THEN <<>> ELSE c.path[b]
height(c, b) == Len(line(c, b))

valid(c, b) == \A i \in 1..height(c, b) : line(c, b)[i] \notin c.marked

\* A chain of most work: the tip stays when it is one.
activated(c) ==
    LET blocks == {b \in 0..Len(c.path) : valid(c, b)}
        best   == {b \in blocks : \A d \in blocks : height(c, d) <= height(c, b)}
    IN {[c EXCEPT !.tip = b] : b \in IF c.tip \in best THEN {c.tip} ELSE best}

\* A block on top of b.
extended(c, b) == [c EXCEPT !.path = Append(@, Append(line(c, b), Len(c.path) + 1))]

executed(call) ==
    CASE call.method = "generate" ->
           {[extended(chain, chain.tip) EXCEPT !.tip = Len(chain.path) + 1]}
      [] call.method = "invalidate" ->
           activated([chain EXCEPT !.marked = @ \cup {exec.action.hash}])
      [] call.method = "reconsider" ->
           activated([chain EXCEPT !.marked = @ \ {exec.action.hash}])

-----------------------------------------------------------------------------
(* Requests and reservations *)

exists(r) == r # 0 /\ req[r].state \in {"live", "deleting"}
IsTerminalPhase(phase) == phase \in {"Completed", "Failed", "Inconclusive"}
reorganizes(a) == spec[a.request].kind = "Reorganization"
quota(r) == IF spec[r].kind = "Reorganization" THEN spec[r].size + 1 ELSE spec[r].size

actionFinished(a) == IF reorganizes(a) THEN a.final # None ELSE a.blocks >= quota(a.request)

\* No marker of the action is left on the chain, as far as its receipts tell.
compensated(a) == ~reorganizes(a) \/ ~a.inval \/ a.clean

stopped == root.mode \in {"Stopped", "Deleting", "Gone"}

\* actionAdmissionAcknowledged: the request retains the admission before the first send.
actionAdmissionAcknowledged(r) == req[r].fin /\ req[r].adm

\* actionCeiling
belowCeiling == height(chain, chain.tip) < Ceiling

eligible(r) ==
    /\ req[r].state = "live" /\ req[r].fin /\ ~req[r].adm /\ ~IsTerminalPhase(req[r].phase)
    /\ clock[r] = 0

\* The block depth steps below the tip.
below(depth) ==
    LET h == height(chain, chain.tip) IN
    IF depth = h THEN 0 ELSE line(chain, chain.tip)[h - depth]

\* captureReorganization: a suffix of the only chain, with no branch marked.
capturable(r) ==
    spec[r].kind = "Reorganization" =>
      chain.marked = {} /\ height(chain, chain.tip) >= spec[r].size

captured(r) ==
    LET reorg == spec[r].kind = "Reorganization"
        depth == IF reorg THEN spec[r].size ELSE 0
    IN [request |-> r, runtime |-> root.actor, started |-> FALSE, blocks |-> 0, last |-> 0,
        timely |-> TRUE, stop |-> "", uncertain |-> FALSE, unsafe |-> FALSE,
        original |-> chain.tip, fork |-> below(depth),
        hash |-> IF reorg THEN below(depth - 1) ELSE 0,
        accepted |-> None, replaced |-> <<>>, inval |-> FALSE, clean |-> FALSE, final |-> None]

tipExpected(a, replacement) ==
    IF ~replacement THEN a.original ELSE IF a.accepted # None THEN a.accepted ELSE a.fork

verified(a) == height(chain, tipExpected(a, TRUE)) - height(chain, a.fork)

\* reorganizationPreflight
chainUnmoved(a, replacement) ==
    /\ replacement => verified(a) = a.blocks
    /\ chain.tip = tipExpected(a, replacement)

\* authorizeMutation, with the request and the chain as they are now
authorizeMutation(a, method) ==
    /\ ~a.unsafe /\ root.actor = a.runtime
    /\ IF method = "reconsider"
       THEN /\ root.mode \notin {"Deleting", "Gone"}
            /\ reorganizes(a) /\ a.inval /\ ~a.clean /\ clock[a.request] < 2
       ELSE /\ root.enabled /\ root.mode = "Running" /\ belowCeiling
            /\ a.stop = "" /\ ~a.uncertain /\ clock[a.request] = 0
            /\ req[a.request].state = "live" /\ ~IsTerminalPhase(req[a.request].phase)
            /\ actionAdmissionAcknowledged(a.request)
            /\ IF method = "invalidate"
               THEN reorganizes(a) /\ ~a.inval /\ chainUnmoved(a, FALSE)
               ELSE /\ a.blocks < quota(a.request)
                    /\ reorganizes(a) => a.inval /\ ~a.clean /\ chainUnmoved(a, TRUE)

\* accountActionReceipt: progress moves in the write that consumes the armed slot.
accountActionReceipt(a, call, block) ==
    [a EXCEPT !.last = call.id,
              !.timely = clock[a.request] = 0 /\ req[a.request].state = "live",
              !.blocks = IF call.method = "generate" THEN @ + 1 ELSE @,
              !.replaced = IF call.method = "generate" /\ reorganizes(a)
                           THEN Append(@, block) ELSE @,
              !.inval = @ \/ call.method = "invalidate",
              !.clean = @ \/ call.method = "reconsider"]

-----------------------------------------------------------------------------
(* Worker.selectAction *)

aside == <<chain, wire, req, root, life, clock, made, spec, budget>>

Candidate(r) ==
    /\ w.pc = "idle" /\ exec.exists /\ exec.action = None /\ exec.armed = None
    /\ root.enabled /\ root.mode = "Running"
    /\ eligible(r) /\ belowCeiling /\ capturable(r)
    /\ \A q \in Requests : q < r => ~(eligible(q) /\ capturable(q))
    /\ w' = [w EXCEPT !.pc = "reserve", !.exec = [exec EXCEPT !.action = captured(r)],
                      !.request = r]
    /\ UNCHANGED <<aside, exec>>

\* The target and the request are read again before the record is written.
Reserve ==
    /\ w.pc = "reserve" /\ exec.action = None /\ exec.armed = None
    /\ root.mode = "Running" /\ root.actor = w.exec.action.runtime /\ eligible(w.request)
    /\ exec.exists /\ exec' = w.exec
    /\ w' = [w EXCEPT !.pc = "idle", !.exec = None, !.request = 0]
    /\ UNCHANGED aside

-----------------------------------------------------------------------------
(* Worker.stepAction *)

\* The record a step starts from.
ReadRecord ==
    /\ w.pc = "idle" /\ exec.exists /\ exec.action # None
    /\ w' = [w EXCEPT !.pc = "decide", !.exec = exec]
    /\ UNCHANGED <<aside, exec>>

Done == [w EXCEPT !.pc = "idle", !.exec = None, !.method = "generate"]

\* Status().Update of the record the step read.
Write(record) ==
    /\ exec = w.exec /\ exec' = record /\ w' = Done /\ UNCHANGED aside

Hold == w' = Done /\ UNCHANGED <<aside, exec>>

Prepare(method) ==
    /\ w' = [w EXCEPT !.pc = "arm", !.method = method]
    /\ UNCHANGED <<aside, exec>>

\* stopAction
stopAction(record, reason, unsafe) ==
    [record EXCEPT !.action.stop = IF @ = "" THEN reason ELSE @,
                   !.action.unsafe = @ \/ unsafe]

\* stop: the drain records what is still outstanding against the action.
Drain ==
    /\ IF exec.drained \/ ~exec.exists THEN UNCHANGED exec
       ELSE LET outstanding == exec.armed # None \/ w.active # None
                left == [exec.action EXCEPT !.stop = IF @ = "" THEN "Stopped" ELSE @,
                                            !.uncertain = @ \/ outstanding,
                                            !.unsafe = @ \/ ~compensated(exec.action)]
            IN exec' = [exec EXCEPT !.drained = TRUE,
                                    !.action = IF exec.action = None THEN None ELSE left]
    /\ w' = Done /\ UNCHANGED aside

acknowledged(a) ==
    LET r == req[a.request] IN
    /\ exists(a.request) /\ IsTerminalPhase(r.phase) /\ r.last = a.last /\ r.blocks = a.blocks
    /\ reorganizes(a) => r.clean = a.clean

\* Faulty variant: a call without a collector is taken for one that was not sent.
outstandingForgotten(record) == [record EXCEPT !.armed = None]

\* A call that no collector of this process waits for.
outstandingUncertain(record) == [record EXCEPT !.action.uncertain = TRUE]

\* Faulty variant: the reservation goes with its request, marker or not.
releasedAtOnce(a) == ~exists(a.request) \/ acknowledged(a)

released(a) == compensated(a) /\ (~exists(a.request) \/ acknowledged(a))

\* The reason a step finds to stop the action.
stopping(a) ==
    \/ ~root.enabled
    \/ ~exists(a.request) \/ req[a.request].state = "deleting"
    \/ root.mode = "Paused" /\ ~compensated(a)
    \/ stopped
    \/ IsTerminalPhase(req[a.request].phase)
    \/ clock[a.request] > 0 /\ ~actionFinished(a)

\* verifyReplacement: the next receipt, when it is a child of the last verified block.
replacementHeader(a) ==
    LET b == a.replaced[verified(a) + 1] IN
    {b} \cap {d \in 1..Len(chain.path) :
               line(chain, d) = Append(line(chain, tipExpected(a, TRUE)), d)}

\* The replacement is complete, has more work and is what the node reports.
replacementFinal(a) ==
    /\ a.blocks = quota(a.request) /\ a.accepted # None
    /\ height(chain, a.accepted) > height(chain, a.original)
    /\ height(chain, chain.tip) > height(chain, a.original)
    /\ \A i \in 1..a.blocks : /\ height(chain, a.fork) + i <= height(chain, chain.tip)
                             /\ line(chain, chain.tip)[height(chain, a.fork) + i] = a.replaced[i]

stepReorganization(record) ==
    LET a == record.action
        cleanup == a.inval /\ (a.stop # "" \/ a.uncertain \/ a.blocks >= quota(a.request))
    IN IF a.final # None \/ (~a.inval /\ (a.stop # "" \/ a.uncertain)) THEN Hold
       ELSE IF root.mode = "Deleting" \/ (stopped /\ ~cleanup /\ ~a.clean) THEN Hold
       ELSE IF root.actor # a.runtime THEN Write(stopAction(record, "IdentityDiverged", TRUE))
       ELSE IF a.inval /\ ~a.clean /\ clock[a.request] = 2
            THEN Write(stopAction(record, "Stopped", TRUE))
       ELSE IF a.inval /\ a.stop = "" /\ verified(a) < a.blocks
            THEN IF replacementHeader(a) = {} THEN Write(stopAction(record, "Stopped", FALSE))
                 ELSE \E b \in replacementHeader(a) : Write([record EXCEPT !.action.accepted = b])
       ELSE IF a.clean
            THEN IF a.stop # "" \/ a.uncertain THEN Hold
                 ELSE IF replacementFinal(a) THEN Write([record EXCEPT !.action.final = chain.tip])
                 ELSE Write(stopAction(record, "Stopped", TRUE))
       ELSE IF cleanup THEN Prepare("reconsider")
       ELSE IF ~exists(a.request) \/ ~actionAdmissionAcknowledged(a.request) THEN Hold
       ELSE Prepare(IF a.inval THEN "generate" ELSE "invalidate")

stepGeneration(record) ==
    LET a == record.action IN
    IF a.stop # "" \/ a.uncertain \/ actionFinished(a) THEN Hold
    ELSE IF ~exists(a.request) \/ ~actionAdmissionAcknowledged(a.request) THEN Hold
    ELSE IF root.actor # a.runtime THEN Write(stopAction(record, "IdentityDiverged", FALSE))
    ELSE Prepare("generate")

StepAction ==
    LET record == w.exec
        a == record.action
    IN
    /\ w.pc = "decide" /\ exec.exists
    /\ IF root.mode = "Deleting" THEN Drain
       ELSE IF record.armed # None
            THEN IF w.active = None /\ ~a.uncertain THEN Write(outstandingUncertain(record))
                 ELSE IF stopped THEN Drain ELSE Hold
       ELSE IF released(a) THEN Write([record EXCEPT !.action = None])
       ELSE IF stopping(a) /\ a.stop = "" THEN Write(stopAction(record, "Stopped", FALSE))
       ELSE IF a.unsafe THEN IF stopped THEN Drain ELSE Hold
       ELSE IF root.mode = "Paused" /\ compensated(a) THEN Hold
       ELSE IF reorganizes(a) THEN stepReorganization(record) ELSE stepGeneration(record)

-----------------------------------------------------------------------------
(* Worker.arm, collect and account *)

Arm ==
    LET a == exec.action
        call == [id |-> a.last + 1, method |-> w.method, request |-> a.request]
    IN
    /\ w.pc = "arm" /\ w.active = None /\ exec.exists /\ ~exec.drained
    /\ a # None /\ exec.armed = None
    /\ authorizeMutation(a, w.method) /\ Len(chain.path) < MaxBlock
    /\ exec' = [exec EXCEPT !.armed = call, !.action.started = TRUE]
    /\ w' = [w EXCEPT !.pc = "confirm", !.exec = exec']
    /\ UNCHANGED aside

\* armReorganization: a chain that moved ends the action, a failed read does not.
ChainMoved ==
    LET a == exec.action IN
    /\ w.pc = "arm" /\ w.method # "reconsider" /\ exec.exists /\ a # None /\ exec.armed = None
    /\ reorganizes(a) /\ ~chainUnmoved(a, w.method = "generate")
    /\ exec' = stopAction(exec, "Stopped", FALSE) /\ w' = Done
    /\ UNCHANGED aside

\* The authority is read again after the write; only then is the call sent.
Confirm ==
    /\ w.pc = "confirm" /\ authorizeMutation(w.exec.action, w.method)
    /\ wire' = wire \cup {w.exec.armed}
    /\ w' = [Done EXCEPT !.active = w.exec.armed]
    /\ UNCHANGED <<chain, exec, req, root, life, clock, made, spec, budget>>

\* withdraw: an authorization that was not sent is taken back.
Withdraw ==
    /\ w.pc = "confirm" /\ ~authorizeMutation(w.exec.action, w.method)
    /\ exec.exists /\ exec.armed = w.exec.armed
    /\ exec' = IF reorganizes(exec.action) /\ w.method # "reconsider"
                  /\ ~chainUnmoved(w.exec.action, w.method = "generate")
               THEN [stopAction(exec, "Stopped", FALSE) EXCEPT !.armed = None]
               ELSE [exec EXCEPT !.armed = None]
    /\ w' = Done /\ UNCHANGED aside

\* mutate: the node executes a call, and answers the process that sent it.
Execute(call) ==
    /\ call \in wire /\ exec.exists
    /\ chain' \in executed(call)
    /\ wire' = wire \ {call}
    /\ made' = [made EXCEPT ![call.request][call.method] = @ + 1]
    /\ w' = IF w.active = call THEN [w EXCEPT !.got = Len(chain'.path)] ELSE w
    /\ UNCHANGED <<exec, req, root, life, clock, spec, budget>>

\* account: the receipt takes the armed slot.
Account ==
    /\ w.got # None /\ exec.exists /\ exec.armed = w.active
    /\ exec' = [exec EXCEPT !.armed = None,
                            !.action = accountActionReceipt(@, w.active, w.got)]
    /\ w' = [w EXCEPT !.active = None, !.got = None]
    /\ UNCHANGED aside

\* A failed call, a conflict or an unreadable authority: the step is tried again.
Abort ==
    /\ w.pc # "idle"
    /\ w' = [Idle EXCEPT !.active = w.active, !.got = w.got]
    /\ UNCHANGED <<aside, exec>>

Worker ==
    \/ (\E r \in Requests : Candidate(r)) \/ Reserve \/ ReadRecord \/ StepAction
    \/ Arm \/ ChainMoved \/ Confirm \/ Withdraw \/ Account \/ Abort
    \/ \E call \in wire : Execute(call)

-----------------------------------------------------------------------------
(* The action operator: Reconciler.Reconcile *)

apart == <<chain, wire, exec, root, w, clock, made, spec, budget>>

ReadRequest(r) ==
    /\ life.pc = "idle" /\ exists(r)
    /\ life' = [NoLife EXCEPT !.pc = "exec", !.request = r, !.copy = req[r]]
    /\ UNCHANGED <<apart, req>>

unguarded == life.copy.state = "live" /\ ~life.copy.fin /\ ~IsTerminalPhase(life.copy.phase)

AddFinalizer ==
    /\ life.pc = "exec" /\ unguarded /\ req[life.request] = life.copy
    /\ req' = [req EXCEPT ![life.request].fin = TRUE] /\ life' = NoLife
    /\ UNCHANGED apart

ReadExecution ==
    /\ life.pc = "exec" /\ ~unguarded
    /\ life' = [life EXCEPT !.pc = "write", !.exec = exec]
    /\ UNCHANGED <<apart, req>>

\* The record that was read reserves the request; a missing one proves nothing.
bound == life.exec.exists /\ life.exec.action # None /\ life.exec.action.request = life.request
available == life.copy.adm => life.exec.exists
disposed == root.mode \in {"Deleting", "Gone"}

finish(status, phase) == IF IsTerminalPhase(status.phase) THEN status ELSE [status EXCEPT !.phase = phase]

copyEvidence(status) ==
    LET a == life.exec.action IN
    [status EXCEPT !.adm = TRUE, !.blocks = a.blocks, !.last = a.last, !.clean = a.clean]

\* Everything that was asked for has a receipt, in time.
complete(a) ==
    IF reorganizes(a) THEN a.final # None /\ a.clean
    ELSE a.blocks = quota(a.request) /\ a.timely

\* project: the first terminal phase stays.
project(status) ==
    LET a == life.exec.action
        armed == life.exec.armed
        late == clock[life.request] > 0
    IN IF IsTerminalPhase(status.phase) THEN status
       ELSE IF a.uncertain \/ a.unsafe THEN finish(status, "Inconclusive")
       ELSE IF complete(a) /\ armed = None /\ a.stop = "" THEN finish(status, "Completed")
       ELSE IF (late \/ life.copy.state = "deleting") /\ armed # None
            THEN IF armed.method = "reconsider" /\ clock[life.request] < 2
                 THEN [status EXCEPT !.phase = "Recovering"] ELSE finish(status, "Inconclusive")
       ELSE IF ~compensated(a) /\ clock[life.request] = 2 THEN finish(status, "Inconclusive")
       ELSE IF a.stop # "" /\ armed = None
            THEN IF ~compensated(a) THEN [status EXCEPT !.phase = "Recovering"]
                 ELSE finish(status, IF a.stop = "IdentityDiverged" /\ a.started
                                     THEN "Inconclusive" ELSE "Failed")
       ELSE [status EXCEPT !.phase = IF a.started THEN "Active" ELSE "Admitted"]

\* A request that no reservation names.
unbound(status) ==
    LET ended == life.copy.state = "deleting" \/ clock[life.request] > 0 IN
    IF IsTerminalPhase(status.phase) THEN status
    ELSE IF status.adm THEN finish(status, "Inconclusive")
    ELSE IF ended /\ available THEN [finish(status, "Failed") EXCEPT !.nothing = TRUE]
    ELSE IF ended THEN finish(status, "Inconclusive")
    ELSE [status EXCEPT !.phase = "Pending"]

projected ==
    IF ~bound THEN unbound(life.copy)
    ELSE IF disposed THEN finish(copyEvidence(life.copy), "Inconclusive")
    ELSE project(copyEvidence(life.copy))

\* The status first; the finalizer of a settled request when the status is what it was.
ReportAction ==
    LET settled == IsTerminalPhase(projected.phase) /\ (disposed \/ (~bound /\ available))
        closed  == [life.copy EXCEPT !.fin = FALSE,
                                     !.state = IF @ = "deleting" THEN "gone" ELSE @]
    IN
    /\ life.pc = "write" /\ req[life.request] = life.copy
    /\ req' = [req EXCEPT ![life.request] = IF projected # life.copy THEN projected
                                            ELSE IF settled /\ life.copy.fin THEN closed
                                            ELSE life.copy]
    /\ life' = NoLife
    /\ UNCHANGED apart

\* A conflict, a failed call or a restart.
AbortLife ==
    /\ life.pc # "idle" /\ life' = NoLife
    /\ UNCHANGED <<apart, req>>

Operator ==
    (\E r \in Requests : ReadRequest(r)) \/ AddFinalizer \/ ReadExecution \/ ReportAction \/ AbortLife

-----------------------------------------------------------------------------
(* Users, time and failures *)

Take(k) == budget[k] > 0 /\ budget' = [budget EXCEPT ![k] = @ - 1]

Create(r) ==
    /\ spec[r] # None /\ req[r].state = "absent"
    /\ req' = [req EXCEPT ![r].state = "live"]
    /\ UNCHANGED <<apart, life>>

Delete(r) ==
    /\ req[r].state = "live" /\ Take("Delete")
    /\ req' = [req EXCEPT ![r].state = IF req[r].fin THEN "deleting" ELSE "gone"]
    /\ UNCHANGED <<chain, wire, exec, root, w, life, clock, made, spec>>

Expire(r) ==
    /\ exists(r) /\ clock[r] < 2 /\ Take("Expire")
    /\ clock' = [clock EXCEPT ![r] = @ + 1]
    /\ UNCHANGED <<chain, wire, exec, req, root, w, life, made, spec>>

EditRoot ==
    /\ \/ root.mode = "Running" /\ Take("Pause") /\ root' = [root EXCEPT !.mode = "Paused"]
       \/ root.mode = "Paused" /\ UNCHANGED budget /\ root' = [root EXCEPT !.mode = "Running"]
       \/ /\ root.mode \in {"Running", "Paused"} /\ Take("Stop")
          /\ \E m \in {"Stopped", "Deleting"} : root' = [root EXCEPT !.mode = m]
       \/ root.enabled /\ Take("Disable") /\ root' = [root EXCEPT !.enabled = FALSE]
    /\ UNCHANGED <<chain, wire, exec, req, w, life, clock, made, spec>>

\* The deleted network takes its records with it.
Dispose ==
    /\ root.mode = "Deleting" /\ root' = [root EXCEPT !.mode = "Gone"]
    /\ exec' = [exec EXCEPT !.exists = FALSE]
    /\ UNCHANGED <<chain, wire, req, w, life, clock, made, spec, budget>>

Crash ==
    /\ w # Idle /\ Take("Crash") /\ w' = Idle
    /\ UNCHANGED <<chain, wire, exec, req, root, life, clock, made, spec>>

\* The answer to a call is lost.
Lose ==
    /\ w.active # None /\ w.got = None /\ Take("Lose")
    /\ w' = [w EXCEPT !.active = None]
    /\ UNCHANGED <<chain, wire, exec, req, root, life, clock, made, spec>>

\* The actor restarts: calls it has not executed are gone.
Restart ==
    /\ Take("Restart") /\ root' = [root EXCEPT !.actor = @ + 1] /\ wire' = {}
    /\ w' = IF w.got = None THEN [w EXCEPT !.active = None] ELSE w
    /\ UNCHANGED <<chain, exec, req, life, clock, made, spec>>

\* A peer's block, on the tip or on the branch the action replaces.
Peer ==
    /\ Len(chain.path) < MaxBlock /\ Take("Peer")
    /\ \E b \in {chain.tip} \cup (IF exec.action = None THEN {} ELSE {exec.action.original}) :
         chain' \in activated(extended(chain, b))
    /\ UNCHANGED <<wire, exec, req, root, w, life, clock, made, spec>>

Next ==
    \/ Worker \/ Operator
    \/ \E r \in Requests : Create(r) \/ Delete(r) \/ Expire(r)
    \/ EditRoot \/ Dispose \/ Crash \/ Lose \/ Restart \/ Peer

Spec == Init /\ [][Next]_vars

\* Every step of the worker and of the operator ends, with a failure at least; calls that are
\* possible again and again succeed at last, and the node answers.
FairSpec ==
    /\ Spec
    /\ WF_vars(Abort) /\ WF_vars(AbortLife)
    /\ SF_vars(\E r \in Requests : Candidate(r)) /\ SF_vars(Reserve)
    /\ SF_vars(ReadRecord) /\ SF_vars(StepAction) /\ SF_vars(Arm) /\ SF_vars(Confirm)
    /\ SF_vars(Withdraw) /\ SF_vars(Account) /\ WF_vars(\E call \in wire : Execute(call))
    /\ SF_vars(\E r \in Requests : ReadRequest(r)) /\ SF_vars(AddFinalizer)
    /\ SF_vars(ReadExecution) /\ SF_vars(ReportAction)

-----------------------------------------------------------------------------
(* Properties *)

\* A block that an action marked invalid stays in the hands of that action: its reservation
\* is kept, whatever becomes of the request, until the marker was taken back.
MarkerOwned ==
    exec.exists /\ chain.marked # {} => exec.action # None /\ chain.marked = {exec.action.hash}

\* What a request reports is what was done: never more calls than were asked for, a completed
\* one has all its blocks, a settled one has no call under way and no marker left, and one
\* that reports no dispatch never had a call sent.
OutcomeTrue ==
    \A r \in Requests :
      LET sent == {c \in wire : c.request = r}
          total(m) == made[r][m] + Cardinality({c \in sent : c.method = m})
          owns == exec.exists /\ exec.action # None /\ exec.action.request = r
      IN spec[r] # None =>
         /\ total("generate") <= quota(r) /\ total("invalidate") <= 1 /\ total("reconsider") <= 1
         /\ req[r].phase = "Completed" => made[r]["generate"] = quota(r)
         /\ req[r].phase \in {"Completed", "Failed"} => sent = {} /\ (owns => chain.marked = {})
         /\ req[r].nothing => \A m \in Methods : total(m) = 0

\* A reservation is released only when its request, if it still exists, reports every receipt;
\* a replacement that is recorded as final is the unbroken branch of its receipts above the
\* captured fork, whatever moved the chain between two calls.
EvidencePublished ==
    /\ \A r \in Requests :
         LET owns == exec.action # None /\ exec.action.request = r IN
         exec.exists /\ exists(r) /\ req[r].adm /\ ~owns =>
           IsTerminalPhase(req[r].phase) /\ req[r].blocks = made[r]["generate"]
    /\ exec.action # None /\ exec.action.final # None =>
         LET a == exec.action IN
         line(chain, a.accepted) = line(chain, a.fork) \o a.replaced

\* docs/design/actions.md: every action is bounded by its timeout.  A request whose time is
\* over reaches a terminal phase.
ActionEnds ==
    \A r \in Requests :
      (exists(r) /\ clock[r] > 0) ~> (IsTerminalPhase(req[r].phase) \/ ~exists(r))
=============================================================================

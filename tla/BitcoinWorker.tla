--------------------------- MODULE BitcoinWorker ---------------------------
(***************************************************************************)
(* The per-node Bitcoin control worker of                                  *)
(* operators/network/internal/bitcoincontrol: the processes that share one *)
(* BitcoinExecution record through the Kubernetes API, and the one Armed   *)
(* slot of that record through which every native mutation is sent.        *)
(* The deployment profile is the one with finite actions disabled          *)
(* (WorkerInput.ActionsEnabled and ReorganizationEnabled false), so that   *)
(* status.action stays nil and the reservation owner is always the         *)
(* initialization.                                                         *)
(*                                                                         *)
(* A process p is one incarnation: a restart is another member of Procs    *)
(* with its own nonce.  Several may be alive at once.  Every API read and  *)
(* every native call is a step of its own unless nothing can come between. *)
(***************************************************************************)
EXTENDS Naturals, FiniteSets

CONSTANTS Procs,       \* incarnations of the control process (process nonces)
          None,        \* a nil pointer
          Ceiling,     \* BitcoinCeiling of the current bootstrap gate
          Edits,       \* edits of the root the environment makes
          Batch,       \* most blocks one offer may carry (batchLimit)
          MaxOffer,    \* bound: offers selected by the scheduler
          MaxArms,     \* bound: arms attempted by one process
          MaxGen,      \* bound: generations of the root
          MaxActor,    \* bound: restarts of the actor process
          MaxExternal  \* bound: blocks that peers add to the chain

ASSUME BoundsAssumption ==
    {Ceiling, Batch, MaxOffer, MaxArms, MaxGen, MaxActor, MaxExternal} \subseteq Nat

Offer == [number : Nat, height : Nat, blocks : Nat]

\* An armed RPC: generation of an offer's blocks, or a wallet operation (no offer).
Request == [proc : Procs, seq : Nat, offer : Offer \cup {None}, actor : Nat]

ASSUME EditsAssumption == Edits \subseteq {"Pause", "Select", "NetworkFailed",
                                          "NetworkDeleting", "NetworkStopped"}

Reasons == {"NetworkFailed", "NetworkDeleting", "NetworkStopped", "ParticipantRemoved"}

\* The reason a drain records is never read back.
Drain == [nonce : Procs, gen : Nat, outcome : {"Drained", "Uncertain"}]

Control == [nonce : Procs, gen : Nat]

Record == [armed : Request \cup {None},      \* status.armed
           last : Request \cup {None},       \* status.lastReceipt.request
           offer : Offer \cup {None},        \* spec.offer
           completed : Nat,                  \* status.completedOffer
           blocks : Nat,                     \* status.blocksGenerated
           obs : Nat \cup {None},            \* status.observation.height
           control : Control \cup {None},    \* status.control
           drain : Drain \cup {None}]        \* status.drain

ASSUME NoneAssumption == None \notin Offer /\ None \notin Request /\ None \notin Record

Note == [gen : Nat, height : Nat, actor : Nat]

VARIABLES net,       \* StacksNetwork and participant: operation, selection, actor process
          rec,       \* the BitcoinExecution record held by the API server
          fresh,     \* processes whose copy of rec carries its resourceVersion
          late,      \* arm writes given up by their sender that may still commit
          issued,    \* BitcoinInitialization.status.offer
          cursor,    \* BitcoinInitialization.status.lastAccountedOffer
          height,    \* height of the node's chain
          external,  \* blocks added by peers
          wallet,    \* whether every wallet of the node is as intended
          pc,        \* where Step of each process is
          view,      \* copy of the record held by Step
          op,        \* operation Step wants to arm
          note,      \* what Step read of the root and of the chain
          closed,    \* Worker.closed
          cancelled, \* the receiver context was cancelled by an exhausted drain
          seq,       \* arm identities each process has used
          col,       \* the collector goroutine
          req,       \* its request
          sent, executed, accounted  \* requests handed to the transport, run by Core, counted

netVars  == <<net>>
slotVars == <<rec, fresh, late>>
initVars == <<issued, cursor>>
coreVars == <<height, external, wallet, executed>>
stepVars == <<pc, view, op, note>>
lifeVars == <<closed, cancelled, seq>>
colVars  == <<col, req>>
vars == <<net, rec, fresh, late, issued, cursor, height, external, wallet, pc, view, op,
          note, closed, cancelled, seq, col, req, sent, executed, accounted>>

-----------------------------------------------------------------------------
(* Reading the root and the record *)

ArmPcs == {"authorize", "preflight", "cas", "confirm", "withdraw"}

PcLabels == {"off", "idle", "stop", "drain", "pause", "ack", "observe", "publish", "arm",
             "exit", "dead"} \cup ArmPcs

Alive(p) == pc[p] \notin {"off", "dead"}

\* Worker.active: reserved by arm, kept by the collector, freed by release.
Active(p) == pc[p] \in ArmPcs \/ col[p] # "none"

stopReason == IF net.closing # "" THEN net.closing
              ELSE IF net.removing \/ ~net.selected THEN "ParticipantRemoved"
              ELSE ""

\* resolveActor without cleanup: exact current identity of a selected actor.
authorizeObservation == stopReason = ""

authorize == authorizeObservation /\ ~net.paused

terminalDrainAcknowledged(r) == r.drain # None /\ r.drain.gen <= net.gen

\* Generating the offer's blocks from height h ends at or below the ceiling.
BelowCeiling(o, h) == h < Ceiling /\ o.blocks <= Ceiling - h

\* Part of authorizeOffer that the offer itself decides; expiry, production and
\* gate readiness are choices of the environment (see Refuse).
offerCountAuthorized(o) == o.blocks \in 1 .. Batch /\ BelowCeiling(o, o.height)

authorizeOffer(o) == o.number >= 1 /\ offerCountAuthorized(o) /\ issued = o

generationAccounted(r) ==
    r.last # None /\ r.last.offer # None => cursor >= r.completed

\* Faulty variant: a Drained acknowledgement is believed whatever was armed since.
CheckDrainedTrusting == stopReason # "" /\ terminalDrainAcknowledged(rec)

CheckDrained ==
    /\ stopReason # ""
    /\ \/ net.closing = "NetworkDeleting" /\ net.terminated = net.gen
       \/ rec.armed = None /\ rec.obs = None /\ rec.last = None
       \/ /\ terminalDrainAcknowledged(rec)
          /\ \/ rec.drain.outcome = "Uncertain"
             \/ rec.drain.outcome = "Drained" /\ rec.armed = None

\* A Step that found the root paused observes without planning any mutation.
Pausing(p) == note[p].gen # 0

NewRequest(p, o, actor) == [proc |-> p, seq |-> seq[p], offer |-> o, actor |-> actor]

-----------------------------------------------------------------------------
(* Writing the record: an update commits only over the version it was read from *)

NoNote == [gen |-> 0, height |-> 0, actor |-> 0]

\* A read and the update that follows it with nothing read in between.
ReadModifyWrite(r) == rec' = r /\ fresh' = {} /\ late' = {}

\* Status().Update of the copy held by p, refused on a newer version.
Update(p, r) == p \in fresh /\ ReadModifyWrite(r)

\* Step returns; its copy and plan are garbage.
Return(p) ==
    /\ pc' = [pc EXCEPT ![p] = "idle"]
    /\ view' = [view EXCEPT ![p] = None]
    /\ op' = [op EXCEPT ![p] = None]
    /\ note' = [note EXCEPT ![p] = NoNote]

ReturnUnwritten(p) == Return(p) /\ fresh' = fresh \ {p} /\ UNCHANGED <<rec, late>>

Goto(p, label) == pc' = [pc EXCEPT ![p] = label]

-----------------------------------------------------------------------------
Init ==
    /\ net = [paused |-> FALSE, closing |-> "", gen |-> 1, selected |-> TRUE,
              removing |-> FALSE, terminated |-> 0, actor |-> 0]
    /\ rec = [armed |-> None, last |-> None, offer |-> None, completed |-> 0, blocks |-> 0,
              obs |-> None, control |-> None, drain |-> None]
    /\ fresh = {} /\ late = {}
    /\ issued = None /\ cursor = 0
    /\ height = 0 /\ external = 0 /\ wallet \in BOOLEAN
    /\ pc = [p \in Procs |-> "off"]
    /\ view = [p \in Procs |-> None]
    /\ op = [p \in Procs |-> None]
    /\ note = [p \in Procs |-> NoNote]
    /\ closed = [p \in Procs |-> FALSE]
    /\ cancelled = [p \in Procs |-> FALSE]
    /\ seq = [p \in Procs |-> 0]
    /\ col = [p \in Procs |-> "none"]
    /\ req = [p \in Procs |-> None]
    /\ sent = {} /\ executed = {} /\ accounted = {}

-----------------------------------------------------------------------------
(* Step, up to the choice of an operation *)

Start(p) ==
    /\ pc[p] = "off" /\ net.terminated = 0
    /\ Goto(p, "idle")
    /\ UNCHANGED <<netVars, slotVars, initVars, coreVars, view, op, note, lifeVars, colVars,
                   sent, accounted>>

\* The process dies; its collector and its response die with it.
Crash(p) ==
    /\ Alive(p)
    /\ pc' = [pc EXCEPT ![p] = "dead"]
    /\ view' = [view EXCEPT ![p] = None]
    /\ op' = [op EXCEPT ![p] = None]
    /\ note' = [note EXCEPT ![p] = NoNote]
    /\ col' = [col EXCEPT ![p] = "none"]
    /\ req' = [req EXCEPT ![p] = None]
    /\ fresh' = fresh \ {p}
    /\ UNCHANGED <<netVars, rec, late, initVars, coreVars, lifeVars, sent, accounted>>

\* SIGTERM: Run leaves its loop and drains; it never steps again.
Terminate(p) ==
    /\ pc[p] = "idle"
    /\ Goto(p, "exit")
    /\ closed' = [closed EXCEPT ![p] = TRUE]
    /\ UNCHANGED <<netVars, slotVars, initVars, coreVars, view, op, note, cancelled, seq,
                   colVars, sent, accounted>>

Exit(p) ==
    /\ pc[p] = "exit" /\ ~Active(p)
    /\ Goto(p, "dead")
    /\ UNCHANGED <<netVars, slotVars, initVars, coreVars, view, op, note, lifeVars, colVars,
                   sent, accounted>>

ReadRecord(p) ==
    /\ pc[p] = "idle"
    /\ Goto(p, "stop")
    /\ view' = [view EXCEPT ![p] = rec]
    /\ fresh' = fresh \cup {p}
    /\ UNCHANGED <<netVars, rec, late, initVars, coreVars, op, note, lifeVars, colVars, sent,
                   accounted>>

\* An API or native read failed, or a refusal of the environment's making (expired
\* offer, paused production, unready gate, identity not ready): Step returns an error.
Refuse(p) ==
    /\ pc[p] \in {"stop", "drain", "pause", "ack", "observe", "publish", "authorize",
                  "preflight", "cas", "withdraw"}
    /\ ReturnUnwritten(p)
    /\ UNCHANGED <<netVars, initVars, coreVars, lifeVars, colVars, sent, accounted>>

stop(p) ==
    /\ pc[p] = "stop"
    /\ \/ /\ stopReason = ""
          /\ Goto(p, "pause")
          /\ UNCHANGED <<slotVars, view, op, note, closed>>
       \/ /\ stopReason # "" /\ terminalDrainAcknowledged(view[p])
          /\ closed' = [closed EXCEPT ![p] = TRUE]
          /\ ReturnUnwritten(p)
       \/ /\ stopReason # "" /\ ~terminalDrainAcknowledged(view[p])
          /\ closed' = [closed EXCEPT ![p] = TRUE]
          /\ Goto(p, "drain")
          /\ note' = [note EXCEPT ![p] = [@ EXCEPT !.gen = net.gen]]
          /\ UNCHANGED <<slotVars, view, op>>
    /\ UNCHANGED <<netVars, initVars, coreVars, cancelled, seq, colVars, sent, accounted>>

\* Faulty variant: the drain waits for its collector without a limit.
DrainForever(p) == p \notin Procs /\ UNCHANGED vars

\* The 25-second allowance ends with the collector still running: cancel its receiver.
DrainTimeout(p) ==
    /\ pc[p] = "drain" /\ Active(p) /\ ~cancelled[p]
    /\ cancelled' = [cancelled EXCEPT ![p] = TRUE]
    /\ UNCHANGED <<netVars, slotVars, initVars, coreVars, stepVars, closed, seq, colVars, sent,
                   accounted>>

DrainOutcome(p) == IF rec.armed # None \/ Active(p) THEN "Uncertain" ELSE "Drained"

AcknowledgeDrain(p) ==
    /\ pc[p] = "drain"
    /\ Active(p) => cancelled[p]
    /\ ReadModifyWrite([rec EXCEPT !.drain = [nonce |-> p, gen |-> note[p].gen,
                                              outcome |-> DrainOutcome(p)]])
    /\ Return(p)
    /\ UNCHANGED <<netVars, initVars, coreVars, lifeVars, colVars, sent, accounted>>

acknowledgePause(p) ==
    /\ pc[p] = "pause"
    /\ \/ /\ ~net.paused
          /\ IF view[p].armed = None
             THEN /\ Goto(p, "observe")
                  /\ UNCHANGED <<slotVars, view, op, note>>
             ELSE ReturnUnwritten(p)
       \/ /\ net.paused /\ (Active(p) \/ view[p].armed # None)
          /\ Goto(p, "observe")
          /\ note' = [note EXCEPT ![p] = [@ EXCEPT !.gen = net.gen]]
          /\ UNCHANGED <<slotVars, view, op>>
       \/ /\ net.paused /\ ~Active(p) /\ view[p].armed = None
          /\ note' = [note EXCEPT ![p] = [@ EXCEPT !.gen = net.gen]]
          /\ \/ Goto(p, "ack")
             \/ /\ view[p].control = [nonce |-> p, gen |-> net.gen]
                /\ Goto(p, "observe")
          /\ UNCHANGED <<slotVars, view, op>>
    /\ UNCHANGED <<netVars, initVars, coreVars, lifeVars, colVars, sent, accounted>>

\* Faulty variant: the acknowledgement is merged into whatever record there is by now.
WriteAcknowledgementMerged(p, acked) ==
    /\ pc[p] = "ack" /\ acked \in BOOLEAN
    /\ ReadModifyWrite([rec EXCEPT !.control = [nonce |-> p, gen |-> note[p].gen]])
    /\ Return(p)
    /\ UNCHANGED <<netVars, initVars, coreVars, lifeVars, colVars, sent, accounted>>

\* The acknowledgement, or its heartbeat, over the version read when Step began.
WriteAcknowledgement(p, acked) ==
    /\ pc[p] = "ack"
    /\ LET r == [view[p] EXCEPT !.control = [nonce |-> p, gen |-> note[p].gen]]
       IN  /\ p \in fresh /\ rec' = r /\ late' = {}
           /\ IF acked
              THEN /\ Goto(p, "observe")
                   /\ fresh' = {p}
                   /\ view' = [view EXCEPT ![p] = r]
                   /\ UNCHANGED <<op, note>>
              ELSE fresh' = {} /\ Return(p)
    /\ UNCHANGED <<netVars, initVars, coreVars, lifeVars, colVars, sent, accounted>>

\* Native reads: the chain, and at most one wallet operation that is needed.
observe(p) ==
    /\ pc[p] = "observe"
    /\ authorizeObservation
    /\ Pausing(p) => net.paused
    /\ Goto(p, "publish")
    /\ note' = [note EXCEPT ![p] = [@ EXCEPT !.height = height, !.actor = net.actor]]
    /\ op' = [op EXCEPT ![p] = IF wallet THEN None ELSE NewRequest(p, None, net.actor)]
    /\ UNCHANGED <<netVars, slotVars, initVars, coreVars, view, lifeVars, colVars, sent,
                   accounted>>

\* What Step goes on to arm once its observation is in r; a paused Step discards it.
Plan(p, r) ==
    IF Pausing(p) \/ ~generationAccounted(r) THEN None
    ELSE IF op[p] # None THEN op[p]
    ELSE IF /\ r.offer # None
            /\ r.offer.number > r.completed
            /\ authorizeOffer(r.offer)
            /\ note[p].height = r.offer.height
         THEN NewRequest(p, r.offer, note[p].actor)
    ELSE None

\* The actor is still the one observed: publish what was seen over the version Step
\* began with (or skip the write when nothing changed), then arm or return.
Publish(p, acked) ==
    /\ pc[p] = "publish"
    /\ authorizeObservation /\ net.actor = note[p].actor
    /\ Pausing(p) => net.paused
    /\ LET r == [view[p] EXCEPT !.obs = note[p].height]
           next == Plan(p, r)
       IN  /\ \/ Update(p, r)
              \/ acked /\ view[p] = r /\ fresh' = fresh \ {p} /\ UNCHANGED <<rec, late>>
           /\ IF acked /\ next # None
              THEN /\ Goto(p, "arm")
                   /\ op' = [op EXCEPT ![p] = next]
                   /\ view' = [view EXCEPT ![p] = None]
                   /\ note' = [note EXCEPT ![p] = NoNote]
              ELSE Return(p)
    /\ UNCHANGED <<netVars, initVars, coreVars, lifeVars, colVars, sent, accounted>>

-----------------------------------------------------------------------------
(* arm: reserve, read again, authorize, write Armed, confirm, launch the collector *)

Reserve(p) ==
    /\ pc[p] = "arm"
    /\ IF closed[p] \/ Active(p) \/ rec.armed # None
       THEN ReturnUnwritten(p)
       ELSE /\ Goto(p, "authorize")
            /\ view' = [view EXCEPT ![p] = rec]
            /\ fresh' = fresh \cup {p}
            /\ UNCHANGED <<rec, late, op, note>>
    /\ UNCHANGED <<netVars, initVars, coreVars, lifeVars, colVars, sent, accounted>>

\* The checks made on the record copy, the root, the participant and the initialization.
Authorized(p) ==
    /\ authorize /\ net.actor = op[p].actor
    /\ op[p].offer # None => /\ view[p].offer = op[p].offer
                             /\ op[p].offer.number > view[p].completed
                             /\ authorizeOffer(op[p].offer)

AuthorizeArm(p) ==
    /\ pc[p] = "authorize"
    /\ Authorized(p)
    /\ Goto(p, IF op[p].offer = None THEN "cas" ELSE "preflight")
    /\ UNCHANGED <<netVars, slotVars, initVars, coreVars, view, op, note, lifeVars, colVars,
                   sent, accounted>>

\* The last native read before the write.
Preflight(p) ==
    /\ pc[p] = "preflight"
    /\ height = op[p].offer.height /\ BelowCeiling(op[p].offer, height)
    /\ Goto(p, "cas")
    /\ UNCHANGED <<netVars, slotVars, initVars, coreVars, view, op, note, lifeVars, colVars,
                   sent, accounted>>

\* Faulty variant: the copy is written whatever the record's version.
ArmStaleCopy(p) == ReadModifyWrite([view[p] EXCEPT !.armed = op[p]])

ArmCopy(p) == Update(p, [view[p] EXCEPT !.armed = op[p]])

WriteArmed(p) ==
    /\ pc[p] = "cas" /\ seq[p] < MaxArms
    /\ ArmCopy(p)
    /\ seq' = [seq EXCEPT ![p] = @ + 1]
    /\ Goto(p, "confirm")
    /\ view' = [view EXCEPT ![p] = None]
    /\ UNCHANGED <<netVars, initVars, coreVars, op, note, closed, cancelled, colVars, sent,
                   accounted>>

\* The write is given up without an answer: unsent, but it may yet commit.
LoseArmed(p) ==
    /\ pc[p] = "cas" /\ seq[p] < MaxArms
    /\ p \in fresh
    /\ late' = late \cup {op[p]}
    /\ seq' = [seq EXCEPT ![p] = @ + 1]
    /\ Return(p)
    /\ fresh' = fresh \ {p}
    /\ UNCHANGED <<netVars, rec, initVars, coreVars, closed, cancelled, colVars, sent,
                   accounted>>

LandArmed(q) ==
    /\ q \in late
    /\ ReadModifyWrite([rec EXCEPT !.armed = q])
    /\ UNCHANGED <<netVars, initVars, coreVars, stepVars, lifeVars, colVars, sent, accounted>>

\* Authority is read once more after the write; only then does a collector start.
Confirm(p) ==
    /\ pc[p] = "confirm"
    /\ authorize /\ net.actor = op[p].actor
    /\ op[p].offer # None => authorizeOffer(op[p].offer)
    /\ ~closed[p]
    /\ col' = [col EXCEPT ![p] = "send"]
    /\ req' = [req EXCEPT ![p] = op[p]]
    /\ ReturnUnwritten(p)
    /\ UNCHANGED <<netVars, initVars, coreVars, lifeVars, sent, accounted>>

\* Some authority is gone or could not be read.
RefuseConfirm(p) ==
    /\ pc[p] = "confirm"
    /\ Goto(p, "withdraw")
    /\ UNCHANGED <<netVars, slotVars, initVars, coreVars, view, op, note, lifeVars, colVars,
                   sent, accounted>>

\* Clears exactly the unsent arm this process wrote, whether or not it learns so.
withdraw(p) ==
    /\ pc[p] = "withdraw"
    /\ rec.armed = op[p]
    /\ ReadModifyWrite([rec EXCEPT !.armed = None])
    /\ Return(p)
    /\ UNCHANGED <<netVars, initVars, coreVars, lifeVars, colVars, sent, accounted>>

-----------------------------------------------------------------------------
(* collect: one native call, then accounting until it is durable *)

Send(p) ==
    /\ col[p] = "send"
    /\ sent' = sent \cup {req[p]}
    /\ col' = [col EXCEPT ![p] = "wait"]
    /\ UNCHANGED <<netVars, slotVars, initVars, coreVars, stepVars, lifeVars, req, accounted>>

release(p) ==
    /\ col' = [col EXCEPT ![p] = "none"]
    /\ req' = [req EXCEPT ![p] = None]

\* Faulty variant: a lost response is taken to free the slot.
LoseResponseClearing(p) ==
    /\ col[p] \in {"send", "wait"} /\ rec.armed = req[p]
    /\ release(p)
    /\ ReadModifyWrite([rec EXCEPT !.armed = None])
    /\ UNCHANGED <<netVars, initVars, coreVars, stepVars, lifeVars, sent, accounted>>

\* Faulty variant: an API outage makes the collector drop the response it holds.
LoseResponseAnytime(p) ==
    /\ col[p] # "none"
    /\ release(p)
    /\ UNCHANGED <<netVars, slotVars, initVars, coreVars, stepVars, lifeVars, sent, accounted>>

\* mutate returns an error: refused, timed out, cancelled or malformed.  Armed stays.
LoseResponse(p) ==
    /\ col[p] \in {"send", "wait"}
    /\ release(p)
    /\ UNCHANGED <<netVars, slotVars, initVars, coreVars, stepVars, lifeVars, sent, accounted>>

\* Faulty variant: any end of the wait is taken for a response.
ReceiveAny(p) ==
    /\ col[p] = "wait"
    /\ col' = [col EXCEPT ![p] = "receipt"]
    /\ UNCHANGED <<netVars, slotVars, initVars, coreVars, stepVars, lifeVars, req, sent,
                   accounted>>

Receive(p) ==
    /\ col[p] = "wait" /\ req[p] \in executed
    /\ col' = [col EXCEPT ![p] = "receipt"]
    /\ UNCHANGED <<netVars, slotVars, initVars, coreVars, stepVars, lifeVars, req, sent,
                   accounted>>

\* Faulty variant: an offer counts as one block.
AccountedPerOffer(r, q) ==
    [r EXCEPT !.last = q, !.armed = None,
              !.blocks = IF q.offer # None THEN @ + 1 ELSE @,
              !.completed = IF q.offer # None THEN q.offer.number ELSE @]

\* Faulty variant: the receipt is written and the slot left occupied.
AccountedOccupied(r, q) ==
    [r EXCEPT !.last = q,
              !.blocks = IF q.offer # None THEN @ + q.offer.blocks ELSE @,
              !.completed = IF q.offer # None THEN q.offer.number ELSE @]

Accounted(r, q) ==
    [r EXCEPT !.last = q, !.armed = None,
              !.blocks = IF q.offer # None THEN @ + q.offer.blocks ELSE @,
              !.completed = IF q.offer # None THEN q.offer.number ELSE @]

\* The receipt and its counters in one update; unacknowledged, the collector retries.
account(p, acked) ==
    /\ col[p] = "receipt"
    /\ rec.armed = req[p] /\ rec.last # req[p]
    /\ ReadModifyWrite(Accounted(rec, req[p]))
    /\ accounted' = accounted \cup {req[p]}
    /\ IF acked THEN release(p) ELSE UNCHANGED colVars
    /\ UNCHANGED <<netVars, initVars, coreVars, stepVars, lifeVars, sent>>

\* A retry finds its receipt already recorded.
AlreadyAccounted(p) ==
    /\ col[p] = "receipt" /\ rec.last = req[p]
    /\ release(p)
    /\ UNCHANGED <<netVars, slotVars, initVars, coreVars, stepVars, lifeVars, sent, accounted>>

\* The drain allowance ended before the API accepted the receipt.
AbandonReceipt(p) ==
    /\ col[p] = "receipt" /\ cancelled[p]
    /\ release(p)
    /\ UNCHANGED <<netVars, slotVars, initVars, coreVars, stepVars, lifeVars, sent, accounted>>

-----------------------------------------------------------------------------
(* Bitcoin Core (external): runs a delivered request at most once, at any later time *)

Execute(q) ==
    /\ q \in sent \ executed
    /\ executed' = executed \cup {q}
    /\ IF q.offer # None
       THEN height' = height + q.offer.blocks /\ UNCHANGED wallet
       ELSE wallet' = TRUE /\ UNCHANGED height
    /\ UNCHANGED <<netVars, slotVars, initVars, external, stepVars, lifeVars, colVars, sent,
                   accounted>>

ExternalBlock ==
    /\ external < MaxExternal
    /\ external' = external + 1 /\ height' = height + 1
    /\ UNCHANGED <<netVars, slotVars, initVars, wallet, executed, stepVars, lifeVars, colVars,
                   sent, accounted>>

-----------------------------------------------------------------------------
(* The scheduler, as far as one worker sees it *)

Latest == LET n(o) == IF o = None THEN 0 ELSE o.number
              larger(a, b) == IF a > b THEN a ELSE b
          IN  larger(larger(cursor, rec.completed), larger(n(issued), n(rec.offer)))

\* A new offer, number above every earlier one, for a height some observation reported.
SelectOffer(h, blocks) ==
    /\ rec.obs # None /\ h <= rec.obs
    /\ generationAccounted(rec)
    /\ Latest < MaxOffer
    /\ issued' = [number |-> Latest + 1, height |-> h, blocks |-> blocks]
    /\ offerCountAuthorized(issued')
    /\ UNCHANGED <<netVars, slotVars, cursor, coreVars, stepVars, lifeVars, colVars, sent,
                   accounted>>

\* An outstanding offer for the height the target reports is copied to its record, with an
\* optimistic lock.
AssignOffer ==
    /\ issued # None /\ rec.offer # issued
    /\ issued.number > cursor /\ rec.obs = issued.height
    /\ ReadModifyWrite([rec EXCEPT !.offer = issued])
    /\ UNCHANGED <<netVars, initVars, coreVars, stepVars, lifeVars, colVars, sent, accounted>>

accountBootstrapReceipt ==
    /\ rec.last # None /\ rec.last.offer # None
    /\ rec.last.offer.number > cursor
    /\ rec.last.offer.number = rec.completed
    /\ cursor' = rec.last.offer.number
    /\ UNCHANGED <<netVars, slotVars, issued, coreVars, stepVars, lifeVars, colVars, sent,
                   accounted>>

-----------------------------------------------------------------------------
(* The root: desired operation, participant selection, and the actor process *)

ChangeRoot(n) ==
    /\ net' = n
    /\ UNCHANGED <<slotVars, initVars, coreVars, stepVars, lifeVars, colVars, sent, accounted>>

\* Stopped is terminal and refuses any later operation.
Pause == /\ "Pause" \in Edits /\ net.closing = "" /\ net.gen < MaxGen
         /\ ChangeRoot([net EXCEPT !.paused = ~@, !.gen = @ + 1])

Close(reason) ==
    /\ reason \in Edits /\ net.closing = "" /\ net.gen < MaxGen
    /\ ChangeRoot([net EXCEPT !.closing = reason,
                              !.paused = @ /\ reason # "NetworkStopped",
                              !.gen = IF reason = "NetworkFailed" THEN @ ELSE @ + 1])

\* Editing the participants list; the entry may be put back before anyone latched it.
SelectParticipant ==
    /\ "Select" \in Edits /\ net.gen < MaxGen
    /\ ChangeRoot([net EXCEPT !.selected = ~@, !.gen = @ + 1])

\* The aggregate records the withdrawal; adding the entry again cannot erase it.
LatchRemoval == /\ ~net.selected /\ ~net.removing
                /\ ChangeRoot([net EXCEPT !.removing = TRUE])

\* status.bitcoinControl of the participant: every control process has exited, none can
\* start, as seen at the root's current generation.
ConfirmTermination ==
    /\ net.closing = "NetworkDeleting" /\ net.terminated # net.gen
    /\ \A p \in Procs : ~Alive(p)
    /\ ChangeRoot([net EXCEPT !.terminated = net.gen])

RestartActor == net.actor < MaxActor /\ ChangeRoot([net EXCEPT !.actor = @ + 1])

-----------------------------------------------------------------------------
Step(p) ==
    \/ ReadRecord(p) \/ Refuse(p) \/ stop(p) \/ DrainTimeout(p) \/ AcknowledgeDrain(p)
    \/ acknowledgePause(p)
    \/ \E acked \in BOOLEAN : WriteAcknowledgement(p, acked) \/ Publish(p, acked)
    \/ observe(p) \/ Reserve(p) \/ AuthorizeArm(p) \/ Preflight(p)
    \/ WriteArmed(p) \/ LoseArmed(p) \/ Confirm(p) \/ RefuseConfirm(p) \/ withdraw(p)

collect(p) ==
    \/ Send(p) \/ LoseResponse(p) \/ Receive(p)
    \/ \E acked \in BOOLEAN : account(p, acked)
    \/ AlreadyAccounted(p) \/ AbandonReceipt(p)

Process(p) == Start(p) \/ Crash(p) \/ Terminate(p) \/ Exit(p) \/ Step(p) \/ collect(p)

Core == ExternalBlock \/ \E q \in sent : Execute(q)

Scheduler ==
    \/ \E h \in 0 .. Ceiling, blocks \in 1 .. Batch : SelectOffer(h, blocks)
    \/ AssignOffer
    \/ accountBootstrapReceipt

Root ==
    \/ Pause \/ SelectParticipant \/ LatchRemoval \/ ConfirmTermination \/ RestartActor
    \/ \E reason \in Reasons \ {"ParticipantRemoved"} : Close(reason)

Next ==
    \/ \E p \in Procs : Process(p)
    \/ \E q \in late : LandArmed(q)
    \/ Core \/ Scheduler \/ Root

Spec == Init /\ [][Next]_vars

\* Run polls for ever, so a live process keeps stepping and a Deployment keeps starting one.
\* API failures and conflicts are transient: a drain or an accounting that is tried again
\* and again is not refused for ever.  Core and the network promise nothing.
Fairness ==
    \A p \in Procs :
        /\ WF_vars(Start(p)) /\ WF_vars(Step(p))
        /\ SF_vars(stop(p)) /\ SF_vars(DrainTimeout(p)) /\ SF_vars(AcknowledgeDrain(p))
        /\ WF_vars(\E acked \in BOOLEAN : account(p, acked))

FairSpec == Spec /\ Fairness

-----------------------------------------------------------------------------
(* Properties *)

\* The values every variable may take.
TypeOK ==
    /\ net \in [paused : BOOLEAN, closing : (Reasons \ {"ParticipantRemoved"}) \cup {""},
                gen : Nat, selected : BOOLEAN, removing : BOOLEAN, terminated : Nat,
                actor : Nat]
    /\ rec \in Record
    /\ fresh \subseteq Procs
    /\ late \subseteq Request
    /\ issued \in Offer \cup {None}
    /\ cursor \in Nat
    /\ height \in Nat /\ external \in Nat /\ wallet \in BOOLEAN
    /\ pc \in [Procs -> PcLabels]
    /\ view \in [Procs -> Record \cup {None}]
    /\ op \in [Procs -> Request \cup {None}]
    /\ note \in [Procs -> Note]
    /\ closed \in [Procs -> BOOLEAN] /\ cancelled \in [Procs -> BOOLEAN]
    /\ seq \in [Procs -> Nat]
    /\ col \in [Procs -> {"none", "send", "wait", "receipt"}]
    /\ req \in [Procs -> Request \cup {None}]
    /\ sent \subseteq Request /\ executed \subseteq sent /\ accounted \subseteq executed

Outstanding == sent \ accounted

\* Whatever was handed to the transport and is not yet counted is exactly what the
\* record's Armed slot holds: at most one mutation of the node is ever outstanding, over
\* all processes, restarts, lost acknowledgements and late writes (worker.go, arm/account).
SlotHoldsOutstanding == \A q \in Outstanding : rec.armed = q

\* An offer number is sent at most once, whatever is re-read, re-armed or restarted.
OfferSentOnce ==
    \A q, r \in sent : /\ q.offer # None /\ r.offer # None
                       /\ q.offer.number = r.offer.number
                       => q = r

(* The inductive invariant behind it, in parts *)

Owning == {"confirm", "withdraw"}

\* Step's plan names its own process and the identity it is about to use or has just used.
PlanInv ==
    \A p \in Procs :
        /\ pc[p] \in ArmPcs \cup {"arm"} => op[p] # None
        /\ op[p] # None => /\ op[p].proc = p
                           /\ pc[p] \in Owning => op[p].seq < seq[p]
                           /\ pc[p] \notin Owning => op[p].seq = seq[p]

\* A copy with the current resourceVersion is the record; arm only goes on from an empty slot
\* and with an offer above the completed one.
CopyInv ==
    /\ \A p \in fresh : view[p] = rec
    /\ \A p \in Procs :
         /\ pc[p] \in {"stop", "pause", "ack", "observe", "publish", "authorize", "preflight",
                        "cas"} => view[p] # None
         /\ pc[p] \in {"authorize", "preflight", "cas"} => view[p].armed = None
         /\ pc[p] \in {"preflight", "cas"} /\ op[p].offer # None
              => op[p].offer.number > view[p].completed

\* An identity that reached the record, a late write or the transport is used up.
IdentityInv ==
    /\ rec.armed # None => rec.armed.seq < seq[rec.armed.proc]
    /\ \A q \in late \cup sent : q.seq < seq[q.proc]

\* Who may stand behind an occupied slot.
SlotInv ==
    /\ \A p \in Procs :
         /\ pc[p] \in Owning => rec.armed = op[p] /\ op[p] \notin sent /\ col[p] = "none"
         /\ col[p] = "none" <=> req[p] = None
         /\ req[p] # None => req[p].proc = p
         /\ col[p] = "send" => rec.armed = req[p] /\ req[p] \notin sent
         /\ col[p] = "wait" => rec.armed = req[p] /\ req[p] \in sent
         /\ col[p] = "receipt" => /\ req[p] \in executed
                                  /\ rec.armed = req[p] \/ req[p] \in accounted
         /\ pc[p] \in ArmPcs => col[p] = "none"
    /\ rec.armed \notin accounted
    /\ late # {} => rec.armed = None
    /\ late \cap sent = {}
    /\ rec.last # None => rec.last \in accounted

\* Offer numbers only rise: what is armed or may still land is above what is completed.
NumberInv ==
    /\ rec.armed # None /\ rec.armed.offer # None => rec.armed.offer.number > rec.completed
    /\ \A q \in late : q.offer # None => q.offer.number > rec.completed
    /\ \A q \in accounted : q.offer # None => q.offer.number <= rec.completed

\* Everything the slot protocol rests on: who owns an arm, which copies are current, which
\* identities are spent, and that nothing sent is forgotten (worker.go, arm and account).
SlotProtocol ==
    /\ PlanInv /\ CopyInv /\ IdentityInv /\ SlotInv /\ NumberInv
    /\ SlotHoldsOutstanding /\ OfferSentOnce

\* status.blocksGenerated lags the blocks this worker made by exactly the one request that
\* ran and is not counted yet; no receipt is lost to, or counted twice by, a retry.
LedgerExact ==
    rec.blocks + external
        = height - (IF rec.armed \in executed /\ rec.armed.offer # None
                    THEN rec.armed.offer.blocks ELSE 0)

\* Managed generation never takes the chain past the gate's ceiling by itself.
CeilingRespected == height <= Ceiling + external

\* The counter of generated blocks is exact, and managed generation never passes the ceiling
\* of the gate, whatever is retried, restarted or mined by peers (worker.go, account, arm).
ProductionExact == LedgerExact /\ CeilingRespected

\* A pause acknowledged for the current generation, by whichever process, means that
\* nothing is armed and no collector of any process may still send (README: "the current
\* worker stopped sending and has no Armed request").
PauseAcknowledgedIsQuiet ==
    net.paused /\ rec.control # None /\ rec.control.gen = net.gen
        => /\ rec.armed = None
           /\ \A p \in Procs : col[p] \notin {"send", "wait"}

\* An actor released on anything but an Uncertain drain or the confirmed end of every control
\* process has no request under way, and none can still be sent.
DrainedIsQuiet ==
    /\ CheckDrained
    /\ rec.drain # None => rec.drain.outcome = "Drained"
    /\ net.terminated = 0
    => /\ Outstanding = {}
       /\ \A p \in Procs : col[p] \notin {"send", "wait"}

\* Every behaviour of the processes is one of the abstract slot: what the record promises
\* survives crashes, overlapping processes, late writes and lost answers.
Slot == INSTANCE ArmedSlot WITH Requests <- Request, NoRequest <- None, slot <- rec.armed,
                                out <- sent, ran <- executed, done <- accounted

ImplementsArmedSlot == Slot!Spec

Gone(p) == pc[p] \in {"dead", "exit"}

\* Once the network is closing, the record comes to permit the actor's disposal, with
\* certainty or without, unless no control process is left to say so.
DrainEventually ==
    net.closing # "" ~> CheckDrained \/ \A p \in Procs : Gone(p)

\* A response in hand is counted, unless its process dies or its drain allowance ends first.
ReceiptCounted ==
    \A p \in Procs, n \in 0 .. (MaxArms - 1) :
        col[p] = "receipt" /\ req[p].seq = n
            ~> \/ \E q \in accounted : q.proc = p /\ q.seq = n
               \/ cancelled[p] \/ pc[p] = "dead"
=============================================================================

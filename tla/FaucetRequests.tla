--------------------------- MODULE FaucetRequests ---------------------------
(***************************************************************************)
(* Faucet requests: the admission controller of                            *)
(* operators/network/internal/faucetrequest, the faucet role of            *)
(* operators/network/internal/stacksoperation with its nonce stream, and   *)
(* the part of the worker runtime (stacksworker/runtime.go) that drives    *)
(* the role and publishes its report.  The controller writes admission and *)
(* phase of a request, the worker writes its execution; both go through    *)
(* status applies that carry UID and resourceVersion.                      *)
(*                                                                         *)
(* One network, one faucet participant and one worker Pod, bound before    *)
(* the first request: a restarted process cannot recover the session       *)
(* (runtime.go exits), so a crash ends the worker.                         *)
(***************************************************************************)
EXTENDS Naturals, FiniteSets

CONSTANTS None,          \* a nil pointer
          Environments   \* the surroundings a behaviour may be set in

\* Each sets a bound or a possibility; a behaviour has one of them from start to end.
Situation ==
    [requests : SUBSET Nat,  \* StacksFaucetRequests, numbered in the order of their UIDs
     brief : SUBSET Nat,     \* requests whose deadline may pass
     capacity : Nat \ {0},   \* faucetrequest.Capacity
     operation : {"Running", "Paused"},  \* spec.operation when the requests are made
     edits : SUBSET {"Pause", "Stop", "Crash", "RestartController"},
                             \* what happens beside deletions and deadlines
     failures : SUBSET {"Lost", "Refused", "Native"},
                             \* answers of the API are lost; calls to it fail; the node
                             \* refuses, loses or fails transfers
     deletes : Nat,          \* bound: requests the user deletes
     foreign : Nat,          \* bound: nonces of the account used by another writer
     late : Nat]             \* bound: status writes given up that may still commit

ASSUME SituationAssumption ==
    /\ Environments \subseteq Situation
    /\ \A e \in Environments : IsFiniteSet(e.requests) /\ e.brief \subseteq e.requests

VARIABLE env   \* the surroundings, never changed

Requests   == env.requests
Brief      == env.brief
Capacity   == env.capacity
Operation  == env.operation
Edits      == env.edits
Failures   == env.failures
MaxDeletes == env.deletes
MaxForeign == env.foreign
MaxLate    == env.late

AllRequests == UNION {e.requests : e \in Environments}

Tx == [req : AllRequests, nonce : Nat]

\* status.execution: block is a recorded inclusion, refused a classified native refusal.
Execution == [phase : {"Submitted", "Inconclusive", "Completed", "Rejected", "Expired"},
              nosend : BOOLEAN, tx : Tx \cup {None}, block : BOOLEAN, refused : BOOLEAN]

Decisions == {"Nil", "Pending", "Admitted", "Rejected", "Expired"}

Phases == {"Nil", "Pending", "Submitted", "Inconclusive", "Completed", "Rejected", "Expired"}

TerminalPhases == {"Completed", "Rejected", "Expired"}

Object == [state : {"live", "deleting", "gone"}, adm : Decisions,
           exec : Execution \cup {None}, phase : Phases]

\* faucetEntry: deleting is the deletionTimestamp of the copy it was made from.
Entry == [outcome : Execution \cup {None}, deleting : BOOLEAN, orphaned : BOOLEAN]

Retained == [req : AllRequests, exec : Execution]

\* What the participant's status.execution says of the faucet.
Report == [active : Nat, orphaned : Nat, last : Retained \cup {None},
           phase : {"Inactive", "Active", "Failed", "Draining", "Settled", "Unsettled"}]

Late == [req : AllRequests, obj : Object]

\* nil is none of the values a pointer may point to.
ASSUME NoneAssumption ==
    /\ None \notin Nat /\ None \notin Tx /\ None \notin Execution /\ None \notin Entry
    /\ None \notin Late /\ None \notin Report /\ None \notin Retained

Snapshot == [paused : BOOLEAN, drain : BOOLEAN, last : Retained \cup {None}]

VARIABLES obj,       \* the request objects held by the API server
          late,      \* status writes their sender gave up that may still commit
          expired,   \* requests whose deadline has passed
          root,      \* spec.operation of the network
          shutdown,  \* the worker session's shutdown record exists
          grant,     \* request the controller is about to admit, as it was read
          uncertain, \* Reconciler.uncertain
          restarted, \* the controller lost its memory at least once
          wpc, snap, cur, todo, after,   \* the worker's Reconcile and the role's Step
          entries, notices, rescan, last, failed,  \* FaucetRole
          pend, next,                    \* NonceStream
          report,    \* Runtime.pendingReport or Runtime.acknowledged
          pub,       \* status.execution of the participant, as published
          acct,      \* nonce of the funding account on the chain
          wire,      \* transfers a node holds or may still receive
          paid, aborted,  \* transfers included with success, with failure
          sends      \* how often each request's transfer was handed to the transport

ctlVars   == <<grant, uncertain, restarted>>
rootVars  == <<root, shutdown>>
stepVars  == <<wpc, snap, cur, todo, after>>
roleVars  == <<entries, notices, rescan, last, failed, pend, next>>
chainVars == <<acct, wire, paid, aborted, sends>>
vars == <<obj, late, expired, root, shutdown, grant, uncertain, restarted, wpc, snap, cur,
          todo, after, entries, notices, rescan, last, failed, pend, next, report, pub, acct,
          wire, paid, aborted, sends>>

-----------------------------------------------------------------------------
(* Reading a request *)

Exists(r) == obj[r].state # "gone"

MatchingExecution(o) == o.adm = "Admitted" /\ o.exec # None

\* No send, a classified refusal, or the exact inclusion.
TerminalExecution(e) ==
    \/ e.phase = "Completed" /\ ~e.nosend /\ e.tx # None /\ e.block
    \/ e.phase = "Rejected" /\ \/ e.nosend /\ e.tx = None
                               \/ ~e.nosend /\ e.tx # None /\ (e.block \/ e.refused)
    \/ e.phase = "Expired" /\ e.nosend /\ e.tx = None

Settled(o) == MatchingExecution(o) /\ TerminalExecution(o.exec)

\* Faulty variant: an admitted request past its deadline is taken for an unsent one.
ProjectPhaseExpiring(o, overdue) ==
    IF o.adm \in {"Rejected", "Expired"} THEN o.adm
    ELSE IF o.adm # "Admitted" THEN "Pending"
    ELSE IF Settled(o) THEN o.exec.phase
    ELSE IF overdue THEN "Expired"
    ELSE IF o.exec # None /\ o.exec.phase \in {"Submitted", "Inconclusive"} THEN o.exec.phase
    ELSE "Pending"

ProjectPhase(o, overdue) ==
    IF o.adm \in {"Rejected", "Expired"} THEN o.adm
    ELSE IF o.adm # "Admitted" THEN "Pending"
    ELSE IF Settled(o) THEN o.exec.phase
    ELSE IF overdue THEN "Inconclusive"
    ELSE IF o.exec # None /\ o.exec.phase \in {"Submitted", "Inconclusive"} THEN o.exec.phase
    ELSE "Pending"

\* Faulty variant: applies carry no resourceVersion.
CommitUnversioned(r, o) == obj' = [obj EXCEPT ![r] = o] /\ late' = late

\* An apply commits only over the version its sender read.  Whatever else was based on that
\* version never commits after it.
Commit(r, o) == obj' = [obj EXCEPT ![r] = o] /\ late' = {w \in late : w.req # r}

\* The sender gives up without an answer.
GiveUp(r, o) == /\ Cardinality(late) < MaxLate
                /\ late' = late \cup {[req |-> r, obj |-> o]}
                /\ UNCHANGED obj

Land(w) ==
    /\ w \in late
    /\ Commit(w.req, w.obj)
    /\ UNCHANGED <<expired, rootVars, ctlVars, stepVars, roleVars, report, pub, chainVars>>

\* Whether the sender of a write that commits learns so.
Acks == IF "Lost" \in Failures THEN BOOLEAN ELSE {TRUE}

Refusable == "Refused" \in Failures

Native == "Native" \in Failures

NoSnapshot == [paused |-> FALSE, drain |-> FALSE, last |-> None]

-----------------------------------------------------------------------------
Init ==
    /\ env \in Environments
    /\ obj = [r \in Requests |-> [state |-> "live", adm |-> "Nil", exec |-> None, phase |-> "Nil"]]
    /\ late = {} /\ expired = {}
    /\ root = Operation /\ shutdown = FALSE
    /\ grant = None /\ uncertain = {} /\ restarted = FALSE
    /\ wpc = "idle" /\ snap = NoSnapshot
    /\ cur = None /\ todo = {} /\ after = "report"
    /\ entries = [r \in Requests |-> None]
    /\ notices = [r \in Requests |-> "none"]
    /\ rescan = FALSE /\ last = None /\ failed = FALSE
    /\ pend = None /\ next = None
    /\ report = None
    /\ pub = [active |-> 0, orphaned |-> 0, last |-> None, phase |-> "Inactive"]
    /\ acct = 0 /\ wire = {} /\ paid = {} /\ aborted = {}
    /\ sends = [r \in Requests |-> 0]

-----------------------------------------------------------------------------
(* The admission controller: one Reconcile at a time.  Its write commits only over the    *)
(* version it read, so that reading and writing are one step unless a count lies between. *)

ControllerOnly == UNCHANGED <<expired, rootVars, restarted, stepVars, roleVars, report, pub,
                              chainVars>>

Decided == {r \in Requests : Exists(r) /\ obj[r].adm \notin {"Nil", "Pending"}}

Active == {r \in Requests : Exists(r) /\ obj[r].adm = "Admitted" /\ ~Settled(obj[r])}

\* Faulty variant: reservations of unacknowledged admissions are not counted.
activeCountObserved == Cardinality(Active)

\* Admitted and unsettled requests, and reservations whose decision was not seen yet.
activeCount == Cardinality(Active) + Cardinality(uncertain \ Decided)

\* What the worker publishes of itself may raise the count.
CapacityExceeded == activeCount + pub.orphaned >= Capacity \/ pub.active >= Capacity

WorkerAvailable == /\ ~shutdown
                   /\ pub.phase \notin {"Inactive", "Failed", "Settled", "Unsettled"}

\* The Pod of a dead process may or may not be seen to be down yet.
PodDown == IF wpc = "dead" THEN BOOLEAN ELSE {FALSE}

\* The decision about a request whose names, amount and destination fit.
admit(r, down) ==
    IF r \in expired \/ obj[r].state = "deleting" THEN "Expired"
    ELSE IF root = "Stopped" THEN "Rejected"
    ELSE IF ~WorkerAvailable \/ down THEN "Pending"
    ELSE IF CapacityExceeded THEN "Rejected"
    ELSE "Admitted"

Projected(r, d) ==
    LET o == [obj[r] EXCEPT !.adm = d] IN [o EXCEPT !.phase = ProjectPhase(o, r \in expired)]

\* A reservation precedes the write of an admission and outlives any but a confirmed one.
Reserved(r, d, acked) ==
    IF acked THEN uncertain \ {r} ELSE IF d = "Admitted" THEN uncertain \cup {r} ELSE uncertain

ApplyStatus(r, d) ==
    LET o == Projected(r, d)
    IN  /\ o # obj[r]
        /\ \/ \E acked \in Acks : Commit(r, o) /\ uncertain' = Reserved(r, d, acked)
           \/ GiveUp(r, o) /\ uncertain' = Reserved(r, d, FALSE)

\* A decided request is projected; an undecided one gets any decision but an admission.
Reconcile(r) ==
    /\ grant = None /\ Exists(r)
    /\ \E down \in PodDown :
         /\ r \in Decided \/ admit(r, down) # "Admitted"
         /\ ApplyStatus(r, IF r \in Decided THEN obj[r].adm ELSE admit(r, down))
    /\ UNCHANGED grant /\ ControllerOnly

\* The count is taken; the write follows.
Grant(r) ==
    /\ grant = None /\ Exists(r)
    /\ r \notin Decided /\ admit(r, FALSE) = "Admitted"
    /\ grant' = [req |-> r, obj |-> obj[r]]
    /\ uncertain' = uncertain \ Decided
    /\ UNCHANGED <<obj, late>> /\ ControllerOnly

\* A lengthy count does not extend the deadline.
WriteGrant ==
    /\ grant # None /\ obj[grant.req] = grant.obj
    /\ \E d \in {"Admitted"} \cup IF grant.req \in expired THEN {"Expired"} ELSE {} :
         ApplyStatus(grant.req, d)
    /\ grant' = None /\ ControllerOnly

\* The object moved on, or the API refused.
RefuseGrant ==
    /\ grant # None /\ grant' = None
    /\ Refusable \/ obj[grant.req] # grant.obj
    /\ uncertain' = Reserved(grant.req, "Admitted", FALSE)
    /\ UNCHANGED <<obj, late>> /\ ControllerOnly

RestartController ==
    /\ "RestartController" \in Edits /\ ~restarted
    /\ restarted' = TRUE /\ uncertain' = {} /\ grant' = None
    /\ UNCHANGED <<obj, late, expired, rootVars, stepVars, roleVars, report, pub, chainVars>>

Controller ==
    \/ \E r \in Requests : Reconcile(r) \/ Grant(r)
    \/ WriteGrant \/ RefuseGrant \/ RestartController

-----------------------------------------------------------------------------
(* The faucet role: retained entries and routing hints *)

WorkerOnly == UNCHANGED <<expired, rootVars, ctlVars>>

Entries == {r \in Requests : entries[r] # None}

Noticed == {r \in Requests : notices[r] # "none"}

Full == Cardinality(Noticed) + Cardinality(Entries) >= Capacity

Refusal(phase) == [phase |-> phase, nosend |-> TRUE, tx |-> None, block |-> FALSE,
                   refused |-> FALSE]

noSend(r, phase) == [entries EXCEPT ![r] = [@ EXCEPT !.outcome = Refusal(phase)]]

forgetEntry(es, r) == [es EXCEPT ![r] = None]

\* An event of the request collection, possibly an old one: any version of an admitted
\* request may be delivered, again and again, also after its object is gone.
CollectionChanged(r, kind) ==
    /\ wpc # "dead"
    /\ obj[r].adm = "Admitted" /\ r \notin Entries
    /\ kind = "tombstone" => ~Exists(r)
    /\ IF r \notin Noticed /\ Full
       THEN rescan' = TRUE /\ UNCHANGED notices
       ELSE notices' = [notices EXCEPT ![r] = kind] /\ UNCHANGED rescan
    /\ UNCHANGED <<obj, late, stepVars, entries, last, failed, pend, next, report, pub,
                   chainVars>>
    /\ WorkerOnly

\* An event that shows the settled execution drops the hint.
SettledEvent(r) ==
    /\ wpc # "dead"
    /\ Settled(obj[r]) /\ r \in Noticed \ Entries
    /\ notices' = [notices EXCEPT ![r] = "none"]
    /\ UNCHANGED <<obj, late, stepVars, entries, rescan, last, failed, pend, next, report, pub,
                   chainVars>>
    /\ WorkerOnly

-----------------------------------------------------------------------------
(* Runtime.Reconcile around the role *)

\* Faulty variant: past its deadline a transfer is no longer looked for.
ObservationsUntilDeadline ==
    LET same == [entries |-> entries, pend |-> pend, next |-> next, failed |-> failed]
        found == [same EXCEPT !.pend = None, !.next = pend.nonce + 1,
                              !.entries[pend.req].outcome =
                                 [@ EXCEPT !.block = TRUE,
                                           !.phase = IF pend \in paid THEN "Completed"
                                                     ELSE "Rejected"]]
        overdue == [same EXCEPT !.entries[pend.req].outcome.phase = "Inconclusive"]
    IN  IF pend = None THEN {same}
        ELSE (IF Refusable THEN {same} ELSE {})
             \cup {IF entries[pend.req] = None THEN [same EXCEPT !.failed = TRUE]
                   ELSE IF pend.req \in expired THEN overdue
                   ELSE IF pend \in paid \cup aborted THEN found
                   ELSE same}

\* NonceStream.Observe and what ObservePending makes of it: the call failed or nothing is
\* pending; the transfer is included; or it is not, and its deadline may have passed.
Observations ==
    LET same == [entries |-> entries, pend |-> pend, next |-> next, failed |-> failed]
        found == [same EXCEPT !.pend = None, !.next = pend.nonce + 1,
                              !.entries[pend.req].outcome =
                                 [@ EXCEPT !.block = TRUE,
                                           !.phase = IF pend \in paid THEN "Completed"
                                                     ELSE "Rejected"]]
        overdue == [same EXCEPT !.entries[pend.req].outcome.phase = "Inconclusive"]
    IN  IF pend = None THEN {same}
        ELSE (IF Refusable THEN {same} ELSE {})
             \cup {IF entries[pend.req] = None THEN [same EXCEPT !.failed = TRUE]
                   ELSE IF pend \in paid \cup aborted THEN found
                   ELSE IF pend.req \in expired THEN overdue
                   ELSE same}

\* flush walks the entries that have an outcome, in UID order.
StartFlush(es, label) ==
    LET due == {r \in Requests : es[r] # None /\ es[r].outcome # None}
    IN  /\ todo' = due
        /\ IF due = {} THEN wpc' = label /\ after' = "report"
           ELSE wpc' = "flush" /\ after' = label

\* Drain refuses whatever has no outcome yet.
DrainRefused(es) ==
    [r \in Requests |-> IF es[r] # None /\ es[r].outcome = None
                        THEN [es[r] EXCEPT !.outcome = Refusal("Expired")] ELSE es[r]]

\* A fresh snapshot, the observation of the pending transfer, and the start of a flush.
\* Without a shutdown record the worker of a stopped network only waits for it.
Begin ==
    /\ wpc = "idle" /\ report = None
    /\ root = "Stopped" => shutdown
    /\ pub.phase = "Failed" => shutdown
    /\ snap' = [paused |-> root = "Paused", drain |-> shutdown, last |-> pub.last]
    /\ \E o \in Observations :
         LET es == IF shutdown THEN DrainRefused(o.entries) ELSE o.entries
         IN  /\ entries' = es /\ pend' = o.pend /\ next' = o.next /\ failed' = o.failed
             /\ StartFlush(es, IF shutdown THEN "drain" ELSE "pick")
    /\ UNCHANGED <<obj, late, cur, notices, rescan, last, report, pub, chainVars>>
    /\ WorkerOnly

\* The API is away, or a report cannot be published: the transfer is still observed.
ObserveOutage ==
    /\ wpc = "idle" /\ pend # None
    /\ \E o \in Observations :
         entries' = o.entries /\ pend' = o.pend /\ next' = o.next /\ failed' = o.failed
    /\ UNCHANGED <<obj, late, stepVars, notices, rescan, last, report, pub, chainVars>>
    /\ WorkerOnly

-----------------------------------------------------------------------------
(* flush *)

First(S) == CHOOSE r \in S : \A q \in S : r <= q

EndFlush == wpc' = "report" /\ todo' = {} /\ after' = "report"

NextFlush(r) == /\ todo' = todo \ {r}
                /\ IF todo = {r} THEN wpc' = after /\ after' = "report"
                   ELSE UNCHANGED <<wpc, after>>

Released(es, r) == IF TerminalExecution(es[r].outcome) THEN forgetEntry(es, r) ELSE es

\* Faulty variant: an unresolved outcome ends every flush, acknowledged or not.
flushDeletedHolding ==
    /\ wpc = "flush"
    /\ LET r == First(todo)
           retained == [req |-> r, exec |-> entries[r].outcome]
           kept == [entries EXCEPT ![r] = [@ EXCEPT !.orphaned = TRUE]]
       IN  /\ ~Exists(r)
           /\ last' = retained
           /\ IF snap.last = retained /\ TerminalExecution(entries[r].outcome)
              THEN entries' = Released(kept, r) /\ NextFlush(r)
              ELSE entries' = kept /\ EndFlush
    /\ UNCHANGED <<obj, late, snap, cur, notices, rescan, failed, pend, next, report, pub,
                   chainVars>>
    /\ WorkerOnly

\* The request is gone: its outcome is kept in the participant's summary until the snapshot
\* shows it there.
flushDeleted ==
    /\ wpc = "flush"
    /\ LET r == First(todo)
           retained == [req |-> r, exec |-> entries[r].outcome]
           kept == [entries EXCEPT ![r] = [@ EXCEPT !.orphaned = TRUE]]
       IN  /\ ~Exists(r)
           /\ last' = retained
           /\ IF snap.last = retained
              THEN entries' = Released(kept, r) /\ NextFlush(r)
              ELSE entries' = kept /\ EndFlush
    /\ UNCHANGED <<obj, late, snap, cur, notices, rescan, failed, pend, next, report, pub,
                   chainVars>>
    /\ WorkerOnly

WithOutcome(r) == [obj[r] EXCEPT !.exec = entries[r].outcome]

\* A fresh read of the request and the apply of its outcome, when that is still needed.
flush(acked) ==
    /\ wpc = "flush"
    /\ LET r == First(todo)
       IN  /\ Exists(r) /\ obj[r].adm = "Admitted"
           /\ \/ obj[r] = WithOutcome(r) /\ acked /\ UNCHANGED <<obj, late>>
              \/ obj[r] # WithOutcome(r) /\ Commit(r, WithOutcome(r))
           /\ IF acked THEN entries' = Released(entries, r) /\ NextFlush(r)
              ELSE EndFlush /\ UNCHANGED entries
    /\ UNCHANGED <<snap, cur, notices, rescan, last, failed, pend, next, report, pub, chainVars>>
    /\ WorkerOnly

flushGivenUp ==
    /\ wpc = "flush"
    /\ LET r == First(todo) IN Exists(r) /\ obj[r] # WithOutcome(r) /\ GiveUp(r, WithOutcome(r))
    /\ EndFlush
    /\ UNCHANGED <<snap, cur, roleVars, report, pub, chainVars>>
    /\ WorkerOnly

flushFailed ==
    /\ wpc = "flush" /\ Refusable
    /\ EndFlush
    /\ UNCHANGED <<obj, late, snap, cur, roleVars, report, pub, chainVars>>
    /\ WorkerOnly

-----------------------------------------------------------------------------
(* FaucetRole.Step after its first flush *)

Goto(label) == wpc' = label /\ UNCHANGED <<snap, todo, after>>

RescanDue == rescan /\ Cardinality(Noticed) + Cardinality(Entries) < Capacity \div 2

\* The list of requests is read again, as far as there is room for hints.
rescanNotices ==
    /\ wpc = "pick" /\ ~failed /\ RescanDue
    /\ LET listed == {r \in Requests : Exists(r) /\ obj[r].adm = "Admitted"} \ Entries
           missed == {r \in listed : ~Settled(obj[r])}
           kept   == Noticed \ (listed \ missed)
       IN  \E S \in SUBSET missed :
             /\ missed \cap Noticed \subseteq S
             /\ Cardinality(S \cup kept) + Cardinality(Entries) <= Capacity
             /\ S # missed => Cardinality(S \cup Noticed) + Cardinality(Entries) >= Capacity
             /\ notices' = [r \in Requests |-> IF r \in S THEN "hint"
                                               ELSE IF r \in kept THEN notices[r] ELSE "none"]
             /\ rescan' = (S # missed)
    /\ UNCHANGED <<obj, late, stepVars, entries, last, failed, pend, next, report, pub,
                   chainVars>>
    /\ WorkerOnly

\* takeNotice: while a transfer is pending only deleted or overdue requests are looked at.
Eligible == {r \in Noticed \ Entries :
               snap.drain \/ pend = None \/ notices[r] = "tombstone" \/ r \in expired}

Unsent == {r \in Entries : entries[r].outcome = None}

dropNotice(r) == notices' = [notices EXCEPT ![r] = "none"]

\* The current control state no longer allows submissions.
Withdrawn == root # "Running" \/ shutdown

\* An outcome for cur, and the second flush.
Conclude(es) == entries' = es /\ StartFlush(es, "report") /\ cur' = None /\ UNCHANGED snap

\* An API or native read failed, dependencies are not there, or the stream is backing off.
refuse ==
    /\ \/ wpc \in {"pick", "offer", "drain"} /\ Refusable
       \/ wpc = "offer" /\ Withdrawn
    /\ Goto("report") /\ cur' = None
    /\ UNCHANGED <<obj, late, roleVars, report, pub, chainVars>>
    /\ WorkerOnly

\* What Step does with the unsent entry r of es before it offers a transfer.
Dispatch(es, r) ==
    IF es[r].deleting \/ r \in expired
    THEN Conclude([es EXCEPT ![r] = [@ EXCEPT !.outcome = Refusal("Expired")]])
    ELSE /\ entries' = es
         /\ IF snap.paused \/ pend # None THEN Goto("report") /\ UNCHANGED cur
            ELSE Goto("offer") /\ cur' = r

\* The request behind a hint is read afresh.
pickNotice(r) ==
    IF ~Exists(r) \/ Settled(obj[r])
    THEN dropNotice(r) /\ Goto("report") /\ UNCHANGED <<cur, entries, failed>>
    ELSE IF obj[r].exec # None
    THEN failed' = TRUE /\ Goto("report") /\ UNCHANGED <<cur, entries, notices>>
    ELSE /\ dropNotice(r) /\ UNCHANGED failed
         /\ Dispatch([entries EXCEPT ![r] = [outcome |-> None, orphaned |-> FALSE,
                                             deleting |-> obj[r].state = "deleting"]], r)

\* The unsent entry of an earlier Step goes before any hint.
pick ==
    /\ wpc = "pick" /\ (failed \/ ~RescanDue)
    /\ IF failed \/ (Unsent = {} /\ Eligible = {})
       THEN Goto("report") /\ UNCHANGED <<cur, entries, notices, failed>>
       ELSE IF Unsent # {}
       THEN (\E r \in Unsent : Dispatch(entries, r)) /\ UNCHANGED <<notices, failed>>
       ELSE \E r \in Eligible : pickNotice(r)
    /\ UNCHANGED <<obj, late, rescan, last, pend, next, report, pub, chainVars>>
    /\ WorkerOnly

-----------------------------------------------------------------------------
(* NonceStream.Offer *)

authorize ==
    IF ~Exists(cur) \/ obj[cur].state = "deleting" \/ cur \in expired
    THEN Conclude(noSend(cur, "Expired"))
    ELSE IF obj[cur].exec # None \/ obj[cur].phase \in TerminalPhases
    THEN Conclude(forgetEntry(entries, cur))
    ELSE Goto("submit") /\ UNCHANGED <<cur, entries>>

Transfer == [req |-> cur, nonce |-> next]

\* The account is read; a stream that never sent starts from its nonce.  Funds that do not
\* suffice are an affirmative refusal.  Then the root, the dependencies and the exact request
\* are read once more before the only send.
Offer ==
    /\ wpc = "offer"
    /\ next' = IF next = None THEN acct ELSE next
    /\ \/ acct # next' /\ Goto("report") /\ cur' = None /\ UNCHANGED entries
       \/ acct = next' /\ Native /\ Conclude(noSend(cur, "Rejected"))
       \/ acct = next' /\ ~Withdrawn /\ authorize
    /\ UNCHANGED <<obj, late, notices, rescan, last, failed, pend, report, pub, chainVars>>
    /\ WorkerOnly

Sent(phase) == [phase |-> phase, nosend |-> FALSE, tx |-> Transfer, block |-> FALSE,
                refused |-> FALSE]

Submitting(outcome, p, w) ==
    /\ wpc = "submit"
    /\ sends' = [sends EXCEPT ![cur] = @ + 1]
    /\ pend' = p /\ wire' = w
    /\ Conclude([entries EXCEPT ![cur] = [@ EXCEPT !.outcome = outcome]])
    /\ UNCHANGED <<obj, late, notices, rescan, last, failed, next, report, pub, acct, paid,
                   aborted>>
    /\ WorkerOnly

submitAccepted == Submitting(Sent("Submitted"), Transfer, wire \cup {Transfer})

\* Faulty variant: an answer that is lost is taken for a refusal.
submitUncertainReleased(delivered) ==
    /\ Native
    /\ Submitting([Sent("Rejected") EXCEPT !.refused = TRUE], None,
                  IF delivered THEN wire \cup {Transfer} ELSE wire)

\* Faulty variant: a transport error leaves the request to be tried again.
submitUncertainRetried(delivered) ==
    /\ Native
    /\ Submitting(None, None, IF delivered THEN wire \cup {Transfer} ELSE wire)

\* Faulty variant: the stream's reason is recorded in place of a phase.
submitUncertainRaw(delivered) ==
    /\ Native
    /\ Submitting(Sent("SubmissionUncertain"), Transfer,
                  IF delivered THEN wire \cup {Transfer} ELSE wire)

\* No classified answer for exactly this transfer: the node may hold it or not.
submitUncertain(delivered) ==
    /\ Native
    /\ Submitting(Sent("Inconclusive"), Transfer,
                  IF delivered THEN wire \cup {Transfer} ELSE wire)

\* A definite refusal of exactly this transfer leaves nothing pending and its nonce unused.
submitRefused == Native /\ Submitting([Sent("Rejected") EXCEPT !.refused = TRUE], None, wire)

-----------------------------------------------------------------------------
(* FaucetRole.Drain after its first flush, and the report *)

drainNotice ==
    /\ wpc = "drain"
    /\ \E r \in Eligible :
         IF ~Exists(r) \/ Settled(obj[r])
         THEN dropNotice(r) /\ UNCHANGED <<wpc, todo, after, entries, failed>>
         ELSE IF obj[r].exec # None
         THEN /\ failed' = TRUE /\ wpc' = "report"
              /\ UNCHANGED <<notices, todo, after, entries>>
         ELSE LET es == [entries EXCEPT ![r] = [outcome |-> Refusal("Expired"),
                                                deleting |-> obj[r].state = "deleting",
                                                orphaned |-> FALSE]]
              IN  /\ dropNotice(r) /\ entries' = es /\ StartFlush(es, "drain")
                  /\ UNCHANGED failed
    /\ UNCHANGED <<obj, late, snap, cur, rescan, last, pend, next, report, pub, chainVars>>
    /\ WorkerOnly

Drained == wpc = "drain" /\ Eligible = {}

Held == Cardinality(Entries) + Cardinality(Noticed)

Result(phase) ==
    [active |-> Held,
     orphaned |-> Cardinality({r \in Entries : /\ entries[r].orphaned
                                               /\ ~TerminalExecution(entries[r].outcome)}),
     last |-> last, phase |-> phase]

ReportOnly == /\ wpc' = "idle" /\ cur' = None /\ snap' = NoSnapshot
              /\ UNCHANGED <<todo, after>>
              /\ UNCHANGED <<obj, late, roleVars, chainVars>>
              /\ WorkerOnly

\* After a Step the report is published, or kept and tried again before anything else.
publish(committed, acked) ==
    /\ wpc = "report" /\ ~snap.drain
    /\ LET r == Result(IF failed THEN "Failed" ELSE "Active")
       IN  /\ pub' = IF committed THEN r ELSE pub
           /\ report' = IF committed /\ acked THEN None ELSE r
    /\ ReportOnly

\* An unfinished Drain reports and starts over.
publishDraining(committed) ==
    /\ wpc = "report" \/ Drained
    /\ snap.drain
    /\ Held > 0 \/ failed
    /\ pub' = IF committed THEN Result("Draining") ELSE pub
    /\ UNCHANGED report
    /\ ReportOnly

\* Faulty variant: a worker with nothing left to send calls itself settled.
acknowledgeUnsent(committed) ==
    /\ wpc = "report" \/ Drained
    /\ snap.drain
    /\ IF Unsent = {} /\ ~failed THEN report' = Result("Settled")
       ELSE report' = Result("Unsettled")
    /\ pub' = IF committed THEN report' ELSE pub
    /\ ReportOnly

\* The final acknowledgement of a shutdown: everything settled, or the allowance used up.
acknowledge(committed) ==
    /\ wpc = "report" \/ Drained
    /\ snap.drain
    /\ IF Held = 0 /\ ~failed THEN report' = Result("Settled")
       ELSE report' = Result("Unsettled")
    /\ pub' = IF committed THEN report' ELSE pub
    /\ ReportOnly

Final(r) == r # None /\ r.phase \in {"Settled", "Unsettled"}

\* The report that was not acknowledged, or the final one, is published as it was.
republish ==
    /\ wpc = "idle" /\ report # None
    /\ Final(report) => pub # report
    /\ pub' = report
    /\ report' = IF Final(report) THEN report ELSE None
    /\ UNCHANGED <<obj, late, stepVars, roleVars, chainVars>>
    /\ WorkerOnly

Commits == IF Refusable THEN BOOLEAN ELSE {TRUE}

Event ==
    \E r \in Requests :
        SettledEvent(r) \/ \E kind \in {"hint", "tombstone"} : CollectionChanged(r, kind)

Step ==
    \/ Begin \/ ObserveOutage
    \/ flushDeleted \/ (\E acked \in Acks : flush(acked)) \/ flushGivenUp \/ flushFailed
    \/ rescanNotices \/ pick \/ refuse \/ Offer
    \/ submitAccepted \/ (\E d \in BOOLEAN : submitUncertain(d)) \/ submitRefused
    \/ drainNotice
    \/ \E committed \in Commits, acked \in Acks : publish(committed, acked)
    \/ \E committed \in Commits : publishDraining(committed) \/ acknowledge(committed)
    \/ republish

-----------------------------------------------------------------------------
(* The user, the network and the chain *)

Environment == UNCHANGED <<ctlVars, stepVars, roleVars, report, pub>>

\* A finalizer of the user's may keep a deleted request for a while.
Delete(r, to) ==
    /\ Exists(r) /\ obj[r].state # to
    /\ obj[r].state = "live" => Cardinality({q \in Requests : obj[q].state # "live"}) < MaxDeletes
    /\ Commit(r, [obj[r] EXCEPT !.state = to])
    /\ UNCHANGED <<expired, rootVars, chainVars>> /\ Environment

Expire(r) ==
    /\ r \in Brief \ expired
    /\ expired' = expired \cup {r}
    /\ UNCHANGED <<obj, late, rootVars, chainVars>> /\ Environment

Pause ==
    /\ "Pause" \in Edits /\ root # "Stopped"
    /\ root' = IF root = "Running" THEN "Paused" ELSE "Running"
    /\ UNCHANGED <<obj, late, expired, shutdown, chainVars>> /\ Environment

Stop ==
    /\ "Stop" \in Edits /\ root # "Stopped"
    /\ root' = "Stopped"
    /\ UNCHANGED <<obj, late, expired, shutdown, chainVars>> /\ Environment

\* The session projection records the shutdown of a stopped network's worker.
RecordShutdown ==
    /\ root = "Stopped" /\ ~shutdown
    /\ shutdown' = TRUE
    /\ UNCHANGED <<obj, late, expired, root, chainVars>> /\ Environment

\* The node includes a transfer it holds, when its nonce is the account's.
Include(t, ok) ==
    /\ t \in wire \ (paid \cup aborted) /\ t.nonce = acct
    /\ ok \/ Native
    /\ acct' = acct + 1
    /\ IF ok THEN paid' = paid \cup {t} /\ UNCHANGED aborted
       ELSE aborted' = aborted \cup {t} /\ UNCHANGED paid
    /\ UNCHANGED <<obj, late, expired, rootVars, wire, sends>> /\ Environment

\* Another writer of the same account.
ForeignTransfer ==
    /\ acct < Cardinality(paid \cup aborted) + MaxForeign
    /\ acct' = acct + 1
    /\ UNCHANGED <<obj, late, expired, rootVars, wire, paid, aborted, sends>> /\ Environment

Crash ==
    /\ "Crash" \in Edits /\ wpc # "dead"
    /\ wpc' = "dead"
    /\ UNCHANGED <<obj, late, expired, rootVars, ctlVars, snap, cur, todo, after, roleVars,
                   report, pub, chainVars>>

Surroundings ==
    \/ \E r \in Requests : Expire(r) \/ \E to \in {"deleting", "gone"} : Delete(r, to)
    \/ Pause \/ Stop \/ RecordShutdown \/ Crash
    \/ ForeignTransfer
    \/ \E t \in wire, ok \in BOOLEAN : Include(t, ok)

Next == /\ Controller \/ Event \/ Step \/ Surroundings \/ \E w \in late : Land(w)
        /\ UNCHANGED env

Spec == Init /\ [][Next]_<<env, vars>>

\* The worker requeues itself for ever, and the controller requeues a request until its phase
\* is settled.  Failures are transient: a call tried again and again succeeds in the end.
\* Watches, the user and the chain promise nothing.
Fairness ==
    /\ WF_vars(Step)
    /\ SF_vars(Begin /\ pend' # pend)
    /\ SF_vars(flush(TRUE)) /\ SF_vars(flushDeleted) /\ SF_vars(publish(TRUE, TRUE))
    /\ WF_vars(WriteGrant \/ RefuseGrant)
    /\ \A r \in AllRequests : SF_vars(r \in Requests /\ Reconcile(r))

FairSpec == Spec /\ Fairness

-----------------------------------------------------------------------------
(* Properties *)

\* The values every variable may take.
TypeOK ==
    /\ env \in Environments
    /\ obj \in [Requests -> Object]
    /\ late \subseteq Late
    /\ expired \subseteq Requests
    /\ root \in {"Running", "Paused", "Stopped"} /\ shutdown \in BOOLEAN
    /\ grant \in Late \cup {None}
    /\ uncertain \subseteq Requests /\ restarted \in BOOLEAN
    /\ wpc \in {"idle", "flush", "pick", "offer", "submit", "drain", "report", "dead"}
    /\ snap \in Snapshot
    /\ cur \in Requests \cup {None} /\ todo \subseteq Requests
    /\ after \in {"pick", "drain", "report"}
    /\ entries \in [Requests -> Entry \cup {None}]
    /\ notices \in [Requests -> {"none", "hint", "tombstone"}]
    /\ rescan \in BOOLEAN /\ last \in Retained \cup {None} /\ failed \in BOOLEAN
    /\ pend \in Tx \cup {None} /\ next \in Nat \cup {None}
    /\ report \in Report \cup {None} /\ pub \in Report
    /\ acct \in Nat /\ wire \subseteq Tx /\ paid \subseteq wire /\ aborted \subseteq wire
    /\ sends \in [Requests -> Nat]

\* A request's transfer is handed to the transport at most once, whatever is lost, retried,
\* delayed, deleted or refused (nonce.go: "Record before the only send").
PaidOnce == \A r \in Requests : sends[r] <= 1

\* What the API server, the retained entries and the summary claim about r.
Claims(r) ==
    {e \in {obj[r].exec} \cup {entries[r].outcome : q \in {r} \cap Entries} : e # None}

\* Evidence is true: a no-send claim means nothing was sent, a completion names an included
\* transfer of this request, a refusal or failed inclusion means nothing was and will be paid.
EvidenceTrue ==
    \A r \in Requests : \A e \in Claims(r) :
        /\ e.nosend => sends[r] = 0
        /\ e.phase = "Completed" => e.tx \in paid /\ e.tx.req = r
        /\ TerminalExecution(e) /\ e.phase # "Completed"
             => \A t \in wire : t.req = r => t \in aborted

\* The user-visible phase is true: Completed only with a paid transfer, Rejected and Expired
\* only when no transfer of the request is, or can still be, paid.
PhaseTrue ==
    \A r \in Requests :
        /\ obj[r].phase = "Completed" => \E t \in paid : t.req = r
        /\ obj[r].phase \in {"Rejected", "Expired"}
             => \A t \in wire : t.req = r => t \in aborted

\* What a request's status says is so: its evidence, and the phase projected from it
\* (status.go, ProjectPhase).
StatusTrue == EvidenceTrue /\ PhaseTrue

\* A decision and a settled phase are final, whoever writes late or from an old copy.
OutcomeFinal ==
    [][\A r \in Requests :
         /\ obj[r].adm \notin {"Nil", "Pending"} => obj[r].adm = obj'[r].adm
         /\ obj[r].phase \in TerminalPhases
              => obj[r].phase = obj'[r].phase /\ obj[r].exec = obj'[r].exec]_vars

\* Unless the controller lost its reservations, no more requests are admitted and unsettled
\* than the worker has room for.
CapacityRespected == restarted \/ Cardinality(Active) <= Capacity

\* The worker never holds more than the capacity (its report would be out of bounds).
WorkerBounded == Held <= Capacity

\* A surviving process never meets execution evidence that it does not hold itself.
NothingForgotten == ~failed

\* Places are not given away twice and nothing held is lost: unless the controller forgot its
\* reservations no more requests are admitted and unsettled than there are places, the worker
\* holds no more, and a surviving process knows every execution it finds recorded
\* (admit, CollectionChanged, Released).
PlacesKept == CapacityRespected /\ WorkerBounded /\ NothingForgotten

\* Two transfers that a node may hold never compete for one nonce.
NonceHeld == \A t, u \in wire : t.nonce = u.nonce => t = u

\* A worker disposed of as Settled left no transfer that may still be paid.
SettledIsQuiet == pub.phase = "Settled" => wire \subseteq paid \cup aborted

\* A worker that goes on gets to its queue again and again, where overdue and deleted
\* requests are refused: "pending sends do not block deadline refusals" (faucet_queue.go:78).
QueueServed == []<>(wpc \in {"pick", "drain", "dead"})

\* An included transfer is reported to its request, unless that is gone.
InclusionReported ==
    \A r \in AllRequests :
        (\E t \in paid : t.req = r) ~> obj[r].phase = "Completed" \/ ~Exists(r)
=============================================================================

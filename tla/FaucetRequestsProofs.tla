------------------------ MODULE FaucetRequestsProofs ------------------------
(***************************************************************************)
(* Theorems about FaucetRequests, for any set of requests, any capacity    *)
(* and any of its situations.  The inductive invariant says what each      *)
(* request's object, retained entry and delayed status writes have to do   *)
(* with each other (RequestInv, MayWrite), how the nonce stream goes with  *)
(* the transfers a node may hold (PendingInv, WireInv), and that places    *)
(* are counted for admissions that are still under way (RoomInv).          *)
(***************************************************************************)
EXTENDS FaucetRequests, TLAPS, FiniteSetTheorems

USE DEF ctlVars, rootVars, stepVars, roleVars, chainVars

-----------------------------------------------------------------------------
(* The inductive invariant *)

Undecided(o) == o.adm \in {"Nil", "Pending"}

Terminal(e) == e # None /\ TerminalExecution(e)

\* What the execution e says of request r is so.
True(r, e) ==
    e # None =>
        /\ e.nosend => sends[r] = 0
        /\ e.phase = "Completed" => e.tx \in paid /\ e.tx.req = r
        /\ TerminalExecution(e) /\ e.phase # "Completed"
             => \A t \in wire : t.req = r => t \in aborted

\* A settled phase comes from the decision or from the settled execution.
PhaseFounded(o) ==
    o.phase \in TerminalPhases =>
        \/ o.adm \in {"Rejected", "Expired"} /\ o.phase = o.adm /\ o.exec = None
        \/ Settled(o) /\ o.phase = o.exec.phase

\* The outcome that the retained entry of r has, if any.
HasOutcome(r) == entries[r] # None /\ entries[r].outcome # None

RequestInv(r) ==
    /\ obj[r].exec # None \/ entries[r] # None \/ notices[r] # "none" \/ sends[r] > 0
         => obj[r].adm = "Admitted"
    /\ obj[r].exec # None /\ entries[r] # None => HasOutcome(r)
    /\ Terminal(obj[r].exec) /\ entries[r] # None => entries[r].outcome = obj[r].exec
    /\ obj[r].exec # None /\ entries[r] = None /\ Exists(r) => Terminal(obj[r].exec)
    /\ sends[r] <= 1
    /\ sends[r] > 0 => IF entries[r] # None THEN HasOutcome(r)
                       ELSE ~Exists(r) \/ obj[r].exec # None
    /\ True(r, obj[r].exec) /\ (entries[r] # None => True(r, entries[r].outcome))
    /\ PhaseFounded(obj[r])

\* The status o may be written to request r as it is now.
MayWrite(r, o) ==
    /\ Exists(r) /\ o.state = obj[r].state
    /\ ~Undecided(obj[r]) => o.adm = obj[r].adm
    /\ o.exec # obj[r].exec => /\ o.exec # None /\ HasOutcome(r) /\ ~Terminal(obj[r].exec)
                               /\ Terminal(o.exec) => entries[r].outcome = o.exec
    /\ True(r, o.exec)
    /\ PhaseFounded(o)
    /\ obj[r].phase \in TerminalPhases => o.phase = obj[r].phase

\* The pending transfer is the last one sent, holds the nonce, and its entry knows it.
PendingInv ==
    pend # None =>
        /\ pend.req \in Requests /\ HasOutcome(pend.req) /\ pend.nonce = next
        /\ LET e == entries[pend.req].outcome
           IN  /\ e.tx = pend /\ ~e.nosend /\ ~e.block /\ ~e.refused
               /\ e.phase \in {"Submitted", "Inconclusive"}
        /\ sends[pend.req] > 0
        /\ \A t \in wire : t.req = pend.req => t = pend

\* A transfer that a node may hold is pending or settled, below the next nonce, and counted.
WireInv ==
    /\ NonceHeld
    /\ \A t \in wire : /\ t.req \in Requests /\ sends[t.req] > 0
                       /\ next # None /\ (t.nonce < next \/ t = pend)
                       /\ t \in paid \cup aborted \/ t = pend

\* What the worker is about to do.
StepInv ==
    /\ wpc \in {"offer", "submit"} => /\ cur \in Requests /\ entries[cur] # None
                                      /\ entries[cur].outcome = None /\ pend = None
    /\ wpc = "submit" => next # None
    /\ wpc = "flush" => todo # {} /\ \A r \in todo : HasOutcome(r)

\* A worker that called itself settled holds nothing and sends nothing more.
SettledInv ==
    (report # None /\ report.phase = "Settled") \/ pub.phase = "Settled" =>
        /\ report # None /\ report.phase = "Settled" /\ wpc \in {"idle", "dead"}
        /\ pend = None /\ wire \subseteq paid \cup aborted

GrantInv == grant # None => /\ grant.req \in Requests /\ grant.obj.state # "gone"
                            /\ Undecided(grant.obj) /\ grant.obj.exec = None

\* The objects, entries and delayed writes.
Objects ==
    /\ \A r \in Requests : RequestInv(r)
    /\ \A s \in late : s.req \in Requests /\ MayWrite(s.req, s.obj)

CoreInv ==
    /\ Objects
    /\ GrantInv /\ PendingInv /\ WireInv /\ StepInv /\ SettledInv /\ ~failed

\* Requests that take a place, or that an admission under way may give one.
Waiting == {r \in Requests : /\ Exists(r) /\ Undecided(obj[r])
                             /\ r \in uncertain \/ (grant # None /\ grant.req = r)}

RoomInv ==
    restarted \/ /\ Cardinality(Active \cup Waiting) <= Capacity
                 /\ \A s \in late : s.obj.adm = "Admitted" /\ Undecided(obj[s.req])
                                      => s.req \in uncertain

-----------------------------------------------------------------------------
(* Types *)

\* The requests are numbers, and there are finitely many.
LEMMA RequestsFinite ==
  ASSUME TypeOK
  PROVE  /\ Requests \subseteq AllRequests /\ Requests \subseteq Nat /\ IsFiniteSet(Requests)
         /\ Capacity \in Nat /\ Capacity > 0
  BY SituationAssumption DEF TypeOK, Requests, Capacity, AllRequests, Situation

\* The least element of a set of requests.
LEMMA FirstIn ==
  ASSUME NEW S \in SUBSET Nat, S # {}
  PROVE  First(S) \in S
  <1> DEFINE R == {p \in Nat \X Nat : p[1] < p[2]}
  <1>1. IsWellFoundedOn(R, Nat) BY NatLessThanWellFounded DEF OpToRel
  <1>2. \E x \in S : \A y \in S : ~(<<y, x>> \in R) BY <1>1, WFMin
  <1>3. PICK x \in S : \A y \in S : ~(<<y, x>> \in R) BY <1>2
  <1>4. ASSUME NEW y \in S PROVE x <= y
    <2>1. ~(y < x) BY <1>3
    <2> QED BY <2>1
  <1> QED BY <1>4 DEF First

\* Subsets of the requests have a cardinality.
LEMMA CountType ==
  ASSUME TypeOK, NEW S \in SUBSET Requests
  PROVE  IsFiniteSet(S) /\ Cardinality(S) \in Nat
  BY RequestsFinite, FS_Subset, FS_CardinalityType

\* The status fields of an object may be set.
LEMMA ObjectUpdates ==
  ASSUME NEW o \in Object
  PROVE  /\ \A e \in Execution : [o EXCEPT !.exec = e] \in Object
         /\ \A d \in Decisions : [o EXCEPT !.adm = d] \in Object
         /\ \A p \in Phases : [o EXCEPT !.phase = p] \in Object
         /\ \A t \in {"live", "deleting", "gone"} : [o EXCEPT !.state = t] \in Object
  BY DEF Object

\* A projected phase is a phase.
LEMMA ProjectPhaseType ==
  ASSUME NEW o \in Object, NEW b PROVE ProjectPhase(o, b) \in Phases
  BY DEF ProjectPhase, Phases, Object, Settled, MatchingExecution, Execution

LEMMA ProjectedType ==
  ASSUME TypeOK, NEW r \in Requests, NEW d \in Decisions PROVE Projected(r, d) \in Object
  <1>1. obj[r] \in Object BY DEF TypeOK
  <1>2. [obj[r] EXCEPT !.adm = d] \in Object BY <1>1, ObjectUpdates
  <1> QED BY <1>2, ObjectUpdates, ProjectPhaseType DEF Projected

LEMMA CommitType ==
  ASSUME TypeOK, NEW r \in Requests, NEW o \in Object, Commit(r, o)
  PROVE  obj' \in [Requests -> Object] /\ late' \subseteq Late
  BY DEF TypeOK, Commit

LEMMA GiveUpType ==
  ASSUME TypeOK, NEW r \in Requests, NEW o \in Object, GiveUp(r, o)
  PROVE  obj' \in [Requests -> Object] /\ late' \subseteq Late
  BY RequestsFinite DEF TypeOK, GiveUp, Late

LEMMA ApplyStatusType ==
  ASSUME TypeOK, NEW r \in Requests, NEW d \in Decisions, ApplyStatus(r, d)
  PROVE  obj' \in [Requests -> Object] /\ late' \subseteq Late /\ uncertain' \subseteq Requests
  <1>1. uncertain' \subseteq Requests BY DEF ApplyStatus, Reserved, TypeOK
  <1> QED BY <1>1, ProjectedType, CommitType, GiveUpType DEF ApplyStatus

LEMMA ControllerType ==
  ASSUME TypeOK, CoreInv, env' = env, Controller PROVE TypeOK'
  <1>0. Requests' = Requests BY DEF Requests
  <1>1. ASSUME NEW r \in Requests, Reconcile(r) PROVE TypeOK'
    <2>1. PICK down \in PodDown : ApplyStatus(r, IF r \in Decided THEN obj[r].adm ELSE admit(r, down))
      BY <1>1 DEF Reconcile
    <2>2. obj[r].adm \in Decisions BY DEF TypeOK, Object
    <2>3. admit(r, down) \in Decisions BY DEF admit, Decisions
    <2>4. obj' \in [Requests -> Object] /\ late' \subseteq Late /\ uncertain' \subseteq Requests
      BY <2>1, <2>2, <2>3, ApplyStatusType
    <2> QED BY <1>0, <1>1, <2>4 DEF Reconcile, ControllerOnly, TypeOK
  <1>2. ASSUME NEW r \in Requests, Grant(r) PROVE TypeOK'
    <2>1. grant' \in Late /\ uncertain' \subseteq Requests
      BY <1>2, RequestsFinite DEF Grant, TypeOK, Late
    <2> QED BY <1>0, <1>2, <2>1 DEF Grant, ControllerOnly, TypeOK
  <1>3. ASSUME WriteGrant PROVE TypeOK'
    <2>1. PICK d \in Decisions : ApplyStatus(grant.req, d)
      BY <1>3 DEF WriteGrant, Decisions
    <2>2. grant.req \in Requests BY <1>3 DEF WriteGrant, CoreInv, GrantInv
    <2>4. obj' \in [Requests -> Object] /\ late' \subseteq Late /\ uncertain' \subseteq Requests
      BY <2>1, <2>2, ApplyStatusType
    <2> QED BY <1>0, <1>3, <2>4 DEF WriteGrant, ControllerOnly, TypeOK
  <1>4. ASSUME RefuseGrant PROVE TypeOK'
    <2>1. uncertain' \subseteq Requests
      BY <1>4 DEF RefuseGrant, Reserved, TypeOK, CoreInv, GrantInv
    <2>2. grant' = None /\ UNCHANGED <<obj, late>> BY <1>4 DEF RefuseGrant
    <2>3. ControllerOnly BY <1>4 DEF RefuseGrant
    <2> QED BY <1>0, <2>1, <2>2, <2>3 DEF ControllerOnly, TypeOK
  <1>5. ASSUME RestartController PROVE TypeOK'
    BY <1>0, <1>5 DEF RestartController, TypeOK
  <1> QED BY <1>1, <1>2, <1>3, <1>4, <1>5 DEF Controller

LEMMA EventType ==
  ASSUME TypeOK, env' = env, Event PROVE TypeOK'
  <1>0. Requests' = Requests BY DEF Requests
  <1>1. ASSUME NEW r \in Requests, SettledEvent(r) PROVE TypeOK'
    BY <1>0, <1>1 DEF SettledEvent, WorkerOnly, TypeOK
  <1>2. ASSUME NEW r \in Requests, NEW kind \in {"hint", "tombstone"}, CollectionChanged(r, kind)
        PROVE TypeOK'
    <2>1. notices' \in [Requests -> {"none", "hint", "tombstone"}] /\ rescan' \in BOOLEAN
      BY <1>2 DEF CollectionChanged, TypeOK
    <2>2. UNCHANGED <<obj, late, stepVars, entries, last, failed, pend, next, report, pub, chainVars>>
      BY <1>2 DEF CollectionChanged
    <2>3. WorkerOnly BY <1>2 DEF CollectionChanged
    <2> QED BY <1>0, <2>1, <2>2, <2>3 DEF WorkerOnly, TypeOK
  <1> QED BY <1>1, <1>2 DEF Event

\* An outcome for an entry.
LEMMA OutcomeType ==
  ASSUME TypeOK, NEW r \in Requests, entries[r] # None, NEW e \in Execution
  PROVE  /\ [entries[r] EXCEPT !.outcome = e] \in Entry
         /\ [entries EXCEPT ![r] = [@ EXCEPT !.outcome = e]] \in [Requests -> Entry \cup {None}]
  <1>1. entries[r] \in Entry BY DEF TypeOK
  <1>2. [entries[r] EXCEPT !.outcome = e] \in Entry BY <1>1 DEF Entry
  <1> QED BY <1>2 DEF TypeOK

LEMMA RefusalType ==
  ASSUME NEW p \in {"Rejected", "Expired"} PROVE Refusal(p) \in Execution
  BY DEF Refusal, Execution

\* What an observation may bring.
Observation(o) ==
    /\ o.entries \in [Requests -> Entry \cup {None}] /\ o.pend \in Tx \cup {None}
    /\ o.next \in Nat \cup {None} /\ o.failed \in BOOLEAN

LEMMA ObservationType ==
  ASSUME TypeOK, CoreInv, NEW o \in Observations PROVE Observation(o)
  <1> DEFINE same == [entries |-> entries, pend |-> pend, next |-> next, failed |-> failed]
             e == entries[pend.req].outcome
             found == [same EXCEPT !.pend = None, !.next = pend.nonce + 1,
                              !.entries[pend.req].outcome =
                                 [@ EXCEPT !.block = TRUE,
                                           !.phase = IF pend \in paid THEN "Completed"
                                                     ELSE "Rejected"]]
             overdue == [same EXCEPT !.entries[pend.req].outcome.phase = "Inconclusive"]
  <1>1. Observation(same) BY DEF Observation, TypeOK
  <1>2. CASE pend = None BY <1>1, <1>2 DEF Observations
  <1>3. CASE pend # None
    <2>1. /\ pend.req \in Requests /\ entries[pend.req] # None /\ e # None /\ pend \in Tx
          /\ entries[pend.req] \in Entry
      BY <1>3 DEF TypeOK, CoreInv, PendingInv, HasOutcome
    <2>2. e \in Execution BY <2>1 DEF Entry
    <2>3. /\ [e EXCEPT !.block = TRUE, !.phase = IF pend \in paid THEN "Completed" ELSE "Rejected"]
               \in Execution
          /\ [e EXCEPT !.phase = "Inconclusive"] \in Execution
      BY <2>2 DEF Execution
    <2>4. /\ found.entries = [entries EXCEPT ![pend.req] = [@ EXCEPT !.outcome = [e EXCEPT !.block = TRUE,
                                  !.phase = IF pend \in paid THEN "Completed" ELSE "Rejected"]]]
          /\ found.pend = None /\ found.next = pend.nonce + 1 /\ found.failed = failed
      OBVIOUS
    <2>5. /\ overdue.entries = [entries EXCEPT ![pend.req] = [@ EXCEPT !.outcome =
                                                  [e EXCEPT !.phase = "Inconclusive"]]]
          /\ overdue.pend = pend /\ overdue.next = next /\ overdue.failed = failed
      OBVIOUS
    <2>6. Observation(found)
      <3>1. pend.nonce + 1 \in Nat BY <2>1 DEF Tx
      <3>2. found.entries \in [Requests -> Entry \cup {None}]
        BY <2>1, <2>3, <2>4, OutcomeType
      <3> QED BY <2>4, <3>1, <3>2 DEF Observation, TypeOK
    <2>7. Observation(overdue)
      <3>1. overdue.entries \in [Requests -> Entry \cup {None}]
        BY <2>1, <2>3, <2>5, OutcomeType
      <3> QED BY <2>5, <3>1 DEF Observation, TypeOK
    <2>8. o \in {same, found, overdue}
      <3> HIDE DEF found, overdue
      <3> QED BY <1>3, <2>1 DEF Observations, found, overdue
    <2> QED BY <1>1, <2>6, <2>7, <2>8
  <1> QED BY <1>2, <1>3

Labels == {"pick", "drain", "report"}

LEMMA StartFlushType ==
  ASSUME NEW es, NEW label \in Labels, StartFlush(es, label)
  PROVE  todo' \subseteq Requests /\ wpc' \in Labels \cup {"flush"} /\ after' \in Labels
  BY DEF StartFlush, Labels

LEMMA NextFlushType ==
  ASSUME TypeOK, NEW r, NextFlush(r) \/ EndFlush, wpc = "flush"
  PROVE  todo' \subseteq Requests /\ wpc' \in Labels \cup {"flush"} /\ after' \in Labels
  BY DEF NextFlush, EndFlush, TypeOK, Labels

LEMMA BeginType ==
  ASSUME TypeOK, CoreInv, env' = env, Begin \/ ObserveOutage PROVE TypeOK'
  <1>0. Requests' = Requests BY DEF Requests
  <1>1. CASE Begin
    <2>1. PICK o \in Observations :
             LET es == IF shutdown THEN DrainRefused(o.entries) ELSE o.entries
             IN  /\ entries' = es /\ pend' = o.pend /\ next' = o.next /\ failed' = o.failed
                 /\ StartFlush(es, IF shutdown THEN "drain" ELSE "pick")
      BY <1>1 DEF Begin
    <2>2. Observation(o) BY ObservationType
    <2>3. DrainRefused(o.entries) \in [Requests -> Entry \cup {None}]
      <3> SUFFICES ASSUME NEW r \in Requests, o.entries[r] # None
                   PROVE  [o.entries[r] EXCEPT !.outcome = Refusal("Expired")] \in Entry
        BY <2>2 DEF DrainRefused, Observation
      <3>1. o.entries[r] \in Entry BY <2>2 DEF Observation
      <3> QED BY <3>1, RefusalType DEF Entry
    <2>4. entries' \in [Requests -> Entry \cup {None}] BY <2>1, <2>2, <2>3 DEF Observation
    <2>5. todo' \subseteq Requests /\ wpc' \in Labels \cup {"flush"} /\ after' \in Labels
      BY <2>1, StartFlushType DEF Labels
    <2>6. snap' \in Snapshot BY <1>1 DEF Begin, Snapshot, TypeOK, Report
    <2>7. /\ UNCHANGED <<obj, late, cur, notices, rescan, last, report, pub, chainVars>>
          /\ WorkerOnly
      BY <1>1 DEF Begin
    <2>8. pend' \in Tx \cup {None} /\ next' \in Nat \cup {None} /\ failed' \in BOOLEAN
      BY <2>1, <2>2 DEF Observation
    <2> QED BY <1>0, <2>4, <2>5, <2>6, <2>7, <2>8 DEF WorkerOnly, TypeOK, Labels
  <1>2. CASE ObserveOutage
    <2>1. PICK o \in Observations :
             entries' = o.entries /\ pend' = o.pend /\ next' = o.next /\ failed' = o.failed
      BY <1>2 DEF ObserveOutage
    <2>2. Observation(o) BY ObservationType
    <2>7. /\ UNCHANGED <<obj, late, stepVars, notices, rescan, last, report, pub, chainVars>>
          /\ WorkerOnly
      BY <1>2 DEF ObserveOutage
    <2> QED BY <1>0, <2>1, <2>2, <2>7 DEF WorkerOnly, TypeOK, Observation
  <1> QED BY <1>1, <1>2

\* The request that a flush is at.
LEMMA FlushAt ==
  ASSUME TypeOK, CoreInv, wpc = "flush"
  PROVE  LET r == First(todo)
         IN  /\ r \in todo /\ r \in Requests /\ entries[r] \in Entry /\ entries[r] # None
             /\ entries[r].outcome # None /\ entries[r].outcome \in Execution
  <1>1. todo # {} /\ todo \subseteq Requests /\ todo \in SUBSET Nat
    BY RequestsFinite DEF CoreInv, StepInv, TypeOK
  <1>2. First(todo) \in todo BY <1>1, FirstIn
  <1>3. HasOutcome(First(todo)) BY <1>2 DEF CoreInv, StepInv
  <1>4. entries[First(todo)] \in Entry BY <1>1, <1>2, <1>3 DEF TypeOK, HasOutcome
  <1> QED BY <1>1, <1>2, <1>3, <1>4 DEF HasOutcome, Entry

LEMMA FlushType ==
  ASSUME TypeOK, CoreInv, env' = env, wpc = "flush",
         flushDeleted \/ (\E acked \in Acks : flush(acked)) \/ flushGivenUp \/ flushFailed
  PROVE  TypeOK'
  <1>0. Requests' = Requests BY DEF Requests
  <1> DEFINE r == First(todo)
  <1>1. /\ r \in todo /\ r \in Requests /\ entries[r] \in Entry /\ entries[r] # None
        /\ entries[r].outcome # None /\ entries[r].outcome \in Execution
    BY FlushAt
  <1>2. WithOutcome(r) \in Object BY <1>1, ObjectUpdates DEF WithOutcome, TypeOK
  <1> DEFINE step == todo' \subseteq Requests /\ wpc' \in Labels \cup {"flush"} /\ after' \in Labels
             kept == [entries EXCEPT ![r] = [@ EXCEPT !.orphaned = TRUE]]
             retained == [req |-> r, exec |-> entries[r].outcome]
  <1>3. kept \in [Requests -> Entry \cup {None}]
    <2>1. [entries[r] EXCEPT !.orphaned = TRUE] \in Entry BY <1>1 DEF Entry
    <2> QED BY <1>1, <2>1 DEF TypeOK
  <1>4. \A es \in [Requests -> Entry \cup {None}] : Released(es, r) \in [Requests -> Entry \cup {None}]
    BY DEF Released, forgetEntry
  <1>5. retained \in Retained BY <1>1, RequestsFinite DEF Retained
  <1> HIDE DEF r, kept, retained
  <1>6. CASE flushDeleted
    <2>1. /\ last' = retained
          /\ \/ entries' = Released(kept, r) /\ NextFlush(r)
             \/ entries' = kept /\ EndFlush
      BY <1>6 DEF flushDeleted, r, kept, retained
    <2>2. step BY <2>1, NextFlushType
    <2>3. entries' \in [Requests -> Entry \cup {None}] BY <2>1, <1>3, <1>4
    <2>4. /\ UNCHANGED <<obj, late, snap, cur, notices, rescan, failed, pend, next, report, pub,
                         chainVars>>
          /\ WorkerOnly
      BY <1>6 DEF flushDeleted
    <2> QED BY <1>0, <1>5, <2>1, <2>2, <2>3, <2>4 DEF WorkerOnly, TypeOK, Labels
  <1>7. ASSUME NEW acked \in Acks, flush(acked) PROVE TypeOK'
    <2>1. /\ UNCHANGED <<obj, late>> \/ Commit(r, WithOutcome(r))
          /\ \/ entries' = Released(entries, r) /\ NextFlush(r)
             \/ entries' = entries /\ EndFlush
      BY <1>7 DEF flush, r
    <2>2. step BY <2>1, NextFlushType
    <2>3. entries' \in [Requests -> Entry \cup {None}] BY <2>1, <1>4 DEF TypeOK
    <2>4. UNCHANGED <<snap, cur, notices, rescan, last, failed, pend, next, report, pub, chainVars>>
          /\ WorkerOnly
      BY <1>7 DEF flush
    <2>5. obj' \in [Requests -> Object] /\ late' \subseteq Late
      BY <2>1, <1>1, <1>2, CommitType DEF TypeOK
    <2> QED BY <1>0, <2>2, <2>3, <2>4, <2>5 DEF WorkerOnly, TypeOK, Labels
  <1>8. CASE flushGivenUp \/ flushFailed
    <2>1. EndFlush /\ (GiveUp(r, WithOutcome(r)) \/ UNCHANGED <<obj, late>>)
      BY <1>8 DEF flushGivenUp, flushFailed, r
    <2>2. step BY <2>1, NextFlushType
    <2>4. UNCHANGED <<snap, cur, roleVars, report, pub, chainVars>> /\ WorkerOnly
      BY <1>8 DEF flushGivenUp, flushFailed
    <2>5. obj' \in [Requests -> Object] /\ late' \subseteq Late
      BY <2>1, <1>1, <1>2, GiveUpType DEF TypeOK
    <2> QED BY <1>0, <2>2, <2>4, <2>5 DEF WorkerOnly, TypeOK, Labels
  <1> QED BY <1>6, <1>7, <1>8

\* Set entries, and a second flush.
LEMMA ConcludeType ==
  ASSUME TypeOK, NEW es \in [Requests -> Entry \cup {None}], Conclude(es)
  PROVE  /\ entries' \in [Requests -> Entry \cup {None}] /\ cur' = None /\ snap' = snap
         /\ todo' \subseteq Requests /\ wpc' \in Labels \cup {"flush"} /\ after' \in Labels
  BY StartFlushType DEF Conclude, Labels

Pcs == {"idle", "flush", "pick", "offer", "submit", "drain", "report", "dead"}

LEMMA DispatchType ==
  ASSUME TypeOK, NEW es \in [Requests -> Entry \cup {None}], NEW r \in Requests, es[r] # None,
         Dispatch(es, r)
  PROVE  /\ entries' \in [Requests -> Entry \cup {None}] /\ cur' \in Requests \cup {None}
         /\ snap' = snap /\ todo' \subseteq Requests /\ wpc' \in Pcs /\ after' \in Labels
  <1> DEFINE refused == [es EXCEPT ![r] = [@ EXCEPT !.outcome = Refusal("Expired")]]
  <1>1. refused \in [Requests -> Entry \cup {None}]
    <2>1. [es[r] EXCEPT !.outcome = Refusal("Expired")] \in Entry BY RefusalType DEF Entry
    <2> QED BY <2>1
  <1> HIDE DEF refused
  <1>2. CASE Conclude(refused) BY <1>1, <1>2, ConcludeType DEF Labels, Pcs
  <1>3. CASE /\ entries' = es
             /\ \/ Goto("report") /\ UNCHANGED cur
                \/ Goto("offer") /\ cur' = r
    BY <1>3 DEF Goto, TypeOK, Pcs, Labels
  <1> QED BY <1>2, <1>3 DEF Dispatch, refused

LEMMA PickType ==
  ASSUME TypeOK, env' = env, pick PROVE TypeOK'
  <1>0. Requests' = Requests BY DEF Requests
  <1> DEFINE step == /\ entries' \in [Requests -> Entry \cup {None}] /\ cur' \in Requests \cup {None}
                     /\ snap' = snap /\ todo' \subseteq Requests /\ wpc' \in Pcs /\ after' \in Labels
                     /\ notices' \in [Requests -> {"none", "hint", "tombstone"}]
                     /\ failed' \in BOOLEAN
  <1>1. CASE Goto("report") /\ UNCHANGED <<cur, entries, notices, failed>>
    <2> step BY <1>1 DEF Goto, TypeOK, Labels, Pcs
    <2> QED BY <1>0 DEF pick, WorkerOnly, TypeOK, Labels, Pcs
  <1>2. ASSUME NEW r \in Unsent, Dispatch(entries, r), UNCHANGED <<notices, failed>> PROVE TypeOK'
    <2>1. r \in Requests /\ entries[r] # None BY DEF Unsent, Entries
    <2>2. step BY <1>2, <2>1, DispatchType DEF TypeOK
    <2> QED BY <1>0, <2>2 DEF pick, WorkerOnly, TypeOK, Labels, Pcs
  <1>3. ASSUME NEW r \in Eligible, pickNotice(r) PROVE TypeOK'
    <2>1. r \in Requests BY DEF Eligible, Noticed
    <2> DEFINE entry == [outcome |-> None, orphaned |-> FALSE, deleting |-> obj[r].state = "deleting"]
               es == [entries EXCEPT ![r] = entry]
    <2>2. entry \in Entry BY DEF Entry
    <2>3. es \in [Requests -> Entry \cup {None}] /\ es[r] # None
      BY <2>1, <2>2, NoneAssumption DEF TypeOK
    <2> HIDE DEF es
    <2>4. dropNotice(r) => notices' \in [Requests -> {"none", "hint", "tombstone"}]
      BY DEF dropNotice, TypeOK
    <2>5. CASE Goto("report") /\ UNCHANGED <<cur, entries>>
      <3>1. failed' \in BOOLEAN /\ notices' \in [Requests -> {"none", "hint", "tombstone"}]
        BY <1>3, <2>4 DEF pickNotice, TypeOK
      <3>2. step BY <2>5, <3>1 DEF Goto, TypeOK, Labels, Pcs
      <3> QED BY <1>0, <3>2 DEF pick, WorkerOnly, TypeOK, Labels, Pcs
    <2>6. CASE dropNotice(r) /\ UNCHANGED failed /\ Dispatch(es, r)
      <3>1. step BY <2>1, <2>3, <2>4, <2>6, DispatchType DEF TypeOK
      <3> QED BY <1>0, <3>1 DEF pick, WorkerOnly, TypeOK, Labels, Pcs
    <2> QED BY <1>3, <2>5, <2>6 DEF pickNotice, es
  <1> QED BY <1>1, <1>2, <1>3 DEF pick

LEMMA RefuseType ==
  ASSUME TypeOK, env' = env, refuse \/ rescanNotices PROVE TypeOK'
  <1>0. Requests' = Requests BY DEF Requests
  <1>1. CASE refuse
    <2>1. Goto("report") /\ cur' = None /\ UNCHANGED <<obj, late, roleVars, report, pub, chainVars>>
          /\ WorkerOnly
      BY <1>1 DEF refuse
    <2> QED BY <1>0, <2>1 DEF Goto, WorkerOnly, TypeOK
  <1>2. CASE rescanNotices
    <2>1. rescan' \in BOOLEAN /\ notices' \in [Requests -> {"none", "hint", "tombstone"}]
      BY <1>2 DEF rescanNotices, TypeOK
    <2>2. /\ UNCHANGED <<obj, late, stepVars, entries, last, failed, pend, next, report, pub,
                         chainVars>>
          /\ WorkerOnly
      BY <1>2 DEF rescanNotices
    <2> QED BY <1>0, <2>1, <2>2 DEF WorkerOnly, TypeOK
  <1> QED BY <1>1, <1>2

LEMMA OfferType ==
  ASSUME TypeOK, CoreInv, env' = env, Offer PROVE TypeOK'
  <1>0. Requests' = Requests BY DEF Requests
  <1>1. cur \in Requests /\ entries[cur] # None BY DEF Offer, CoreInv, StepInv
  <1>2. next' \in Nat BY DEF Offer, TypeOK
  <1> DEFINE step == /\ entries' \in [Requests -> Entry \cup {None}] /\ cur' \in Requests \cup {None}
                     /\ snap' = snap /\ todo' \subseteq Requests /\ wpc' \in Pcs /\ after' \in Labels
  <1>3. \A p \in {"Rejected", "Expired"} : noSend(cur, p) \in [Requests -> Entry \cup {None}]
    BY <1>1, OutcomeType, RefusalType DEF noSend
  <1>4. forgetEntry(entries, cur) \in [Requests -> Entry \cup {None}] BY DEF forgetEntry, TypeOK
  <1>5. CASE Goto("report") /\ cur' = None /\ UNCHANGED entries
    <2> step BY <1>5 DEF Goto, TypeOK, Labels, Pcs
    <2> QED BY <1>0, <1>2 DEF Offer, WorkerOnly, TypeOK, Labels, Pcs
  <1>6. CASE \/ Conclude(noSend(cur, "Rejected")) \/ Conclude(noSend(cur, "Expired"))
             \/ Conclude(forgetEntry(entries, cur))
    <2> step BY <1>3, <1>4, <1>6, ConcludeType DEF Labels, Pcs
    <2> QED BY <1>0, <1>2 DEF Offer, WorkerOnly, TypeOK, Labels, Pcs
  <1>7. CASE Goto("submit") /\ UNCHANGED <<cur, entries>>
    <2> step BY <1>7 DEF Goto, TypeOK, Labels, Pcs
    <2> QED BY <1>0, <1>2 DEF Offer, WorkerOnly, TypeOK, Labels, Pcs
  <1> QED BY <1>5, <1>6, <1>7 DEF Offer, authorize

\* The three answers to a submission.
Submission(outcome, p, w) ==
    /\ Submitting(outcome, p, w)
    /\ \/ outcome = Sent("Submitted") /\ p = Transfer /\ w = wire \cup {Transfer}
       \/ outcome = Sent("Inconclusive") /\ p = Transfer /\ w \in {wire, wire \cup {Transfer}}
       \/ outcome = [Sent("Rejected") EXCEPT !.refused = TRUE] /\ p = None /\ w = wire

LEMMA SubmissionCases ==
  ASSUME submitAccepted \/ (\E d \in BOOLEAN : submitUncertain(d)) \/ submitRefused
  PROVE  \E outcome, p, w : Submission(outcome, p, w)
  BY DEF submitAccepted, submitUncertain, submitRefused, Submission

LEMMA SubmitType ==
  ASSUME TypeOK, CoreInv, env' = env, NEW outcome, NEW p, NEW w, Submission(outcome, p, w)
  PROVE  TypeOK'
  <1>0. Requests' = Requests BY DEF Requests
  <1>1. cur \in Requests /\ entries[cur] # None /\ next \in Nat
    BY DEF Submission, Submitting, CoreInv, StepInv, TypeOK
  <1>2. Transfer \in Tx BY <1>1, RequestsFinite DEF Transfer, Tx
  <1>3. outcome \in Execution
    <2>1. \A ph \in {"Submitted", "Inconclusive", "Rejected"} : Sent(ph) \in Execution
      BY <1>2 DEF Sent, Execution
    <2>2. [Sent("Rejected") EXCEPT !.refused = TRUE] \in Execution
      BY <2>1 DEF Execution
    <2> QED BY <2>1, <2>2 DEF Submission
  <1> DEFINE es == [entries EXCEPT ![cur] = [@ EXCEPT !.outcome = outcome]]
  <1>4. es \in [Requests -> Entry \cup {None}] BY <1>1, <1>3, OutcomeType
  <1> HIDE DEF es
  <1>5. Conclude(es) BY DEF Submission, Submitting, es
  <1>6. /\ entries' \in [Requests -> Entry \cup {None}] /\ cur' = None /\ snap' = snap
        /\ todo' \subseteq Requests /\ wpc' \in Labels \cup {"flush"} /\ after' \in Labels
    BY <1>4, <1>5, ConcludeType
  <1>7. sends' \in [Requests -> Nat]
    <2>1. sends' = [sends EXCEPT ![cur] = @ + 1] /\ sends \in [Requests -> Nat]
      BY DEF Submission, Submitting, TypeOK
    <2> QED BY <1>1, <2>1
  <1>8. pend' = p /\ wire' = w BY DEF Submission, Submitting
  <1>9. pend' \in Tx \cup {None} /\ wire' \subseteq Tx /\ wire \subseteq wire'
    BY <1>2, <1>8 DEF Submission, TypeOK
  <1>10. /\ UNCHANGED <<obj, late, notices, rescan, last, failed, next, report, pub, acct, paid,
                        aborted>>
         /\ WorkerOnly
    BY DEF Submission, Submitting
  <1> QED BY <1>0, <1>6, <1>7, <1>9, <1>10 DEF WorkerOnly, TypeOK, Labels

LEMMA DrainType ==
  ASSUME TypeOK, env' = env, drainNotice PROVE TypeOK'
  <1>0. Requests' = Requests BY DEF Requests
  <1>1. PICK r \in Eligible :
         IF ~Exists(r) \/ Settled(obj[r])
         THEN dropNotice(r) /\ UNCHANGED <<wpc, todo, after, entries, failed>>
         ELSE IF obj[r].exec # None
         THEN /\ failed' = TRUE /\ wpc' = "report"
              /\ UNCHANGED <<notices, todo, after, entries>>
         ELSE LET es == [entries EXCEPT ![r] = [outcome |-> Refusal("Expired"),
                                                deleting |-> obj[r].state = "deleting",
                                                orphaned |-> FALSE]]
              IN  /\ dropNotice(r) /\ entries' = es /\ StartFlush(es, "drain")
                  /\ UNCHANGED failed
    BY DEF drainNotice
  <1>2. notices' \in [Requests -> {"none", "hint", "tombstone"}] /\ failed' \in BOOLEAN
    BY <1>1 DEF dropNotice, TypeOK
  <1>3. [outcome |-> Refusal("Expired"), deleting |-> obj[r].state = "deleting",
         orphaned |-> FALSE] \in Entry
    BY RefusalType DEF Entry
  <1>4. entries' \in [Requests -> Entry \cup {None}] BY <1>1, <1>3 DEF TypeOK
  <1>5. todo' \subseteq Requests /\ wpc' \in Pcs /\ after' \in Labels
    BY <1>1, StartFlushType DEF TypeOK, Labels, Pcs
  <1>6. UNCHANGED <<obj, late, snap, cur, rescan, last, pend, next, report, pub, chainVars>>
        /\ WorkerOnly
    BY DEF drainNotice
  <1> QED BY <1>0, <1>2, <1>4, <1>5, <1>6 DEF WorkerOnly, TypeOK, Labels, Pcs

\* The report is well-formed.
LEMMA ResultType ==
  ASSUME TypeOK,
         NEW p \in {"Inactive", "Active", "Failed", "Draining", "Settled", "Unsettled"}
  PROVE  Result(p) \in Report
  <1> DEFINE O == {r \in Entries : entries[r].orphaned /\ ~TerminalExecution(entries[r].outcome)}
  <1>1. Entries \in SUBSET Requests /\ Noticed \in SUBSET Requests /\ O \in SUBSET Requests
    BY DEF Entries, Noticed
  <1>2. Cardinality(Entries) \in Nat /\ Cardinality(Noticed) \in Nat /\ Cardinality(O) \in Nat
    BY <1>1, CountType
  <1> HIDE DEF O
  <1>3. Held \in Nat BY <1>2 DEF Held
  <1>4. Result(p) = [active |-> Held, orphaned |-> Cardinality(O), last |-> last, phase |-> p]
    BY DEF Result, O
  <1> QED BY <1>2, <1>3, <1>4 DEF Report, TypeOK

Publishing ==
    \/ \E committed \in Commits, acked \in Acks : publish(committed, acked)
    \/ \E committed \in Commits : publishDraining(committed) \/ acknowledge(committed)

LEMMA PublishType ==
  ASSUME TypeOK, env' = env, Publishing \/ republish PROVE TypeOK'
  <1>0. Requests' = Requests BY DEF Requests
  <1>1. CASE Publishing
    <2>1. /\ pub' \in Report /\ report' \in Report \cup {None}
      BY <1>1, ResultType DEF Publishing, publish, publishDraining, acknowledge, TypeOK
    <2>2. ReportOnly BY <1>1 DEF Publishing, publish, publishDraining, acknowledge
    <2>3. snap' \in Snapshot BY <2>2 DEF ReportOnly, NoSnapshot, Snapshot
    <2> QED BY <1>0, <2>1, <2>2, <2>3 DEF ReportOnly, WorkerOnly, TypeOK
  <1>2. CASE republish
    BY <1>0, <1>2 DEF republish, WorkerOnly, TypeOK
  <1> QED BY <1>1, <1>2

LEMMA SurroundingsType ==
  ASSUME TypeOK, env' = env, Surroundings PROVE TypeOK'
  <1>0. Requests' = Requests BY DEF Requests
  <1>1. ASSUME NEW r \in Requests, Expire(r) PROVE TypeOK'
    BY <1>0, <1>1 DEF Expire, Environment, TypeOK
  <1>2. ASSUME NEW r \in Requests, NEW to \in {"deleting", "gone"}, Delete(r, to) PROVE TypeOK'
    <2>1. [obj[r] EXCEPT !.state = to] \in Object BY ObjectUpdates DEF TypeOK
    <2>2. Commit(r, [obj[r] EXCEPT !.state = to]) BY <1>2 DEF Delete
    <2>3. obj' \in [Requests -> Object] /\ late' \subseteq Late BY <2>1, <2>2, CommitType
    <2>4. UNCHANGED <<expired, rootVars, chainVars>> /\ Environment BY <1>2 DEF Delete
    <2> QED BY <1>0, <2>3, <2>4 DEF Environment, TypeOK
  <1>3. CASE Pause \/ Stop \/ RecordShutdown
    <2>1. root' \in {"Running", "Paused", "Stopped"} /\ shutdown' \in BOOLEAN
      BY <1>3 DEF Pause, Stop, RecordShutdown, TypeOK
    <2>2. UNCHANGED <<obj, late, expired, chainVars>> /\ Environment
      BY <1>3 DEF Pause, Stop, RecordShutdown
    <2> QED BY <1>0, <2>1, <2>2 DEF Environment, TypeOK
  <1>4. CASE Crash
    BY <1>0, <1>4 DEF Crash, TypeOK
  <1>5. CASE ForeignTransfer
    BY <1>0, <1>5 DEF ForeignTransfer, Environment, TypeOK
  <1>6. ASSUME NEW t \in wire, NEW ok \in BOOLEAN, Include(t, ok) PROVE TypeOK'
    <2>1. acct' \in Nat /\ paid' \subseteq wire /\ aborted' \subseteq wire
      BY <1>6 DEF Include, TypeOK
    <2>2. UNCHANGED <<obj, late, expired, rootVars, wire, sends>> /\ Environment
      BY <1>6 DEF Include
    <2> QED BY <1>0, <2>1, <2>2 DEF Environment, TypeOK
  <1> QED BY <1>1, <1>2, <1>3, <1>4, <1>5, <1>6 DEF Surroundings

LEMMA LandType ==
  ASSUME TypeOK, CoreInv, env' = env, NEW s \in late, Land(s) PROVE TypeOK'
  <1>0. Requests' = Requests BY DEF Requests
  <1>1. s.req \in Requests /\ s.obj \in Object BY DEF CoreInv, Objects, TypeOK, Late
  <1>2. obj' \in [Requests -> Object] /\ late' \subseteq Late BY <1>1, CommitType DEF Land
  <1> QED BY <1>0, <1>2 DEF Land, TypeOK

LEMMA TypeStep ==
  ASSUME TypeOK, CoreInv, [Next]_<<env, vars>> PROVE TypeOK'
  <1>1. CASE Next
    <2>0. env' = env BY <1>1 DEF Next
    <2>1. CASE Step
      <3>1. CASE Begin \/ ObserveOutage BY <2>0, <3>1, BeginType
      <3>2. CASE flushDeleted \/ (\E acked \in Acks : flush(acked)) \/ flushGivenUp \/ flushFailed
        <4>1. wpc = "flush" BY <3>2 DEF flushDeleted, flush, flushGivenUp, flushFailed
        <4> QED BY <2>0, <3>2, <4>1, FlushType
      <3>3. CASE pick BY <2>0, <3>3, PickType
      <3>4. CASE refuse \/ rescanNotices BY <2>0, <3>4, RefuseType
      <3>5. CASE Offer BY <2>0, <3>5, OfferType
      <3>6. CASE submitAccepted \/ (\E d \in BOOLEAN : submitUncertain(d)) \/ submitRefused
        BY <2>0, <3>6, SubmissionCases, SubmitType
      <3>7. CASE drainNotice BY <2>0, <3>7, DrainType
      <3>8. CASE Publishing \/ republish BY <2>0, <3>8, PublishType
      <3> QED BY <2>1, <3>1, <3>2, <3>3, <3>4, <3>5, <3>6, <3>7, <3>8 DEF Step, Publishing
    <2> QED BY <1>1, <2>0, <2>1, ControllerType, EventType, SurroundingsType, LandType DEF Next
  <1>2. CASE UNCHANGED <<env, vars>> BY <1>2 DEF vars, TypeOK, Requests
  <1> QED BY <1>1, <1>2

-----------------------------------------------------------------------------
(* One request: what does not concern it, and what may be written to it *)

\* Nothing is sent for r, and inclusion of what was sent is all that may happen to it.
Calmly(r) ==
    /\ sends'[r] = sends[r] /\ paid \subseteq paid' /\ aborted \subseteq aborted'
    /\ \A t \in wire' : t.req = r => t \in wire

LEMMA TrueFrame ==
  ASSUME NEW r, NEW e, True(r, e), Calmly(r) PROVE True(r, e)'
  BY DEF True, Calmly

LEMMA RequestFrame ==
  ASSUME NEW r, RequestInv(r), Calmly(r), obj'[r] = obj[r], entries'[r] = entries[r],
         notices'[r] # "none" => notices[r] # "none" \/ obj[r].adm = "Admitted"
  PROVE  RequestInv(r)'
  <1>1. True(r, obj[r].exec) /\ (entries[r] # None => True(r, entries[r].outcome))
    BY DEF RequestInv
  <1>2. True(r, obj[r].exec)' /\ (entries[r] # None => True(r, entries[r].outcome)')
    BY <1>1 DEF True, Calmly
  <1>3. sends'[r] = sends[r] BY DEF Calmly
  <1> QED BY <1>2, <1>3 DEF RequestInv, HasOutcome, Exists, True

\* A write that may be made to r stays one.
LEMMA WriteFrame ==
  ASSUME NEW r, NEW o, MayWrite(r, o), Calmly(r), obj'[r] = obj[r], entries'[r] = entries[r]
  PROVE  MayWrite(r, o)'
  <1>1. True(r, o.exec)' BY TrueFrame DEF MayWrite
  <1> QED BY <1>1 DEF MayWrite, HasOutcome, Exists

\* The status o is written to r; its entry stays, or goes when o has its settled outcome.
LEMMA WriteObject ==
  ASSUME TypeOK, Objects, env' = env, NEW r \in Requests, NEW o \in Object, MayWrite(r, o),
         Commit(r, o), UNCHANGED <<notices, sends, wire, paid, aborted>>,
         \A q \in Requests : q # r => entries'[q] = entries[q],
         \/ entries'[r] = entries[r]
         \/ entries'[r] = None /\ Terminal(entries[r].outcome) /\ o.exec = entries[r].outcome
  PROVE  Objects'
  <1>0. Requests' = Requests BY DEF Requests
  <1>1. obj' = [obj EXCEPT ![r] = o] /\ late' = {s \in late : s.req # r} BY DEF Commit
  <1>2. obj'[r] = o /\ \A q \in Requests : q # r => obj'[q] = obj[q]
    BY <1>1 DEF TypeOK
  <1>3. \A q \in Requests : Calmly(q) BY DEF Calmly
  <1>4. ASSUME NEW q \in Requests, q # r PROVE RequestInv(q)'
    BY <1>2, <1>3, <1>4, RequestFrame DEF Objects
  <1>5. RequestInv(r)'
    <2>1. RequestInv(r) BY DEF Objects
    <2>2. True(r, o.exec)' BY <1>3, TrueFrame DEF MayWrite
    <2>3. entries'[r] # None => True(r, entries[r].outcome)'
      BY <2>1, <1>3 DEF RequestInv, True, Calmly
    <2>4. PhaseFounded(o) BY DEF MayWrite
    <2>5. sends'[r] = sends[r] /\ notices'[r] = notices[r] OBVIOUS
    <2>6. o.state = obj[r].state /\ obj[r].state # "gone" BY DEF MayWrite, Exists
    <2>7. o.exec # None \/ entries'[r] # None \/ notices'[r] # "none" \/ sends'[r] > 0
             => o.adm = "Admitted"
      BY <2>1, <2>5 DEF RequestInv, MayWrite, HasOutcome, Undecided
    <2>8. o.exec # None /\ entries'[r] # None => entries'[r].outcome # None
      BY <2>1 DEF RequestInv, MayWrite, HasOutcome
    <2>9. Terminal(o.exec) /\ entries'[r] # None => entries'[r].outcome = o.exec
      BY <2>1 DEF RequestInv, MayWrite, HasOutcome
    <2>10. o.exec # None /\ entries'[r] = None => Terminal(o.exec)
      BY <2>1, <2>6 DEF RequestInv, MayWrite, HasOutcome, Exists
    <2>11. sends[r] <= 1 /\ (sends[r] > 0 => IF entries'[r] # None THEN entries'[r].outcome # None
                                             ELSE o.exec # None)
      BY <2>1, <2>6 DEF RequestInv, MayWrite, HasOutcome, Exists, Terminal
    <2> QED BY <1>2, <2>2, <2>3, <2>4, <2>5, <2>7, <2>8, <2>9, <2>10, <2>11
            DEF RequestInv, HasOutcome, Exists, True
  <1>6. ASSUME NEW s \in late' PROVE s.req \in Requests /\ MayWrite(s.req, s.obj)'
    <2>1. s \in late /\ s.req # r BY <1>1
    <2>2. s.req \in Requests /\ MayWrite(s.req, s.obj) BY <2>1 DEF Objects
    <2> QED BY <2>1, <2>2, <1>2, <1>3, WriteFrame
  <1> QED BY <1>0, <1>4, <1>5, <1>6 DEF Objects

\* The write of o to r is given up, or nothing is written.
LEMMA KeepObjects ==
  ASSUME TypeOK, Objects, env' = env, UNCHANGED <<obj, entries>>,
         \A r \in Requests : Calmly(r),
         \A r \in Requests : notices'[r] # "none" => notices[r] # "none" \/ obj[r].adm = "Admitted",
         \A s \in late' : \/ s \in late
                          \/ s.req \in Requests /\ MayWrite(s.req, s.obj)
  PROVE  Objects'
  <1>0. Requests' = Requests BY DEF Requests
  <1>1. ASSUME NEW q \in Requests PROVE RequestInv(q)'
    BY RequestFrame DEF Objects
  <1>2. ASSUME NEW s \in late' PROVE s.req \in Requests /\ MayWrite(s.req, s.obj)'
    <2>1. s.req \in Requests /\ MayWrite(s.req, s.obj) BY DEF Objects
    <2> QED BY <2>1, WriteFrame
  <1> QED BY <1>0, <1>1, <1>2 DEF Objects

\* A settled entry is released: its outcome is recorded, or its request is gone.
LEMMA ReleaseEntry ==
  ASSUME TypeOK, Objects, env' = env, NEW r \in Requests, UNCHANGED <<obj, late>>,
         UNCHANGED <<notices, sends, wire, paid, aborted>>,
         \A q \in Requests : q # r => entries'[q] = entries[q],
         entries'[r] = None, entries[r] # None, Terminal(entries[r].outcome),
         obj[r].exec = entries[r].outcome \/ ~Exists(r)
  PROVE  Objects'
  <1>0. Requests' = Requests BY DEF Requests
  <1>1. \A q \in Requests : Calmly(q) BY DEF Calmly
  <1>2. ASSUME NEW q \in Requests, q # r PROVE RequestInv(q)'
    BY <1>1, <1>2, RequestFrame DEF Objects
  <1>3. RequestInv(r)'
    <2>1. RequestInv(r) BY DEF Objects
    <2>2. True(r, obj[r].exec)' BY <2>1, <1>1, TrueFrame DEF RequestInv
    <2> QED BY <2>1, <2>2 DEF RequestInv, HasOutcome, Exists, Terminal
  <1>4. ASSUME NEW s \in late' PROVE s.req \in Requests /\ MayWrite(s.req, s.obj)'
    <2>1. s.req \in Requests /\ MayWrite(s.req, s.obj) BY DEF Objects
    <2>2. CASE s.req # r BY <1>1, <2>1, <2>2, WriteFrame
    <2>3. CASE s.req = r
      <3>1. Exists(r) /\ s.obj.exec = obj[r].exec BY <2>1, <2>3 DEF MayWrite
      <3>2. True(r, s.obj.exec)' BY <1>1, <2>1, <2>3, TrueFrame DEF MayWrite
      <3> QED BY <2>1, <2>3, <3>1, <3>2 DEF MayWrite, Exists
    <2> QED BY <2>2, <2>3
  <1> QED BY <1>0, <1>2, <1>3, <1>4 DEF Objects

\* What the controller writes: a decision for an undecided request, or the projected phase.
LEMMA ProjectedMayBeWritten ==
  ASSUME TypeOK, Objects, NEW r \in Requests, NEW d \in Decisions, Exists(r),
         Undecided(obj[r]) \/ d = obj[r].adm
  PROVE  MayWrite(r, Projected(r, d))
  <1> DEFINE o1 == [obj[r] EXCEPT !.adm = d]
             o == Projected(r, d)
             ph == ProjectPhase(o1, r \in expired)
  <1>1. RequestInv(r) /\ obj[r] \in Object BY DEF Objects, TypeOK
  <1>2. o1 \in Object /\ o1.adm = d /\ o1.exec = obj[r].exec /\ o1.state = obj[r].state
    BY <1>1 DEF Object
  <1> HIDE DEF o1
  <1>3. o = [o1 EXCEPT !.phase = ph] BY DEF Projected, o1
  <1>4. o.adm = d /\ o.exec = obj[r].exec /\ o.state = obj[r].state /\ o.phase = ph
    BY <1>2, <1>3 DEF Object
  <1> HIDE DEF o
  <1>5. True(r, o.exec) BY <1>1, <1>4 DEF RequestInv
  <1>6. Settled(o1) <=> Settled(o) BY <1>2, <1>4 DEF Settled, MatchingExecution
  <1>7. PhaseFounded(o)
    <2> SUFFICES ASSUME ph \in TerminalPhases
                 PROVE  \/ d \in {"Rejected", "Expired"} /\ ph = d /\ o.exec = None
                        \/ Settled(o) /\ ph = o.exec.phase
      BY <1>4 DEF PhaseFounded
    <2>1. CASE d \in {"Rejected", "Expired"}
      <3>1. ph = d BY <2>1, <1>2 DEF ProjectPhase
      <3>2. o.exec = None BY <2>1, <1>1, <1>4 DEF RequestInv, Undecided
      <3> QED BY <2>1, <3>1, <3>2
    <2>2. CASE d \notin {"Rejected", "Expired"}
      <3>1. Settled(o1) /\ ph = o1.exec.phase
        BY <2>2, <1>2 DEF ProjectPhase, TerminalPhases
      <3> QED BY <3>1, <1>2, <1>4, <1>6
    <2> QED BY <2>1, <2>2
  <1>8. obj[r].phase \in TerminalPhases => ph = obj[r].phase
    <2> SUFFICES ASSUME obj[r].phase \in TerminalPhases PROVE ph = obj[r].phase OBVIOUS
    <2>1. \/ obj[r].adm \in {"Rejected", "Expired"} /\ obj[r].phase = obj[r].adm
          \/ Settled(obj[r]) /\ obj[r].phase = obj[r].exec.phase
      BY <1>1 DEF RequestInv, PhaseFounded
    <2>2. d = obj[r].adm BY <2>1 DEF Undecided, Settled, MatchingExecution
    <2>3. CASE d \in {"Rejected", "Expired"}
      <3>1. ph = d BY <2>3, <1>2 DEF ProjectPhase
      <3> QED BY <2>1, <2>2, <2>3, <3>1 DEF Settled, MatchingExecution
    <2>4. CASE d \notin {"Rejected", "Expired"}
      <3>1. Settled(o1) /\ d = "Admitted" BY <1>2, <2>1, <2>2, <2>4 DEF Settled, MatchingExecution
      <3>2. ph = o1.exec.phase BY <1>2, <3>1, <2>4 DEF ProjectPhase
      <3> QED BY <1>2, <2>1, <2>2, <2>4, <3>2
    <2> QED BY <2>3, <2>4
  <1> QED BY <1>4, <1>5, <1>7, <1>8 DEF MayWrite, o

\* What the worker writes: the outcome that its entry has.
LEMMA OutcomeMayBeWritten ==
  ASSUME TypeOK, Objects, NEW r \in Requests, Exists(r), HasOutcome(r)
  PROVE  MayWrite(r, WithOutcome(r))
  <1> DEFINE o == WithOutcome(r)
  <1>1. RequestInv(r) /\ obj[r] \in Object BY DEF Objects, TypeOK
  <1>2. o.adm = obj[r].adm /\ o.exec = entries[r].outcome /\ o.state = obj[r].state
        /\ o.phase = obj[r].phase
    BY <1>1 DEF WithOutcome, Object
  <1> HIDE DEF o
  <1>3. obj[r].adm = "Admitted" /\ entries[r] # None /\ o.exec # None
    BY <1>1, <1>2 DEF RequestInv, HasOutcome
  <1>4. Terminal(obj[r].exec) => o.exec = obj[r].exec BY <1>1, <1>2, <1>3 DEF RequestInv
  <1>5. True(r, o.exec) BY <1>1, <1>2, <1>3 DEF RequestInv
  <1>6. PhaseFounded(o)
    <2> SUFFICES ASSUME o.phase \in TerminalPhases PROVE Settled(o) /\ o.phase = o.exec.phase
      BY DEF PhaseFounded
    <2>1. Settled(obj[r]) /\ obj[r].phase = obj[r].exec.phase
      BY <1>1, <1>2, <1>3 DEF RequestInv, PhaseFounded
    <2>2. o.exec = obj[r].exec BY <2>1, <1>4 DEF Settled, MatchingExecution, Terminal
    <2> QED BY <1>2, <2>1, <2>2 DEF Settled, MatchingExecution
  <1> QED BY <1>2, <1>3, <1>4, <1>5, <1>6 DEF MayWrite, o

-----------------------------------------------------------------------------
(* Entries: kept, opened with or without an outcome, advanced to another outcome *)

Kept(q) == entries'[q] = entries[q] /\ Calmly(q)

Opened(q) ==
    /\ obj[q].adm = "Admitted" /\ obj[q].exec = None /\ ~HasOutcome(q)
    /\ entries'[q] # None /\ True(q, entries[q].outcome)'
    /\ sends'[q] <= 1 /\ (sends'[q] > 0 => entries'[q].outcome # None)

Advanced(q) ==
    /\ HasOutcome(q) /\ ~Terminal(entries[q].outcome) /\ Calmly(q)
    /\ entries'[q] # None /\ entries'[q].outcome # None /\ True(q, entries[q].outcome)'

LEMMA EntriesChange ==
  ASSUME TypeOK, Objects, env' = env, UNCHANGED <<obj, late>>,
         \A q \in Requests : notices'[q] # "none" => notices[q] # "none" \/ obj[q].adm = "Admitted",
         \A q \in Requests : Kept(q) \/ Opened(q) \/ Advanced(q)
  PROVE  Objects'
  <1>0. Requests' = Requests BY DEF Requests
  <1>1. ASSUME NEW q \in Requests
        PROVE  RequestInv(q)' /\ \A o : MayWrite(q, o) => MayWrite(q, o)'
    <2>0. RequestInv(q) BY DEF Objects
    <2>1. CASE Kept(q)
      BY <2>0, <2>1, RequestFrame, WriteFrame DEF Kept
    <2>2. CASE Opened(q)
      <3>1. RequestInv(q)'
        BY <2>0, <2>2 DEF Opened, RequestInv, HasOutcome, Exists, Terminal, True
      <3>2. ASSUME NEW o, MayWrite(q, o) PROVE MayWrite(q, o)'
        <4>1. o.exec = None BY <2>2, <3>2 DEF MayWrite, Opened
        <4> QED BY <2>2, <3>2, <4>1 DEF MayWrite, Opened, Exists, True, Terminal
      <3> QED BY <3>1, <3>2
    <2>3. CASE Advanced(q)
      <3>1. ~Terminal(obj[q].exec) BY <2>0, <2>3 DEF Advanced, RequestInv, HasOutcome
      <3>2. True(q, obj[q].exec)' BY <2>0, <2>3 DEF Advanced, RequestInv, True, Calmly
      <3>3. sends'[q] = sends[q] BY <2>3 DEF Advanced, Calmly
      <3>4. RequestInv(q)'
        BY <2>0, <2>3, <3>1, <3>2, <3>3 DEF Advanced, RequestInv, HasOutcome, Exists
      <3>5. ASSUME NEW o, MayWrite(q, o) PROVE MayWrite(q, o)'
        <4>1. ~Terminal(o.exec) BY <2>3, <3>1, <3>5 DEF MayWrite, Advanced
        <4>2. True(q, o.exec)' BY <2>3, <3>5, TrueFrame DEF MayWrite, Advanced
        <4> QED BY <2>3, <3>5, <4>1, <4>2 DEF MayWrite, Advanced, HasOutcome, Exists
      <3> QED BY <3>4, <3>5
    <2> QED BY <2>1, <2>2, <2>3
  <1> QED BY <1>0, <1>1 DEF Objects

-----------------------------------------------------------------------------
(* The invariant is kept *)

\* Steps that leave the stream, the program counter and the reports alone.
LEMMA CoreFrame ==
  ASSUME TypeOK, CoreInv, env' = env, Objects', GrantInv',
         UNCHANGED <<entries, pend, next, wire, sends, cur, todo, report, pub, failed>>,
         paid \subseteq paid', aborted \subseteq aborted', wpc' \in {wpc, "dead"}
  PROVE  CoreInv'
  <1>0. Requests' = Requests BY DEF Requests
  <1>1. PendingInv' BY <1>0 DEF CoreInv, PendingInv, HasOutcome
  <1>2. WireInv' BY <1>0 DEF CoreInv, WireInv, NonceHeld
  <1>3. StepInv' BY <1>0 DEF CoreInv, StepInv, HasOutcome
  <1>4. SettledInv' BY DEF CoreInv, SettledInv
  <1> QED BY <1>1, <1>2, <1>3, <1>4 DEF CoreInv

LEMMA ApplyStatusCore ==
  ASSUME TypeOK, CoreInv, env' = env, NEW r \in Requests, NEW d \in Decisions, ApplyStatus(r, d),
         Exists(r), Undecided(obj[r]) \/ d = obj[r].adm, ControllerOnly
  PROVE  Objects'
  <1> DEFINE o == Projected(r, d)
  <1>1. MayWrite(r, o) BY ProjectedMayBeWritten DEF CoreInv
  <1>2. o \in Object BY ProjectedType
  <1>3. UNCHANGED <<notices, sends, wire, paid, aborted, entries>> BY DEF ControllerOnly
  <1>4. CASE Commit(r, o) BY <1>1, <1>2, <1>3, <1>4, WriteObject DEF CoreInv
  <1>5. CASE GiveUp(r, o)
    <2>1. \A s \in late' : s \in late \/ s = [req |-> r, obj |-> o] BY <1>5 DEF GiveUp
    <2>2. \A q \in Requests : Calmly(q) BY <1>3 DEF Calmly
    <2>3. UNCHANGED obj BY <1>5 DEF GiveUp
    <2> HIDE DEF o
    <2> QED BY <1>1, <1>3, <2>1, <2>2, <2>3, KeepObjects DEF CoreInv
  <1> QED BY <1>4, <1>5 DEF ApplyStatus

LEMMA ControllerCore ==
  ASSUME TypeOK, CoreInv, env' = env, Controller PROVE CoreInv'
  <1>0. Requests' = Requests BY DEF Requests
  <1>1. ASSUME NEW r \in Requests, Reconcile(r) PROVE CoreInv'
    <2>1. PICK down \in PodDown : ApplyStatus(r, IF r \in Decided THEN obj[r].adm ELSE admit(r, down))
      BY <1>1 DEF Reconcile
    <2> DEFINE d == IF r \in Decided THEN obj[r].adm ELSE admit(r, down)
    <2>2. d \in Decisions
      <3>1. obj[r].adm \in Decisions BY DEF TypeOK, Object
      <3> QED BY <3>1 DEF admit, Decisions
    <2>3. Exists(r) /\ (Undecided(obj[r]) \/ d = obj[r].adm)
      BY <1>1 DEF Reconcile, Decided, Undecided
    <2>4. ControllerOnly /\ UNCHANGED grant BY <1>1 DEF Reconcile
    <2> HIDE DEF d
    <2>5. ApplyStatus(r, d) BY <2>1 DEF d
    <2>6. Objects' BY <2>2, <2>3, <2>4, <2>5, ApplyStatusCore
    <2>7. GrantInv' BY <1>0, <2>4 DEF CoreInv, GrantInv
    <2> QED BY <2>4, <2>6, <2>7, CoreFrame DEF ControllerOnly
  <1>2. ASSUME NEW r \in Requests, Grant(r) PROVE CoreInv'
    <2>1. ControllerOnly /\ UNCHANGED <<obj, late>> /\ grant' = [req |-> r, obj |-> obj[r]]
          /\ Exists(r) /\ r \notin Decided
      BY <1>2 DEF Grant
    <2>2. Undecided(obj[r]) BY <2>1 DEF Decided, Undecided
    <2>3. obj[r].exec = None BY <2>2 DEF CoreInv, Objects, RequestInv, Undecided
    <2>4. GrantInv' BY <1>0, <2>1, <2>2, <2>3 DEF GrantInv, Exists
    <2>5. Objects'
      <3>1. \A q \in Requests : Calmly(q) BY <2>1 DEF Calmly, ControllerOnly
      <3> QED BY <2>1, <3>1, KeepObjects DEF CoreInv, ControllerOnly
    <2> QED BY <2>1, <2>4, <2>5, CoreFrame DEF ControllerOnly
  <1>3. ASSUME WriteGrant PROVE CoreInv'
    <2>1. PICK d \in Decisions : ApplyStatus(grant.req, d)
      BY <1>3 DEF WriteGrant, Decisions
    <2>2. ControllerOnly /\ grant' = None /\ obj[grant.req] = grant.obj BY <1>3 DEF WriteGrant
    <2>3. grant.req \in Requests /\ Exists(grant.req) /\ Undecided(obj[grant.req])
      BY <1>3, <2>2 DEF WriteGrant, CoreInv, GrantInv, Exists
    <2>4. Objects' BY <2>1, <2>2, <2>3, ApplyStatusCore
    <2>5. GrantInv' BY <2>2 DEF GrantInv
    <2> QED BY <2>2, <2>4, <2>5, CoreFrame DEF ControllerOnly
  <1>4. ASSUME RefuseGrant \/ RestartController PROVE CoreInv'
    <2>1. grant' = None /\ UNCHANGED <<obj, late, stepVars, roleVars, report, pub, chainVars>>
      BY <1>4 DEF RefuseGrant, RestartController, ControllerOnly
    <2>2. \A q \in Requests : Calmly(q) BY <2>1 DEF Calmly
    <2>3. Objects' BY <2>1, <2>2, KeepObjects DEF CoreInv
    <2>4. GrantInv' BY <2>1 DEF GrantInv
    <2> QED BY <2>1, <2>3, <2>4, CoreFrame
  <1> QED BY <1>1, <1>2, <1>3, <1>4 DEF Controller

\* Hints are taken of admitted requests only.
LEMMA EventCore ==
  ASSUME TypeOK, CoreInv, env' = env, Event \/ rescanNotices PROVE CoreInv'
  <1>0. Requests' = Requests BY DEF Requests
  <1>1. ASSUME UNCHANGED <<obj, late, entries, pend, next, chainVars, stepVars, report, pub, failed,
                           grant>>,
               NEW r \in Requests, \A q \in Requests : q # r => notices'[q] = notices[q],
               notices'[r] # "none" => notices[r] # "none" \/ obj[r].adm = "Admitted"
        PROVE  CoreInv'
    <2>1. \A q \in Requests : Calmly(q) BY <1>1 DEF Calmly
    <2>2. Objects' BY <1>1, <2>1, KeepObjects DEF CoreInv
    <2>3. GrantInv' BY <1>0, <1>1 DEF CoreInv, GrantInv
    <2> QED BY <1>1, <2>2, <2>3, CoreFrame
  <1>2. ASSUME NEW r \in Requests, SettledEvent(r) PROVE CoreInv'
    <2>1. notices' = [notices EXCEPT ![r] = "none"]
          /\ UNCHANGED <<obj, late, entries, pend, next, chainVars, stepVars, report, pub, failed, grant>>
      BY <1>2 DEF SettledEvent, WorkerOnly
    <2>2. notices'[r] = "none" /\ \A q \in Requests : q # r => notices'[q] = notices[q]
      BY <2>1 DEF TypeOK
    <2> QED BY <1>1, <2>1, <2>2
  <1>3. ASSUME NEW r \in Requests, NEW kind \in {"hint", "tombstone"}, CollectionChanged(r, kind)
        PROVE CoreInv'
    <2>1. notices' \in {notices, [notices EXCEPT ![r] = kind]} /\ obj[r].adm = "Admitted"
          /\ UNCHANGED <<obj, late, entries, pend, next, chainVars, stepVars, report, pub, failed, grant>>
      BY <1>3 DEF CollectionChanged, WorkerOnly
    <2>2. \A q \in Requests : q # r => notices'[q] = notices[q]
      BY <2>1 DEF TypeOK
    <2> QED BY <1>1, <2>1, <2>2
  <1>4. CASE rescanNotices
    <2>1. UNCHANGED <<obj, late, entries, pend, next, chainVars, stepVars, report, pub, failed, grant>>
      BY <1>4 DEF rescanNotices, WorkerOnly
    <2>2. \A q \in Requests : notices'[q] # "none" => notices[q] # "none" \/ obj[q].adm = "Admitted"
      BY <1>4 DEF rescanNotices, Noticed
    <2>3. \A q \in Requests : Calmly(q) BY <2>1 DEF Calmly
    <2>4. Objects' BY <2>1, <2>2, <2>3, KeepObjects DEF CoreInv
    <2>5. GrantInv' BY <1>0, <2>1 DEF CoreInv, GrantInv
    <2> QED BY <2>1, <2>4, <2>5, CoreFrame
  <1> QED BY <1>2, <1>3, <1>4 DEF Event

\* The deletion of a request, or of its last finalizer.
LEMMA DeleteObjects ==
  ASSUME TypeOK, Objects, env' = env, NEW r \in Requests, NEW to, Exists(r),
         Commit(r, [obj[r] EXCEPT !.state = to]),
         UNCHANGED <<entries, notices, sends, wire, paid, aborted>>
  PROVE  Objects'
  <1>0. Requests' = Requests BY DEF Requests
  <1>1. /\ obj' = [obj EXCEPT ![r] = [obj[r] EXCEPT !.state = to]]
        /\ late' = {s \in late : s.req # r}
    BY DEF Commit
  <1>2. \A q \in Requests : q # r => obj'[q] = obj[q] BY <1>1 DEF TypeOK
  <1>3. obj'[r] = [obj[r] EXCEPT !.state = to] BY <1>1 DEF TypeOK
  <1>4. obj'[r].adm = obj[r].adm /\ obj'[r].exec = obj[r].exec /\ obj'[r].phase = obj[r].phase
    BY <1>3 DEF TypeOK, Object
  <1>5. \A q \in Requests : Calmly(q) BY DEF Calmly
  <1>6. ASSUME NEW q \in Requests, q # r PROVE RequestInv(q)'
    BY <1>2, <1>5, <1>6, RequestFrame DEF Objects
  <1>7. RequestInv(r)'
    <2>1. RequestInv(r) BY DEF Objects
    <2>2. PhaseFounded(obj[r])' BY <2>1, <1>4 DEF RequestInv, PhaseFounded, Settled, MatchingExecution
    <2> QED BY <2>1, <2>2, <1>4 DEF RequestInv, HasOutcome, Exists, True
  <1>8. ASSUME NEW s \in late' PROVE s.req \in Requests /\ MayWrite(s.req, s.obj)'
    BY <1>1, <1>2, <1>5, WriteFrame DEF Objects
  <1> QED BY <1>0, <1>6, <1>7, <1>8 DEF Objects

LEMMA SurroundingsCore ==
  ASSUME TypeOK, CoreInv, env' = env, Surroundings PROVE CoreInv'
  <1>0. Requests' = Requests BY DEF Requests
  <1>1. ASSUME UNCHANGED <<obj, late, grant, roleVars, wire, sends, cur, todo, report, pub>>,
               paid \subseteq paid', aborted \subseteq aborted', wpc' \in {wpc, "dead"}
        PROVE  CoreInv'
    <2>1. \A q \in Requests : Calmly(q) BY <1>1 DEF Calmly
    <2>2. Objects' BY <1>1, <2>1, KeepObjects DEF CoreInv
    <2>3. GrantInv' BY <1>0, <1>1 DEF CoreInv, GrantInv
    <2> QED BY <1>1, <2>2, <2>3, CoreFrame
  <1>2. ASSUME NEW r \in Requests, Expire(r) PROVE CoreInv'
    BY <1>1, <1>2 DEF Expire, Environment
  <1>3. ASSUME NEW r \in Requests, NEW to \in {"deleting", "gone"}, Delete(r, to) PROVE CoreInv'
    <2>1. /\ Exists(r) /\ Commit(r, [obj[r] EXCEPT !.state = to])
          /\ UNCHANGED <<rootVars, chainVars>> /\ Environment
      BY <1>3 DEF Delete
    <2>2. Objects' BY <2>1, DeleteObjects DEF CoreInv, Environment
    <2>3. GrantInv' BY <1>0, <2>1 DEF CoreInv, GrantInv, Environment
    <2> QED BY <2>1, <2>2, <2>3, CoreFrame DEF Environment
  <1>4. CASE Pause \/ Stop \/ RecordShutdown
    <2>1. UNCHANGED <<obj, late, chainVars>> /\ Environment
      BY <1>4 DEF Pause, Stop, RecordShutdown
    <2> QED BY <1>1, <2>1 DEF Environment
  <1>5. CASE Crash BY <1>1, <1>5 DEF Crash
  <1>6. CASE ForeignTransfer BY <1>1, <1>6 DEF ForeignTransfer, Environment
  <1>7. ASSUME NEW t \in wire, NEW ok \in BOOLEAN, Include(t, ok) PROVE CoreInv'
    <2>1. UNCHANGED <<obj, late, wire, sends>> /\ Environment BY <1>7 DEF Include
    <2>2. paid \subseteq paid' /\ aborted \subseteq aborted' BY <1>7 DEF Include
    <2> QED BY <1>1, <2>1, <2>2 DEF Environment
  <1> QED BY <1>2, <1>3, <1>4, <1>5, <1>6, <1>7 DEF Surroundings

LEMMA LandCore ==
  ASSUME TypeOK, CoreInv, env' = env, NEW s \in late, Land(s) PROVE CoreInv'
  <1>0. Requests' = Requests BY DEF Requests
  <1>1. s.req \in Requests /\ MayWrite(s.req, s.obj) /\ s.obj \in Object
    BY DEF CoreInv, Objects, TypeOK, Late
  <1>2. /\ Commit(s.req, s.obj)
        /\ UNCHANGED <<expired, rootVars, ctlVars, stepVars, roleVars, report, pub, chainVars>>
    BY DEF Land
  <1>3. Objects' BY <1>1, <1>2, WriteObject DEF CoreInv
  <1>4. GrantInv' BY <1>0, <1>2 DEF CoreInv, GrantInv
  <1> QED BY <1>2, <1>3, <1>4, CoreFrame

-----------------------------------------------------------------------------
(* The worker's steps *)

\* Nothing was sent for a request that has no outcome: it may be refused, or taken up.
Unspent(q) ==
    /\ obj[q].adm = "Admitted" /\ obj[q].exec = None
    /\ \/ entries[q] # None /\ entries[q].outcome = None
       \/ entries[q] = None /\ Exists(q)

LEMMA UnspentEntry ==
  ASSUME CoreInv, NEW q \in Requests, entries[q] # None, entries[q].outcome = None
  PROVE  Unspent(q)
  BY DEF CoreInv, Objects, RequestInv, Unspent, HasOutcome

LEMMA UnspentUnsent ==
  ASSUME TypeOK, CoreInv, NEW q \in Requests, Unspent(q)
  PROVE  sends[q] = 0 /\ (\A t \in wire : t.req # q) /\ ~HasOutcome(q)
  <1>1. sends[q] \in Nat /\ ~(sends[q] > 0)
    BY DEF TypeOK, CoreInv, Objects, RequestInv, Unspent, HasOutcome
  <1> QED BY <1>1 DEF CoreInv, WireInv, Unspent, HasOutcome

LEMMA RefusalOpens ==
  ASSUME TypeOK, CoreInv, NEW q \in Requests, Unspent(q), entries'[q] # None,
         UNCHANGED <<sends, wire, paid, aborted>>,
         entries'[q].outcome \in {None, Refusal("Expired"), Refusal("Rejected")}
  PROVE  Opened(q)
  <1>1. sends'[q] = 0 /\ (\A t \in wire' : t.req # q) /\ ~HasOutcome(q)
    BY UnspentUnsent
  <1>2. \A p \in {"Expired", "Rejected"} : Refusal(p).phase # "Completed"
    BY DEF Refusal
  <1>3. True(q, entries[q].outcome)' BY <1>1, <1>2 DEF True
  <1> QED BY <1>1, <1>3 DEF Opened, Unspent

\* What an observation finds: nothing new, the inclusion, or that the deadline has passed.
Found == [entries[pend.req].outcome EXCEPT !.block = TRUE,
                 !.phase = IF pend \in paid THEN "Completed" ELSE "Rejected"]

Overdue == [entries[pend.req].outcome EXCEPT !.phase = "Inconclusive"]

Observed(o) ==
    /\ o.failed = failed
    /\ \/ o.entries = entries /\ o.pend = pend /\ o.next = next
       \/ /\ pend # None /\ pend \in paid \cup aborted
          /\ o.entries = [entries EXCEPT ![pend.req] = [@ EXCEPT !.outcome = Found]]
          /\ o.pend = None /\ o.next = pend.nonce + 1
       \/ /\ pend # None
          /\ o.entries = [entries EXCEPT ![pend.req] = [@ EXCEPT !.outcome = Overdue]]
          /\ o.pend = pend /\ o.next = next

LEMMA ObservationCases ==
  ASSUME TypeOK, CoreInv, NEW o \in Observations PROVE Observed(o)
  <1> DEFINE same == [entries |-> entries, pend |-> pend, next |-> next, failed |-> failed]
             found == [same EXCEPT !.pend = None, !.next = pend.nonce + 1,
                              !.entries[pend.req].outcome =
                                 [@ EXCEPT !.block = TRUE,
                                           !.phase = IF pend \in paid THEN "Completed"
                                                     ELSE "Rejected"]]
             overdue == [same EXCEPT !.entries[pend.req].outcome.phase = "Inconclusive"]
  <1>1. Observed(same) BY DEF Observed
  <1>2. CASE pend = None BY <1>1, <1>2 DEF Observations
  <1>3. CASE pend # None
    <2>1. entries[pend.req] # None
      BY <1>3 DEF CoreInv, PendingInv, HasOutcome
    <2>2. pend \in paid \cup aborted => Observed(found) BY <1>3 DEF Observed, Found
    <2>3. Observed(overdue) BY <1>3 DEF Observed, Overdue
    <2>4. \/ o = same \/ o = overdue \/ (pend \in paid \cup aborted /\ o = found)
      <3> HIDE DEF found, overdue
      <3> QED BY <1>3, <2>1 DEF Observations, found, overdue
    <2> QED BY <1>1, <2>2, <2>3, <2>4
  <1> QED BY <1>2, <1>3

\* The entry of the pending transfer moves on to a true outcome.
LEMMA ObservationAdvances ==
  ASSUME TypeOK, CoreInv, NEW q, pend # None, q = pend.req,
         UNCHANGED <<sends, wire, paid, aborted>>, entries'[q] # None,
         \/ pend \in paid \cup aborted /\ entries'[q].outcome = Found
         \/ entries'[q].outcome = Overdue
  PROVE  Advanced(q)
  <1> DEFINE e == entries[q].outcome
  <1>1. q \in Requests /\ HasOutcome(q) /\ e.tx = pend /\ e.phase \in {"Submitted", "Inconclusive"}
        /\ (\A t \in wire : t.req = q => t = pend) /\ ~e.nosend /\ pend \in Tx /\ e \in Execution
    BY DEF CoreInv, PendingInv, TypeOK, HasOutcome, Entry
  <1>2. Calmly(q) BY DEF Calmly
  <1>3. ~Terminal(e) BY <1>1 DEF Terminal, TerminalExecution
  <1>4. /\ Found \in Execution /\ Found.nosend = e.nosend /\ Found.tx = pend
        /\ Found.phase = IF pend \in paid THEN "Completed" ELSE "Rejected"
    BY <1>1 DEF Found, Execution
  <1>5. Overdue \in Execution /\ Overdue.nosend = e.nosend /\ Overdue.phase = "Inconclusive"
    BY <1>1 DEF Overdue, Execution
  <1>6. entries'[q].outcome # None BY <1>4, <1>5, NoneAssumption
  <1>7. True(q, entries[q].outcome)'
    <2>1. CASE pend \in paid \cup aborted /\ entries'[q].outcome = Found
      BY <2>1, <1>1, <1>4 DEF True
    <2>2. CASE entries'[q].outcome = Overdue
      BY <2>2, <1>1, <1>5 DEF True, TerminalExecution
    <2> QED BY <2>1, <2>2
  <1> QED BY <1>1, <1>2, <1>3, <1>6, <1>7 DEF Advanced, HasOutcome

\* Entries after an observation and, in a drain, the refusal of what has no outcome.
LEMMA ObserveObjects ==
  ASSUME TypeOK, CoreInv, env' = env, NEW o \in Observations, NEW drain \in BOOLEAN,
         entries' = IF drain THEN DrainRefused(o.entries) ELSE o.entries,
         UNCHANGED <<obj, late, notices, sends, wire, paid, aborted>>
  PROVE  Objects' /\ \A q \in Requests : HasOutcome(q) => HasOutcome(q)'
  <1>1. Observed(o) BY ObservationCases
  <1>2. entries \in [Requests -> Entry \cup {None}] BY DEF TypeOK
  <1>3. ASSUME NEW q \in Requests
        PROVE  /\ Kept(q) \/ Opened(q) \/ Advanced(q)
               /\ HasOutcome(q) => HasOutcome(q)'
    <2>1. Calmly(q) BY DEF Calmly
    <2>2. CASE o.entries[q] = entries[q]
      <3>1. CASE drain /\ entries[q] # None /\ entries[q].outcome = None
        <4>1. Unspent(q) BY <3>1, UnspentEntry
        <4>2. entries[q] \in Entry BY <3>1, <1>2
        <4>3. entries'[q] = [entries[q] EXCEPT !.outcome = Refusal("Expired")]
          BY <2>2, <3>1 DEF DrainRefused
        <4>4. entries'[q] # None /\ entries'[q].outcome = Refusal("Expired")
          <5>1. entries'[q] \in Entry BY <4>2, <4>3, RefusalType DEF Entry
          <5>2. entries'[q].outcome = Refusal("Expired") BY <4>2, <4>3 DEF Entry
          <5> QED BY <5>1, <5>2, NoneAssumption
        <4> QED BY <3>1, <4>1, <4>4, RefusalOpens DEF HasOutcome
      <3>2. CASE ~(drain /\ entries[q] # None /\ entries[q].outcome = None)
        <4>1. entries'[q] = entries[q] BY <2>2, <3>2 DEF DrainRefused
        <4> QED BY <2>1, <4>1 DEF Kept, HasOutcome
      <3> QED BY <3>1, <3>2
    <2>3. CASE o.entries[q] # entries[q]
      <3> DEFINE f == IF o.pend = None THEN Found ELSE Overdue
      <3>1. /\ pend # None /\ q = pend.req
            /\ o.entries[q] = [entries[q] EXCEPT !.outcome = f]
            /\ o.pend = None => pend \in paid \cup aborted
        BY <1>1, <1>2, <2>3 DEF Observed
      <3>2. entries[q] \in Entry /\ entries[q].outcome \in Execution
        BY <3>1, <1>2 DEF CoreInv, PendingInv, HasOutcome, Entry
      <3>3. f \in Execution BY <3>1, <3>2 DEF Found, Overdue, Execution
      <3>4. o.entries[q] \in Entry /\ o.entries[q].outcome = f BY <3>1, <3>2, <3>3 DEF Entry
      <3>5. o.entries[q] # None /\ o.entries[q].outcome # None BY <3>3, <3>4, NoneAssumption
      <3>6. entries'[q] = o.entries[q] BY <3>5 DEF DrainRefused
      <3>7. Advanced(q)
        BY <3>1, <3>4, <3>5, <3>6, ObservationAdvances
      <3> QED BY <3>5, <3>6, <3>7 DEF HasOutcome
    <2> QED BY <2>2, <2>3
  <1>4. Objects' BY <1>3, EntriesChange DEF CoreInv
  <1> QED BY <1>3, <1>4

\* The stream after an observation.
LEMMA ObserveStream ==
  ASSUME TypeOK, CoreInv, env' = env, NEW o \in Observations, NEW drain \in BOOLEAN,
         entries' = IF drain THEN DrainRefused(o.entries) ELSE o.entries,
         pend' = o.pend, next' = o.next, failed' = o.failed,
         UNCHANGED <<sends, wire, paid, aborted>>
  PROVE  /\ PendingInv' /\ WireInv' /\ failed' = FALSE
         /\ pend = None => pend' = None
  <1>0. Requests' = Requests BY DEF Requests
  <1>1. Observed(o) BY ObservationCases
  <1>2. failed' = FALSE BY <1>1 DEF Observed, CoreInv, TypeOK
  <1>3. CASE pend = None
    <2>1. pend' = None /\ next' = next BY <1>1, <1>3 DEF Observed
    <2> QED BY <1>0, <1>2, <1>3, <2>1 DEF CoreInv, PendingInv, WireInv, NonceHeld
  <1>4. CASE pend # None
    <2> DEFINE q == pend.req
    <2>1. /\ q \in Requests /\ HasOutcome(q) /\ pend \in Tx /\ pend.nonce = next
          /\ entries[q] \in Entry /\ entries[q].outcome \in Execution /\ pend.nonce \in Nat
      BY <1>4 DEF CoreInv, PendingInv, TypeOK, HasOutcome, Entry, Tx
    <2>2. CASE pend' = None
      <3>1. pend \in paid \cup aborted /\ next' = pend.nonce + 1 BY <1>1, <1>4, <2>2 DEF Observed
      <3>2. \A t \in wire : t.nonce \in Nat BY DEF TypeOK, Tx
      <3>3. WireInv'
        <4>1. ASSUME NEW t \in wire'
              PROVE  /\ t.req \in Requests' /\ sends'[t.req] > 0
                     /\ next' # None /\ (t.nonce < next' \/ t = pend')
                     /\ t \in paid' \cup aborted' \/ t = pend'
          <5>1. /\ t.req \in Requests' /\ sends'[t.req] > 0 /\ (t.nonce < next \/ t = pend)
                /\ t \in paid \cup aborted \/ t = pend
            BY <1>0 DEF CoreInv, WireInv
          <5>2. next' \in Nat BY <2>1, <3>1
          <5> QED BY <2>1, <3>1, <3>2, <5>1, <5>2, NoneAssumption
        <4>2. NonceHeld' BY DEF CoreInv, WireInv, NonceHeld
        <4> QED BY <4>1, <4>2 DEF WireInv
      <3> QED BY <1>2, <1>4, <2>2, <3>3 DEF PendingInv
    <2>3. CASE pend' # None
      <3>1. /\ pend' = pend /\ next' = next
            /\ \/ o.entries = entries
               \/ o.entries = [entries EXCEPT ![q] = [@ EXCEPT !.outcome = Overdue]]
        BY <1>1, <1>4, <2>3 DEF Observed
      <3>2. o.entries[q] = entries[q] \/ o.entries[q] = [entries[q] EXCEPT !.outcome = Overdue]
        BY <3>1, <2>1 DEF TypeOK
      <3>3. /\ Overdue \in Execution /\ Overdue.phase = "Inconclusive"
            /\ Overdue.tx = entries[q].outcome.tx /\ Overdue.nosend = entries[q].outcome.nosend
            /\ Overdue.block = entries[q].outcome.block
            /\ Overdue.refused = entries[q].outcome.refused
        BY <2>1 DEF Overdue, Execution
      <3>4. /\ o.entries[q] \in Entry /\ o.entries[q].outcome \in {entries[q].outcome, Overdue}
        BY <2>1, <3>2, <3>3 DEF Entry
      <3>5. o.entries[q] # None /\ o.entries[q].outcome # None
        BY <2>1, <3>3, <3>4, NoneAssumption DEF HasOutcome
      <3>6. entries'[q] = o.entries[q] BY <2>1, <3>5 DEF DrainRefused
      <3>7. PendingInv'
        <4>1. /\ entries[q].outcome.tx = pend /\ ~entries[q].outcome.nosend
              /\ ~entries[q].outcome.block /\ ~entries[q].outcome.refused
              /\ entries[q].outcome.phase \in {"Submitted", "Inconclusive"}
              /\ sends[q] > 0 /\ \A t \in wire : t.req = q => t = pend
          BY <1>4 DEF CoreInv, PendingInv
        <4>2. /\ entries'[q].outcome.tx = pend /\ ~entries'[q].outcome.nosend
              /\ ~entries'[q].outcome.block /\ ~entries'[q].outcome.refused
              /\ entries'[q].outcome.phase \in {"Submitted", "Inconclusive"}
          BY <3>3, <3>4, <3>6, <4>1
        <4> QED BY <1>0, <2>1, <3>1, <3>5, <3>6, <4>1, <4>2 DEF PendingInv, HasOutcome
      <3>8. WireInv' BY <1>0, <3>1 DEF CoreInv, WireInv, NonceHeld
      <3> QED BY <1>2, <1>4, <3>7, <3>8
    <2> QED BY <2>2, <2>3
  <1> QED BY <1>3, <1>4

\* A worker at work has not called itself settled.
LEMMA AtWork ==
  ASSUME CoreInv, wpc \notin {"idle", "dead"} \/ report = None, UNCHANGED <<report, pub>>
  PROVE  SettledInv'
  BY DEF CoreInv, SettledInv

\* A flush starts with the entries that have an outcome.
LEMMA FlushStep ==
  ASSUME env' = env, NEW es, NEW label \in Labels, StartFlush(es, label), entries' = es
  PROVE  StepInv'
  <1>0. Requests' = Requests BY DEF Requests
  <1> DEFINE due == {r \in Requests : es[r] # None /\ es[r].outcome # None}
  <1>1. \/ wpc' \in Labels
        \/ wpc' = "flush" /\ todo' = due /\ due # {}
    BY DEF StartFlush
  <1>2. \A r \in due : HasOutcome(r)' BY DEF HasOutcome
  <1> HIDE DEF due
  <1> QED BY <1>1, <1>2 DEF StepInv, Labels

LEMMA BeginCore ==
  ASSUME TypeOK, CoreInv, env' = env, Begin \/ ObserveOutage PROVE CoreInv'
  <1>0. Requests' = Requests BY DEF Requests
  <1>1. CASE Begin
    <2>1. PICK o \in Observations :
             LET es == IF shutdown THEN DrainRefused(o.entries) ELSE o.entries
             IN  /\ entries' = es /\ pend' = o.pend /\ next' = o.next /\ failed' = o.failed
                 /\ StartFlush(es, IF shutdown THEN "drain" ELSE "pick")
      BY <1>1 DEF Begin
    <2>2. UNCHANGED <<obj, late, cur, notices, report, pub, grant, acct, wire, paid, aborted, sends>>
      BY <1>1 DEF Begin, WorkerOnly
    <2>3. shutdown \in BOOLEAN BY DEF TypeOK
    <2>4. Objects' BY <2>1, <2>2, <2>3, ObserveObjects
    <2>5. PendingInv' /\ WireInv' /\ failed' = FALSE BY <2>1, <2>2, <2>3, ObserveStream
    <2>6. StepInv' BY <2>1, FlushStep DEF Labels
    <2>7. SettledInv' BY <1>1, <2>2, AtWork DEF Begin
    <2>8. GrantInv' BY <1>0, <2>2 DEF CoreInv, GrantInv
    <2> QED BY <2>4, <2>5, <2>6, <2>7, <2>8 DEF CoreInv
  <1>2. CASE ObserveOutage
    <2>1. PICK o \in Observations :
             entries' = o.entries /\ pend' = o.pend /\ next' = o.next /\ failed' = o.failed
      BY <1>2 DEF ObserveOutage
    <2>2. /\ UNCHANGED <<obj, late, notices, report, pub, grant, acct, wire, paid, aborted, sends>>
          /\ wpc' = wpc /\ wpc = "idle" /\ pend # None
      BY <1>2 DEF ObserveOutage, WorkerOnly
    <2>3. Objects' BY <2>1, <2>2, ObserveObjects
    <2>4. PendingInv' /\ WireInv' /\ failed' = FALSE BY <2>1, <2>2, ObserveStream
    <2>5. StepInv' BY <2>2 DEF StepInv
    <2>6. SettledInv' BY <2>2 DEF CoreInv, SettledInv
    <2>7. GrantInv' BY <1>0, <2>2 DEF CoreInv, GrantInv
    <2> QED BY <2>3, <2>4, <2>5, <2>6, <2>7 DEF CoreInv
  <1> QED BY <1>1, <1>2

\* What a flush leaves of the stream and of the rest of the flush.
LEMMA FlushRest ==
  ASSUME TypeOK, CoreInv, env' = env, wpc = "flush", NEW r \in todo, r \in Requests,
         NextFlush(r) \/ EndFlush,
         \A q \in Requests : q # r => entries'[q] = entries[q],
         \/ entries'[r] = None /\ Terminal(entries[r].outcome) /\ NextFlush(r)
         \/ entries'[r] # None /\ entries'[r].outcome = entries[r].outcome,
         UNCHANGED <<grant, pend, next, wire, paid, aborted, sends, report, pub, failed>>
  PROVE  GrantInv' /\ PendingInv' /\ WireInv' /\ StepInv' /\ SettledInv' /\ ~failed'
  <1>0. Requests' = Requests BY DEF Requests
  <1>1. GrantInv' BY <1>0 DEF CoreInv, GrantInv
  <1>2. PendingInv'
    <2> SUFFICES ASSUME pend # None PROVE PendingInv' BY DEF PendingInv
    <2>1. /\ pend.req \in Requests /\ HasOutcome(pend.req)
          /\ entries[pend.req].outcome.phase \in {"Submitted", "Inconclusive"}
      BY DEF CoreInv, PendingInv
    <2>2. ~Terminal(entries[pend.req].outcome) BY <2>1 DEF Terminal, TerminalExecution
    <2>3. entries'[pend.req] # None /\ entries'[pend.req].outcome = entries[pend.req].outcome
      BY <2>1, <2>2 DEF HasOutcome
    <2> QED BY <1>0, <2>1, <2>3 DEF CoreInv, PendingInv, HasOutcome
  <1>3. WireInv' BY <1>0 DEF CoreInv, WireInv, NonceHeld
  <1>4. StepInv'
    <2>1. CASE EndFlush BY <2>1 DEF EndFlush, StepInv
    <2>2. CASE NextFlush(r)
      <3>1. todo \subseteq Requests /\ after \in Labels BY DEF TypeOK, Labels
      <3>2. \A q \in todo : q # r => HasOutcome(q)' BY <3>1 DEF CoreInv, StepInv, HasOutcome
      <3>3. todo' = todo \ {r} /\ (wpc' = after \/ (wpc' = wpc /\ todo # {r}))
        BY <2>2 DEF NextFlush
      <3> QED BY <3>1, <3>2, <3>3 DEF StepInv, Labels
    <2> QED BY <2>1, <2>2
  <1>5. SettledInv' BY AtWork
  <1> QED BY <1>1, <1>2, <1>3, <1>4, <1>5 DEF CoreInv

LEMMA FlushCore ==
  ASSUME TypeOK, CoreInv, env' = env, wpc = "flush",
         flushDeleted \/ (\E acked \in Acks : flush(acked)) \/ flushGivenUp \/ flushFailed
  PROVE  CoreInv'
  <1>0. Requests' = Requests BY DEF Requests
  <1> DEFINE r == First(todo)
             kept == [entries EXCEPT ![r] = [@ EXCEPT !.orphaned = TRUE]]
             retained == [req |-> r, exec |-> entries[r].outcome]
  <1>1. /\ r \in todo /\ r \in Requests /\ entries[r] \in Entry /\ entries[r] # None
        /\ entries[r].outcome # None /\ entries[r].outcome \in Execution
    BY FlushAt
  <1>2. WithOutcome(r) \in Object /\ WithOutcome(r).exec = entries[r].outcome
    <2>1. obj[r] \in Object BY <1>1 DEF TypeOK
    <2>2. WithOutcome(r) \in Object BY <1>1, <2>1, ObjectUpdates DEF WithOutcome
    <2>3. WithOutcome(r).exec = entries[r].outcome BY <2>1 DEF WithOutcome, Object
    <2> QED BY <2>2, <2>3
  <1>3. \A q \in Requests : q # r => kept[q] = entries[q] BY DEF TypeOK
  <1>4. kept[r] # None /\ kept[r].outcome = entries[r].outcome /\ kept \in [Requests -> Entry \cup {None}]
    <2>1. kept[r] = [entries[r] EXCEPT !.orphaned = TRUE] BY <1>1 DEF TypeOK
    <2>2. kept[r] \in Entry /\ kept[r].outcome = entries[r].outcome BY <1>1, <2>1 DEF Entry
    <2> QED BY <1>1, <2>1, <2>2, NoneAssumption DEF TypeOK
  <1>5. \A es \in [Requests -> Entry \cup {None}] :
           es[r].outcome = entries[r].outcome =>
             /\ \A q \in Requests : q # r => Released(es, r)[q] = es[q]
             /\ \/ Released(es, r) = es
                \/ Released(es, r)[r] = None /\ Terminal(entries[r].outcome)
    BY <1>1 DEF Released, forgetEntry, Terminal
  <1>6. HasOutcome(r) BY <1>1 DEF HasOutcome
  <1> HIDE DEF r, kept, retained
  <1>7. CASE flushDeleted
    <2>1. /\ ~Exists(r)
          /\ \/ entries' = Released(kept, r) /\ NextFlush(r)
             \/ entries' = kept /\ EndFlush
      BY <1>7 DEF flushDeleted, r, kept, retained
    <2>2. UNCHANGED <<grant, obj, late, notices, failed, pend, next, report, pub, acct, wire, paid,
                      aborted, sends>>
      BY <1>7 DEF flushDeleted, WorkerOnly
    <2>3. /\ \A q \in Requests : q # r => entries'[q] = entries[q]
          /\ \/ entries'[r] = None /\ Terminal(entries[r].outcome) /\ NextFlush(r)
             \/ entries'[r] # None /\ entries'[r].outcome = entries[r].outcome
      BY <2>1, <1>3, <1>4, <1>5
    <2>4. Objects'
      <3>1. CASE entries'[r] = None
        BY <1>1, <2>1, <2>2, <2>3, <3>1, ReleaseEntry DEF CoreInv
      <3>2. CASE entries'[r] # None
        <4>1. \A q \in Requests : Calmly(q) BY <2>2 DEF Calmly
        <4>2. \A q \in Requests : /\ (entries'[q] # None) = (entries[q] # None)
                                  /\ entries'[q] # None => entries'[q].outcome = entries[q].outcome
          BY <1>1, <2>3, <3>2
        <4>3. ASSUME NEW q \in Requests PROVE RequestInv(q)'
          <5>1. RequestInv(q) BY DEF CoreInv, Objects
          <5> QED BY <2>2, <4>2, <5>1 DEF RequestInv, HasOutcome, Exists, True
        <4>4. ASSUME NEW s \in late PROVE s.req \in Requests /\ MayWrite(s.req, s.obj)'
          <5>1. s.req \in Requests /\ MayWrite(s.req, s.obj) BY DEF CoreInv, Objects
          <5> QED BY <2>2, <4>2, <5>1 DEF MayWrite, HasOutcome, Exists, True
        <4> QED BY <1>0, <2>2, <4>3, <4>4 DEF Objects
      <3> QED BY <3>1, <3>2
    <2>5. GrantInv' /\ PendingInv' /\ WireInv' /\ StepInv' /\ SettledInv' /\ ~failed'
      BY <1>1, <2>1, <2>2, <2>3, FlushRest
    <2> QED BY <2>4, <2>5 DEF CoreInv
  <1>8. ASSUME NEW acked \in Acks, flush(acked) PROVE CoreInv'
    <2>1. /\ Exists(r)
          /\ \/ obj[r] = WithOutcome(r) /\ UNCHANGED <<obj, late>>
             \/ Commit(r, WithOutcome(r))
          /\ \/ entries' = Released(entries, r) /\ NextFlush(r)
             \/ entries' = entries /\ EndFlush
      BY <1>8 DEF flush, r
    <2>2. UNCHANGED <<grant, notices, failed, pend, next, report, pub, acct, wire, paid, aborted, sends>>
      BY <1>8 DEF flush, WorkerOnly
    <2>3. /\ \A q \in Requests : q # r => entries'[q] = entries[q]
          /\ \/ entries'[r] = None /\ Terminal(entries[r].outcome) /\ NextFlush(r)
             \/ entries' = entries
      BY <2>1, <1>1, <1>5 DEF TypeOK
    <2>4. Objects'
      <3>1. CASE Commit(r, WithOutcome(r))
        <4>1. MayWrite(r, WithOutcome(r)) BY <1>1, <1>6, <2>1, OutcomeMayBeWritten DEF CoreInv
        <4> QED BY <1>1, <1>2, <2>2, <2>3, <3>1, <4>1, WriteObject DEF CoreInv
      <3>2. CASE obj[r] = WithOutcome(r) /\ UNCHANGED <<obj, late>>
        <4>1. obj[r].exec = entries[r].outcome BY <1>2, <3>2
        <4>2. CASE entries'[r] = None
          BY <1>1, <2>2, <2>3, <3>2, <4>1, <4>2, ReleaseEntry DEF CoreInv
        <4>3. CASE entries' = entries
          <5>1. \A q \in Requests : Calmly(q) BY <2>2 DEF Calmly
          <5> QED BY <2>2, <3>2, <4>3, <5>1, KeepObjects DEF CoreInv
        <4> QED BY <2>3, <4>2, <4>3
      <3> QED BY <2>1, <3>1, <3>2
    <2>5. GrantInv' /\ PendingInv' /\ WireInv' /\ StepInv' /\ SettledInv' /\ ~failed'
      BY <1>1, <2>1, <2>2, <2>3, FlushRest
    <2> QED BY <2>4, <2>5 DEF CoreInv
  <1>9. CASE flushGivenUp \/ flushFailed
    <2>1. /\ EndFlush
          /\ \/ Exists(r) /\ GiveUp(r, WithOutcome(r))
             \/ UNCHANGED <<obj, late>>
      BY <1>9 DEF flushGivenUp, flushFailed, r
    <2>2. UNCHANGED <<grant, entries, notices, failed, pend, next, report, pub, acct, wire, paid,
                      aborted, sends>>
      BY <1>9 DEF flushGivenUp, flushFailed, WorkerOnly
    <2>3. \A q \in Requests : Calmly(q) BY <2>2 DEF Calmly
    <2>4. UNCHANGED obj BY <2>1 DEF GiveUp
    <2>5. \A s \in late' : \/ s \in late
                           \/ s.req \in Requests /\ MayWrite(s.req, s.obj)
      BY <1>1, <1>6, <2>1, OutcomeMayBeWritten DEF GiveUp, CoreInv
    <2>6. Objects' BY <2>2, <2>3, <2>4, <2>5, KeepObjects DEF CoreInv
    <2>7. GrantInv' /\ PendingInv' /\ WireInv' /\ StepInv' /\ SettledInv' /\ ~failed'
      BY <1>1, <2>1, <2>2, FlushRest
    <2> QED BY <2>6, <2>7 DEF CoreInv
  <1> QED BY <1>7, <1>8, <1>9

\* Entries are opened or kept, and the stream goes on as it was.
LEMMA OpenCore ==
  ASSUME TypeOK, CoreInv, env' = env, wpc \notin {"idle", "dead"},
         UNCHANGED <<obj, late, grant, pend, wire, paid, aborted, sends, report, pub, failed>>,
         next' = next \/ (pend = None /\ next = None),
         \A q \in Requests : notices'[q] # "none" => notices[q] # "none",
         \A q \in Requests : Kept(q) \/ Opened(q), StepInv'
  PROVE  CoreInv'
  <1>0. Requests' = Requests BY DEF Requests
  <1>1. Objects' BY EntriesChange DEF CoreInv
  <1>2. PendingInv'
    <2> SUFFICES ASSUME pend # None PROVE PendingInv' BY DEF PendingInv
    <2>1. pend.req \in Requests /\ HasOutcome(pend.req) BY DEF CoreInv, PendingInv
    <2>2. entries'[pend.req] = entries[pend.req] BY <2>1 DEF Kept, Opened
    <2> QED BY <1>0, <2>1, <2>2 DEF CoreInv, PendingInv, HasOutcome
  <1>3. WireInv' BY <1>0 DEF CoreInv, WireInv, NonceHeld
  <1>4. SettledInv' BY AtWork
  <1>5. GrantInv' BY <1>0 DEF CoreInv, GrantInv
  <1> QED BY <1>1, <1>2, <1>3, <1>4, <1>5 DEF CoreInv

LEMMA DispatchCore ==
  ASSUME TypeOK, CoreInv, env' = env, wpc \notin {"idle", "dead"}, NEW r \in Requests, NEW es,
         es \in [Requests -> Entry \cup {None}], es[r] # None, es[r].outcome = None, Unspent(r),
         \A q \in Requests : q # r => es[q] = entries[q], Dispatch(es, r),
         \A q \in Requests : notices'[q] # "none" => notices[q] # "none",
         UNCHANGED <<obj, late, grant, pend, next, wire, paid, aborted, sends, report, pub, failed>>
  PROVE  CoreInv'
  <1> DEFINE refused == [es EXCEPT ![r] = [@ EXCEPT !.outcome = Refusal("Expired")]]
  <1>1. refused[r] # None /\ refused[r].outcome = Refusal("Expired")
        /\ \A q \in Requests : q # r => refused[q] = es[q]
    <2>1. es[r] \in Entry OBVIOUS
    <2>2. refused[r] = [es[r] EXCEPT !.outcome = Refusal("Expired")] OBVIOUS
    <2>3. refused[r] \in Entry /\ refused[r].outcome = Refusal("Expired")
      BY <2>1, <2>2, RefusalType DEF Entry
    <2> QED BY <2>3, NoneAssumption
  <1> HIDE DEF refused
  <1>2. \A q \in Requests : Calmly(q) BY DEF Calmly
  <1>3. CASE Conclude(refused)
    <2>1. entries' = refused /\ StartFlush(refused, "report") BY <1>3 DEF Conclude
    <2>2. StepInv' BY <2>1, FlushStep DEF Labels
    <2>3. Opened(r) BY <1>1, <2>1, RefusalOpens
    <2>4. \A q \in Requests : q # r => Kept(q) BY <1>1, <1>2, <2>1 DEF Kept
    <2> QED BY <2>2, <2>3, <2>4, OpenCore
  <1>4. CASE /\ entries' = es
             /\ \/ Goto("report")
                \/ pend = None /\ Goto("offer") /\ cur' = r
    <2>1. StepInv'
      <3>0. Requests' = Requests BY DEF Requests
      <3> QED BY <1>4, <3>0 DEF StepInv, Goto
    <2>2. Opened(r) BY <1>4, RefusalOpens
    <2>3. \A q \in Requests : q # r => Kept(q) BY <1>2, <1>4 DEF Kept
    <2> QED BY <2>1, <2>2, <2>3, OpenCore
  <1> QED BY <1>3, <1>4 DEF Dispatch, refused

\* A hint of a request that has execution evidence is of a settled one.
LEMMA NoticedKnown ==
  ASSUME CoreInv, NEW r \in Eligible, Exists(r), ~Settled(obj[r])
  PROVE  r \in Requests /\ entries[r] = None /\ obj[r].exec = None /\ Unspent(r)
  <1>1. r \in Requests /\ entries[r] = None /\ notices[r] # "none"
    BY DEF Eligible, Noticed, Entries
  <1>2. RequestInv(r) BY <1>1 DEF CoreInv, Objects
  <1>3. obj[r].exec = None /\ obj[r].adm = "Admitted"
    BY <1>1, <1>2 DEF RequestInv, Settled, MatchingExecution, Terminal
  <1> QED BY <1>1, <1>3 DEF Unspent

LEMMA PickCore ==
  ASSUME TypeOK, CoreInv, env' = env, pick PROVE CoreInv'
  <1>1. /\ UNCHANGED <<obj, late, grant, pend, next, wire, paid, aborted, sends, report, pub>>
        /\ wpc = "pick"
    BY DEF pick, WorkerOnly
  <1>2. \A q \in Requests : Calmly(q) BY <1>1 DEF Calmly
  <1>3. ASSUME Goto("report"), UNCHANGED <<entries, failed>>,
               \A q \in Requests : notices'[q] # "none" => notices[q] # "none"
        PROVE  CoreInv'
    <2>1. StepInv' BY <1>3 DEF Goto, StepInv
    <2>2. \A q \in Requests : Kept(q) BY <1>2, <1>3 DEF Kept
    <2> QED BY <1>1, <1>3, <2>1, <2>2, OpenCore
  <1>4. CASE Goto("report") /\ UNCHANGED <<cur, entries, notices, failed>> BY <1>3, <1>4
  <1>5. ASSUME NEW r \in Unsent, Dispatch(entries, r), UNCHANGED <<notices, failed>> PROVE CoreInv'
    <2>1. r \in Requests /\ entries[r] # None /\ entries[r].outcome = None BY DEF Unsent, Entries
    <2>2. Unspent(r) BY <2>1, UnspentEntry
    <2> QED BY <1>1, <1>5, <2>1, <2>2, DispatchCore DEF TypeOK
  <1>6. ASSUME NEW r \in Eligible, pickNotice(r) PROVE CoreInv'
    <2>1. r \in Requests BY DEF Eligible, Noticed
    <2>2. dropNotice(r) => \A q \in Requests : notices'[q] # "none" => notices[q] # "none"
      BY <2>1 DEF dropNotice, TypeOK
    <2>3. CASE ~Exists(r) \/ Settled(obj[r])
      BY <1>3, <1>6, <2>2, <2>3 DEF pickNotice
    <2>4. CASE ~(~Exists(r) \/ Settled(obj[r]))
      <3>1. entries[r] = None /\ obj[r].exec = None /\ Unspent(r) BY <2>4, NoticedKnown
      <3> DEFINE entry == [outcome |-> None, orphaned |-> FALSE, deleting |-> obj[r].state = "deleting"]
                 es == [entries EXCEPT ![r] = entry]
      <3>2. entry \in Entry BY DEF Entry
      <3>3. /\ es \in [Requests -> Entry \cup {None}] /\ es[r] # None /\ es[r].outcome = None
            /\ \A q \in Requests : q # r => es[q] = entries[q]
        BY <2>1, <3>2, NoneAssumption DEF TypeOK
      <3> HIDE DEF es
      <3>4. dropNotice(r) /\ UNCHANGED failed /\ Dispatch(es, r)
        BY <1>6, <2>4, <3>1 DEF pickNotice, es
      <3> QED BY <1>1, <2>1, <2>2, <3>1, <3>3, <3>4, DispatchCore
    <2> QED BY <2>3, <2>4
  <1> QED BY <1>4, <1>5, <1>6 DEF pick

LEMMA RefuseCore ==
  ASSUME TypeOK, CoreInv, env' = env, refuse PROVE CoreInv'
  <1>1. /\ UNCHANGED <<obj, late, grant, roleVars, wire, paid, aborted, sends, report, pub>>
        /\ wpc \notin {"idle", "dead"} /\ Goto("report")
    BY DEF refuse, WorkerOnly
  <1>2. \A q \in Requests : Kept(q) BY <1>1 DEF Calmly, Kept
  <1>3. StepInv' BY <1>1 DEF Goto, StepInv
  <1> QED BY <1>1, <1>2, <1>3, OpenCore

LEMMA OfferCore ==
  ASSUME TypeOK, CoreInv, env' = env, Offer PROVE CoreInv'
  <1>0. Requests' = Requests BY DEF Requests
  <1>1. /\ UNCHANGED <<obj, late, notices, failed, grant, pend, report, pub, wire, paid, aborted, sends>>
        /\ wpc = "offer" /\ next' = IF next = None THEN acct ELSE next
    BY DEF Offer, WorkerOnly
  <1>2. cur \in Requests /\ entries[cur] # None /\ entries[cur].outcome = None /\ pend = None
    BY <1>1 DEF CoreInv, StepInv
  <1>3. Unspent(cur) BY <1>2, UnspentEntry
  <1>4. \A q \in Requests : Calmly(q) BY <1>1 DEF Calmly
  <1>5. next' = next \/ (pend = None /\ next = None) BY <1>1, <1>2
  <1>6. next' # None BY <1>1, NoneAssumption DEF TypeOK
  <1>7. ASSUME UNCHANGED entries, Goto("report") \/ (Goto("submit") /\ UNCHANGED cur) PROVE CoreInv'
    <2>1. StepInv' BY <1>0, <1>1, <1>2, <1>6, <1>7 DEF Goto, StepInv
    <2>2. \A q \in Requests : Kept(q) BY <1>4, <1>7 DEF Kept
    <2> QED BY <1>1, <1>5, <2>1, <2>2, OpenCore
  <1>8. ASSUME NEW p \in {"Expired", "Rejected"}, Conclude(noSend(cur, p)) PROVE CoreInv'
    <2> DEFINE es == noSend(cur, p)
    <2>1. es[cur] # None /\ es[cur].outcome = Refusal(p) /\ \A q \in Requests : q # cur => es[q] = entries[q]
      <3>1. entries[cur] \in Entry BY <1>2 DEF TypeOK
      <3>2. es[cur] = [entries[cur] EXCEPT !.outcome = Refusal(p)] BY <1>2 DEF noSend, TypeOK
      <3>3. es[cur] \in Entry /\ es[cur].outcome = Refusal(p) BY <3>1, <3>2, RefusalType DEF Entry
      <3> QED BY <3>3, NoneAssumption DEF noSend, TypeOK
    <2> HIDE DEF es
    <2>2. entries' = es /\ StartFlush(es, "report") BY <1>8 DEF Conclude, es
    <2>3. StepInv' BY <2>2, FlushStep DEF Labels
    <2>4. ASSUME NEW q \in Requests PROVE Kept(q) \/ Opened(q)
      <3>1. CASE q = cur
        <4>1. Unspent(q) /\ entries'[q] # None /\ entries'[q].outcome = Refusal(p)
          BY <1>3, <2>1, <2>2, <3>1
        <4> QED BY <1>1, <4>1, RefusalOpens
      <3>2. CASE q # cur BY <1>4, <2>1, <2>2, <3>2 DEF Kept
      <3> QED BY <3>1, <3>2
    <2> QED BY <1>1, <1>5, <2>3, <2>4, OpenCore
  <1>9. ~(obj[cur].exec # None \/ obj[cur].phase \in TerminalPhases)
    <2>1. RequestInv(cur) BY <1>2 DEF CoreInv, Objects
    <2> QED BY <1>3, <2>1 DEF RequestInv, Unspent, PhaseFounded, Settled, MatchingExecution
  <1> QED BY <1>7, <1>8, <1>9 DEF Offer, authorize

\* The only send: nothing was sent for cur before, and nothing is pending.
LEMMA SubmitCore ==
  ASSUME TypeOK, CoreInv, env' = env, NEW outcome, NEW p, NEW w, Submission(outcome, p, w)
  PROVE  CoreInv'
  <1>0. Requests' = Requests BY DEF Requests
  <1> DEFINE es == [entries EXCEPT ![cur] = [@ EXCEPT !.outcome = outcome]]
  <1>1. /\ UNCHANGED <<obj, late, notices, failed, next, report, pub, grant, paid, aborted>>
        /\ wpc = "submit" /\ sends' = [sends EXCEPT ![cur] = @ + 1] /\ pend' = p /\ wire' = w
        /\ Conclude(es)
    BY DEF Submission, Submitting, WorkerOnly
  <1>2. cur \in Requests /\ entries[cur] # None /\ entries[cur].outcome = None /\ pend = None
        /\ next \in Nat
    BY <1>1 DEF CoreInv, StepInv, TypeOK
  <1>3. Unspent(cur) BY <1>2, UnspentEntry
  <1>4. sends[cur] = 0 /\ (\A t \in wire : t.req # cur) /\ ~HasOutcome(cur)
    BY <1>2, <1>3, UnspentUnsent
  <1>5. sends'[cur] = 1 /\ \A q \in Requests : q # cur => sends'[q] = sends[q]
    BY <1>1, <1>2, <1>4 DEF TypeOK
  <1>6. Transfer \in Tx /\ Transfer.req = cur /\ Transfer.nonce = next
    BY <1>2, RequestsFinite DEF Transfer, Tx
  <1>7. /\ outcome \in Execution /\ outcome.tx = Transfer /\ ~outcome.nosend /\ ~outcome.block
        /\ \/ /\ outcome.phase \in {"Submitted", "Inconclusive"} /\ ~outcome.refused
              /\ p = Transfer /\ w \in {wire, wire \cup {Transfer}}
           \/ outcome.phase = "Rejected" /\ p = None /\ w = wire
    <2>1. \A ph \in {"Submitted", "Inconclusive", "Rejected"} :
             /\ Sent(ph) \in Execution /\ Sent(ph).phase = ph /\ Sent(ph).tx = Transfer
             /\ ~Sent(ph).nosend /\ ~Sent(ph).block /\ ~Sent(ph).refused
      BY <1>6 DEF Sent, Execution
    <2> DEFINE refused == [Sent("Rejected") EXCEPT !.refused = TRUE]
    <2>2. refused \in Execution /\ refused.phase = "Rejected" /\ refused.tx = Transfer
          /\ ~refused.nosend /\ ~refused.block
      BY <1>6 DEF Sent, Execution
    <2> HIDE DEF refused
    <2>3. CASE outcome = refused /\ p = None /\ w = wire BY <2>2, <2>3
    <2>4. CASE outcome = Sent("Submitted") /\ p = Transfer /\ w = wire \cup {Transfer} BY <2>1, <2>4
    <2>5. CASE outcome = Sent("Inconclusive") /\ p = Transfer /\ w \in {wire, wire \cup {Transfer}}
      BY <2>1, <2>5
    <2> QED BY <2>3, <2>4, <2>5 DEF Submission, refused
  <1>8. es[cur] # None /\ es[cur].outcome = outcome /\ \A q \in Requests : q # cur => es[q] = entries[q]
    <2>1. entries[cur] \in Entry BY <1>2 DEF TypeOK
    <2>2. es[cur] = [entries[cur] EXCEPT !.outcome = outcome] BY <1>2 DEF TypeOK
    <2>3. es[cur] \in Entry /\ es[cur].outcome = outcome BY <1>7, <2>1, <2>2 DEF Entry
    <2> QED BY <2>3, NoneAssumption DEF TypeOK
  <1> HIDE DEF es
  <1>9. entries' = es /\ StartFlush(es, "report") BY <1>1 DEF Conclude
  <1>10. StepInv' BY <1>9, FlushStep DEF Labels
  <1>11. \A t \in wire' : t \in wire \/ t = Transfer BY <1>1, <1>7
  <1>12. outcome # None BY <1>7, NoneAssumption
  <1>13. ASSUME NEW q \in Requests PROVE Kept(q) \/ Opened(q) \/ Advanced(q)
    <2>1. CASE q = cur
      <3>1. True(q, entries[q].outcome)'
        <4> SUFFICES /\ outcome.phase # "Completed"
                     /\ TerminalExecution(outcome) => \A t \in wire' : t.req # q
          BY <1>7, <1>8, <1>9, <2>1 DEF True
        <4> QED BY <1>1, <1>4, <1>7, <2>1 DEF TerminalExecution
      <3> QED BY <1>3, <1>4, <1>5, <1>8, <1>9, <1>12, <2>1, <3>1 DEF Opened, Unspent
    <2>2. CASE q # cur
      <3>1. Calmly(q) BY <1>1, <1>5, <1>6, <1>11, <2>2 DEF Calmly
      <3> QED BY <1>8, <1>9, <2>2, <3>1 DEF Kept
    <2> QED BY <2>1, <2>2
  <1>14. Objects' BY <1>1, <1>13, EntriesChange DEF CoreInv
  <1>15. PendingInv'
    <2> SUFFICES ASSUME pend' # None PROVE PendingInv' BY DEF PendingInv
    <2>1. pend' = Transfer /\ outcome.phase \in {"Submitted", "Inconclusive"} /\ ~outcome.refused
      BY <1>1, <1>7
    <2>2. \A t \in wire' : t.req = cur => t = Transfer BY <1>4, <1>11
    <2> QED BY <1>0, <1>1, <1>2, <1>5, <1>6, <1>7, <1>8, <1>9, <1>12, <2>1, <2>2
            DEF PendingInv, HasOutcome
  <1>16. WireInv'
    <2>1. \A t \in wire : /\ t.req \in Requests /\ sends[t.req] > 0 /\ t.nonce < next
                          /\ t \in paid \cup aborted /\ t \in Tx
      <3>1. \A t \in wire : t \in Tx /\ t # None BY NoneAssumption DEF TypeOK
      <3> QED BY <1>2, <3>1 DEF CoreInv, WireInv
    <2>2. \A t \in wire' : t \in wire \/ (t = Transfer /\ pend' = Transfer) BY <1>1, <1>7
    <2>3. NonceHeld'
      <3>1. \A t \in wire : t.nonce # Transfer.nonce BY <1>2, <1>6, <2>1 DEF Tx
      <3> QED BY <2>2, <3>1 DEF CoreInv, WireInv, NonceHeld
    <2>4. ASSUME NEW t \in wire'
          PROVE  /\ t.req \in Requests' /\ sends'[t.req] > 0
                 /\ next' # None /\ (t.nonce < next' \/ t = pend')
                 /\ t \in paid' \cup aborted' \/ t = pend'
      <3>1. CASE t \in wire BY <1>0, <1>1, <1>2, <1>4, <1>5, <2>1, <3>1, NoneAssumption
      <3>2. CASE t = Transfer /\ pend' = Transfer
        BY <1>0, <1>1, <1>2, <1>5, <1>6, <3>2, NoneAssumption
      <3> QED BY <2>2, <3>1, <3>2
    <2> QED BY <2>3, <2>4 DEF WireInv
  <1>17. SettledInv' BY <1>1, AtWork
  <1>18. GrantInv' BY <1>0, <1>1 DEF CoreInv, GrantInv
  <1> QED BY <1>1, <1>10, <1>14, <1>15, <1>16, <1>17, <1>18 DEF CoreInv

LEMMA DrainCore ==
  ASSUME TypeOK, CoreInv, env' = env, drainNotice PROVE CoreInv'
  <1>1. /\ UNCHANGED <<obj, late, grant, cur, pend, next, report, pub, wire, paid, aborted, sends>>
        /\ wpc = "drain"
    BY DEF drainNotice, WorkerOnly
  <1>2. PICK r \in Eligible :
         IF ~Exists(r) \/ Settled(obj[r])
         THEN dropNotice(r) /\ UNCHANGED <<wpc, todo, after, entries, failed>>
         ELSE IF obj[r].exec # None
         THEN /\ failed' = TRUE /\ wpc' = "report"
              /\ UNCHANGED <<notices, todo, after, entries>>
         ELSE LET es == [entries EXCEPT ![r] = [outcome |-> Refusal("Expired"),
                                                deleting |-> obj[r].state = "deleting",
                                                orphaned |-> FALSE]]
              IN  /\ dropNotice(r) /\ entries' = es /\ StartFlush(es, "drain")
                  /\ UNCHANGED failed
    BY DEF drainNotice
  <1>3. r \in Requests BY DEF Eligible, Noticed
  <1>4. dropNotice(r) => \A q \in Requests : notices'[q] # "none" => notices[q] # "none"
    BY <1>3 DEF dropNotice, TypeOK
  <1>5. \A q \in Requests : Calmly(q) BY <1>1 DEF Calmly
  <1>6. CASE ~Exists(r) \/ Settled(obj[r])
    <2>1. dropNotice(r) /\ UNCHANGED <<wpc, entries, failed>> BY <1>2, <1>6
    <2>2. StepInv' BY <1>1, <2>1 DEF StepInv
    <2>3. \A q \in Requests : Kept(q) BY <1>5, <2>1 DEF Kept
    <2> QED BY <1>1, <1>4, <2>1, <2>2, <2>3, OpenCore
  <1>7. CASE ~(~Exists(r) \/ Settled(obj[r]))
    <2>1. entries[r] = None /\ obj[r].exec = None /\ Unspent(r) BY <1>7, NoticedKnown
    <2> DEFINE entry == [outcome |-> Refusal("Expired"), deleting |-> obj[r].state = "deleting",
                         orphaned |-> FALSE]
               es == [entries EXCEPT ![r] = entry]
    <2>2. entry \in Entry /\ entry.outcome = Refusal("Expired") BY RefusalType DEF Entry
    <2>3. /\ es[r] # None /\ es[r].outcome = Refusal("Expired")
          /\ \A q \in Requests : q # r => es[q] = entries[q]
      BY <1>3, <2>2, NoneAssumption DEF TypeOK
    <2> HIDE DEF es
    <2>4. dropNotice(r) /\ entries' = es /\ StartFlush(es, "drain") /\ UNCHANGED failed
      BY <1>2, <1>7, <2>1 DEF es
    <2>5. StepInv' BY <2>4, FlushStep DEF Labels
    <2>6. Opened(r) BY <1>1, <1>3, <2>1, <2>3, <2>4, RefusalOpens
    <2>7. \A q \in Requests : q # r => Kept(q) BY <1>5, <2>3, <2>4 DEF Kept
    <2> QED BY <1>1, <1>4, <2>4, <2>5, <2>6, <2>7, OpenCore
  <1> QED BY <1>6, <1>7

\* A worker that holds nothing has nothing pending.
LEMMA NothingHeld ==
  ASSUME TypeOK, CoreInv, Held = 0
  PROVE  pend = None /\ wire \subseteq paid \cup aborted
  <1>1. Entries \in SUBSET Requests /\ Noticed \in SUBSET Requests BY DEF Entries, Noticed
  <1>2. /\ IsFiniteSet(Entries) /\ Cardinality(Entries) \in Nat /\ Cardinality(Noticed) \in Nat
    BY <1>1, CountType
  <1>3. Cardinality(Entries) = 0 BY <1>2 DEF Held
  <1>4. Entries = {} BY <1>2, <1>3, FS_EmptySet
  <1>5. pend = None BY <1>4 DEF CoreInv, PendingInv, HasOutcome, Entries
  <1>6. \A t \in wire : t # None BY NoneAssumption DEF TypeOK
  <1> QED BY <1>5, <1>6 DEF CoreInv, WireInv

LEMMA PublishCore ==
  ASSUME TypeOK, CoreInv, env' = env, Publishing \/ republish PROVE CoreInv'
  <1>0. Requests' = Requests BY DEF Requests
  <1>1. /\ UNCHANGED <<obj, late, grant, roleVars, wire, paid, aborted, sends>>
        /\ wpc' = "idle"
    BY DEF Publishing, publish, publishDraining, acknowledge, republish, ReportOnly, WorkerOnly
  <1>2. \A q \in Requests : Calmly(q) BY <1>1 DEF Calmly
  <1>3. Objects' BY <1>1, <1>2, KeepObjects DEF CoreInv
  <1>4. PendingInv' BY <1>0, <1>1 DEF CoreInv, PendingInv, HasOutcome
  <1>5. WireInv' BY <1>0, <1>1 DEF CoreInv, WireInv, NonceHeld
  <1>6. StepInv' BY <1>1 DEF StepInv
  <1>7. GrantInv' BY <1>0, <1>1 DEF CoreInv, GrantInv
  <1>8. SettledInv'
    <2>1. \A ph : Result(ph).phase = ph BY DEF Result
    <2>2. \A ph \in {"Active", "Failed", "Draining", "Settled", "Unsettled"} : Result(ph) # None
      BY ResultType, NoneAssumption
    <2>3. CASE Publishing
      <3>1. pub.phase # "Settled" /\ (report # None => report.phase # "Settled")
        BY <2>3 DEF Publishing, publish, publishDraining, acknowledge, Drained, CoreInv, SettledInv
      <3>2. CASE \E committed \in Commits, acked \in Acks : publish(committed, acked)
        <4>1. \/ pub' = pub \/ pub' = Result("Active") \/ pub' = Result("Failed")
          BY <3>2 DEF publish
        <4>2. \/ report' = None \/ report' = Result("Active") \/ report' = Result("Failed")
          BY <3>2 DEF publish
        <4> QED BY <2>1, <3>1, <4>1, <4>2 DEF SettledInv
      <3>3. CASE \E committed \in Commits : publishDraining(committed)
        <4>1. report' = report /\ (pub' = pub \/ pub' = Result("Draining"))
          BY <3>3 DEF publishDraining
        <4> QED BY <2>1, <3>1, <4>1 DEF SettledInv
      <3>4. CASE \E committed \in Commits : acknowledge(committed)
        <4>1. /\ pub' = pub \/ pub' = report'
              /\ report' = Result("Unsettled") \/ (Held = 0 /\ report' = Result("Settled"))
          BY <3>4 DEF acknowledge
        <4>2. CASE report' = Result("Unsettled") BY <2>1, <3>1, <4>1, <4>2 DEF SettledInv
        <4>3. CASE Held = 0 /\ report' = Result("Settled")
          <5>1. pend = None /\ wire \subseteq paid \cup aborted BY <4>3, NothingHeld
          <5> QED BY <1>1, <2>1, <2>2, <4>3, <5>1 DEF SettledInv
        <4> QED BY <4>1, <4>2, <4>3
      <3> QED BY <2>3, <3>2, <3>3, <3>4 DEF Publishing
    <2>4. CASE republish
      <3>1. /\ report # None /\ pub' = report /\ wpc = "idle"
            /\ report' = IF Final(report) THEN report ELSE None
        BY <2>4 DEF republish
      <3> QED BY <1>1, <3>1 DEF CoreInv, SettledInv, Final
    <2> QED BY <2>3, <2>4
  <1> QED BY <1>1, <1>3, <1>4, <1>5, <1>6, <1>7, <1>8 DEF CoreInv

LEMMA CoreStep ==
  ASSUME TypeOK, CoreInv, [Next]_<<env, vars>> PROVE CoreInv'
  <1>1. CASE Next
    <2>0. env' = env BY <1>1 DEF Next
    <2>1. CASE Step
      <3>1. CASE Begin \/ ObserveOutage BY <2>0, <3>1, BeginCore
      <3>2. CASE flushDeleted \/ (\E acked \in Acks : flush(acked)) \/ flushGivenUp \/ flushFailed
        <4>1. wpc = "flush" BY <3>2 DEF flushDeleted, flush, flushGivenUp, flushFailed
        <4> QED BY <2>0, <3>2, <4>1, FlushCore
      <3>3. CASE pick BY <2>0, <3>3, PickCore
      <3>4. CASE rescanNotices BY <2>0, <3>4, EventCore
      <3>5. CASE refuse BY <2>0, <3>5, RefuseCore
      <3>6. CASE Offer BY <2>0, <3>6, OfferCore
      <3>7. CASE submitAccepted \/ (\E d \in BOOLEAN : submitUncertain(d)) \/ submitRefused
        BY <2>0, <3>7, SubmissionCases, SubmitCore
      <3>8. CASE drainNotice BY <2>0, <3>8, DrainCore
      <3>9. CASE Publishing \/ republish BY <2>0, <3>9, PublishCore
      <3> QED BY <2>1, <3>1, <3>2, <3>3, <3>4, <3>5, <3>6, <3>7, <3>8, <3>9 DEF Step, Publishing
    <2> QED BY <1>1, <2>0, <2>1, ControllerCore, EventCore, SurroundingsCore, LandCore DEF Next
  <1>2. CASE UNCHANGED <<env, vars>>
    BY <1>2 DEF vars, CoreInv, Objects, RequestInv, MayWrite, True, HasOutcome, Exists, GrantInv,
                PendingInv, WireInv, NonceHeld, StepInv, SettledInv, Requests
  <1> QED BY <1>1, <1>2

LEMMA InitInv ==
  ASSUME Init PROVE TypeOK /\ CoreInv
  <1>1. TypeOK
    <2>1. Operation \in {"Running", "Paused"}
      BY SituationAssumption DEF Init, Operation, Situation
    <2>2. obj \in [Requests -> Object] BY DEF Init, Object, Decisions, Phases
    <2>3. pub \in Report BY DEF Init, Report
    <2>4. snap \in Snapshot BY DEF Init, NoSnapshot, Snapshot
    <2> QED BY <2>1, <2>2, <2>3, <2>4 DEF Init, TypeOK
  <1>2. Objects
    <2>1. ASSUME NEW r \in Requests PROVE RequestInv(r)
      <3>1. obj[r] = [state |-> "live", adm |-> "Nil", exec |-> None, phase |-> "Nil"]
            /\ entries[r] = None /\ notices[r] = "none" /\ sends[r] = 0
        BY DEF Init
      <3>2. obj[r].exec = None /\ obj[r].phase \notin TerminalPhases
        <4>1. obj[r].exec = None BY <3>1
        <4>2. obj[r].phase = "Nil" BY <3>1
        <4> QED BY <4>1, <4>2 DEF TerminalPhases
      <3>3. True(r, obj[r].exec) BY <3>2 DEF True
      <3>4. PhaseFounded(obj[r]) BY <3>2 DEF PhaseFounded
      <3>5. entries[r] = None /\ notices[r] = "none" /\ sends[r] = 0 BY <3>1
      <3> QED BY <3>2, <3>3, <3>4, <3>5 DEF RequestInv, Terminal
    <2> QED BY <2>1 DEF Init, Objects
  <1>3. GrantInv /\ PendingInv /\ WireInv /\ StepInv /\ SettledInv /\ ~failed
    BY DEF Init, GrantInv, PendingInv, WireInv, NonceHeld, StepInv, SettledInv
  <1> QED BY <1>1, <1>2, <1>3 DEF CoreInv

-----------------------------------------------------------------------------
(* Places: what the worker holds *)

LEMMA HeldType ==
  ASSUME TypeOK
  PROVE  /\ IsFiniteSet(Entries) /\ IsFiniteSet(Noticed)
         /\ Cardinality(Entries) \in Nat /\ Cardinality(Noticed) \in Nat
  <1>1. Entries \in SUBSET Requests /\ Noticed \in SUBSET Requests BY DEF Entries, Noticed
  <1> QED BY <1>1, CountType

\* Entries and hints only go.
LEMMA HeldShrinks ==
  ASSUME TypeOK, WorkerBounded, env' = env, Entries' \subseteq Entries, Noticed' \subseteq Noticed
  PROVE  WorkerBounded'
  <1>1. Cardinality(Entries') <= Cardinality(Entries) /\ Cardinality(Entries') \in Nat
    BY HeldType, FS_Subset, FS_CardinalityType
  <1>2. Cardinality(Noticed') <= Cardinality(Noticed) /\ Cardinality(Noticed') \in Nat
    BY HeldType, FS_Subset, FS_CardinalityType
  <1>3. Capacity' = Capacity /\ Capacity \in Nat BY RequestsFinite DEF Capacity
  <1> QED BY <1>1, <1>2, <1>3, HeldType DEF WorkerBounded, Held

\* An entry takes the place of its hint.
LEMMA HeldMoves ==
  ASSUME TypeOK, WorkerBounded, env' = env, NEW r \in Noticed \ Entries,
         Entries' \subseteq Entries \cup {r}, Noticed' \subseteq Noticed \ {r}
  PROVE  WorkerBounded'
  <1>1. /\ IsFiniteSet(Entries \cup {r}) /\ Cardinality(Entries \cup {r}) = Cardinality(Entries) + 1
        /\ IsFiniteSet(Noticed \ {r}) /\ Cardinality(Noticed \ {r}) = Cardinality(Noticed) - 1
    BY HeldType, FS_AddElement, FS_RemoveElement
  <1>2. Cardinality(Entries') <= Cardinality(Entries) + 1 /\ Cardinality(Entries') \in Nat
    BY <1>1, FS_Subset, FS_CardinalityType
  <1>3. Cardinality(Noticed') <= Cardinality(Noticed) - 1 /\ Cardinality(Noticed') \in Nat
    BY <1>1, FS_Subset, FS_CardinalityType
  <1>4. Capacity' = Capacity /\ Capacity \in Nat BY RequestsFinite DEF Capacity
  <1> QED BY <1>2, <1>3, <1>4, HeldType DEF WorkerBounded, Held

LEMMA HeldSame ==
  ASSUME TypeOK, WorkerBounded, env' = env,
         \A q \in Requests : entries'[q] # None => entries[q] # None,
         \A q \in Requests : notices'[q] # "none" => notices[q] # "none"
  PROVE  WorkerBounded'
  <1>1. Entries' \subseteq Entries /\ Noticed' \subseteq Noticed BY DEF Entries, Noticed, Requests
  <1> QED BY <1>1, HeldShrinks

LEMMA EventBounded ==
  ASSUME TypeOK, WorkerBounded, env' = env, Event \/ rescanNotices PROVE WorkerBounded'
  <1>0. Requests' = Requests /\ Capacity' = Capacity /\ Capacity \in Nat
    BY RequestsFinite DEF Requests, Capacity
  <1>1. ASSUME NEW r \in Requests, SettledEvent(r) PROVE WorkerBounded'
    <2>1. UNCHANGED entries /\ notices' = [notices EXCEPT ![r] = "none"] BY <1>1 DEF SettledEvent
    <2> QED BY <2>1, HeldSame DEF TypeOK
  <1>2. ASSUME NEW r \in Requests, NEW kind \in {"hint", "tombstone"}, CollectionChanged(r, kind)
        PROVE WorkerBounded'
    <2>1. UNCHANGED entries BY <1>2 DEF CollectionChanged
    <2>2. CASE UNCHANGED notices BY <2>1, <2>2, HeldSame
    <2>3. CASE notices' = [notices EXCEPT ![r] = kind] /\ (r \in Noticed \/ ~Full)
      <3>1. Entries' = Entries /\ Noticed' = Noticed \cup {r}
        BY <1>0, <2>1, <2>3 DEF Entries, Noticed, TypeOK
      <3>2. CASE r \in Noticed
        <4>1. Noticed' = Noticed BY <3>1, <3>2
        <4> QED BY <3>1, <4>1, HeldShrinks
      <3>3. CASE r \notin Noticed
        <4>1. Cardinality(Noticed') = Cardinality(Noticed) + 1 BY <3>1, <3>3, HeldType, FS_AddElement
        <4>2. Cardinality(Noticed) + Cardinality(Entries) < Capacity
          BY <1>0, <2>3, <3>3, HeldType DEF Full
        <4> QED BY <1>0, <3>1, <4>1, <4>2, HeldType DEF WorkerBounded, Held
      <3> QED BY <3>2, <3>3
    <2> QED BY <1>2, <2>2, <2>3 DEF CollectionChanged
  <1>3. CASE rescanNotices
    <2> DEFINE listed == {r \in Requests : Exists(r) /\ obj[r].adm = "Admitted"} \ Entries
               missed == {r \in listed : ~Settled(obj[r])}
               kept   == Noticed \ (listed \ missed)
    <2>1. PICK S \in SUBSET missed :
             /\ Cardinality(S \cup kept) + Cardinality(Entries) <= Capacity
             /\ notices' = [r \in Requests |-> IF r \in S THEN "hint"
                                               ELSE IF r \in kept THEN notices[r] ELSE "none"]
      BY <1>3 DEF rescanNotices
    <2>2. S \subseteq Requests /\ kept \subseteq Noticed OBVIOUS
    <2> HIDE DEF kept, missed, listed
    <2>3. UNCHANGED entries BY <1>3 DEF rescanNotices
    <2>4. Entries' = Entries BY <1>0, <2>3 DEF Entries
    <2>5. Noticed' = S \cup kept BY <1>0, <2>1, <2>2 DEF Noticed
    <2>6. IsFiniteSet(S \cup kept) /\ Cardinality(S \cup kept) \in Nat
      <3>1. S \cup kept \in SUBSET Requests BY <2>2 DEF Noticed
      <3> QED BY <3>1, CountType
    <2> QED BY <1>0, <2>1, <2>4, <2>5, <2>6, HeldType DEF WorkerBounded, Held
  <1> QED BY <1>1, <1>2, <1>3 DEF Event

LEMMA DispatchEntries ==
  ASSUME NEW es \in [Requests -> Entry \cup {None}], NEW r \in Requests, Dispatch(es, r)
  PROVE  \A q \in Requests : q # r => entries'[q] = es[q]
  BY DEF Dispatch, Conclude

LEMMA StepBounded ==
  ASSUME TypeOK, CoreInv, WorkerBounded, env' = env, Step PROVE WorkerBounded'
  <1>0. Requests' = Requests BY DEF Requests
  <1>e. entries \in [Requests -> Entry \cup {None}] BY DEF TypeOK
  <1>1. ASSUME NEW o \in Observations, NEW drain \in BOOLEAN, UNCHANGED notices,
               entries' = IF drain THEN DrainRefused(o.entries) ELSE o.entries
        PROVE  WorkerBounded'
    <2>1. Observed(o) BY ObservationCases
    <2>2. \A q \in Requests : o.entries[q] # None => entries[q] # None
      <3>1. pend # None => pend.req \in Requests /\ entries[pend.req] # None
        BY DEF CoreInv, PendingInv, HasOutcome
      <3> QED BY <1>e, <2>1, <3>1 DEF Observed
    <2>3. \A q \in Requests : entries'[q] # None => entries[q] # None
      BY <1>1, <2>2 DEF DrainRefused
    <2> QED BY <1>1, <2>3, HeldSame
  <1>2. CASE Begin \/ ObserveOutage
    <2>1. shutdown \in BOOLEAN BY DEF TypeOK
    <2> QED BY <1>1, <1>2, <2>1 DEF Begin, ObserveOutage
  <1>3. CASE flushDeleted \/ (\E acked \in Acks : flush(acked)) \/ flushGivenUp \/ flushFailed
    <2>1. UNCHANGED notices /\ wpc = "flush"
      BY <1>3 DEF flushDeleted, flush, flushGivenUp, flushFailed
    <2> DEFINE r == First(todo)
               kept == [entries EXCEPT ![r] = [@ EXCEPT !.orphaned = TRUE]]
    <2>2. r \in Requests /\ entries[r] # None BY <2>1, FlushAt
    <2>3. \A q \in Requests : kept[q] # None => entries[q] # None BY <1>e, <2>2
    <2>4. kept \in [Requests -> Entry \cup {None}]
      <3>1. entries[r] \in Entry BY <2>1, FlushAt
      <3>2. [entries[r] EXCEPT !.orphaned = TRUE] \in Entry BY <3>1 DEF Entry
      <3> QED BY <1>e, <3>2
    <2> HIDE DEF r, kept
    <2>5. \/ entries' = Released(kept, r) \/ entries' = kept
          \/ entries' = Released(entries, r) \/ entries' = entries
      BY <1>3 DEF flushDeleted, flush, flushGivenUp, flushFailed, r, kept
    <2>6. \A q \in Requests : entries'[q] # None => entries[q] # None
      BY <1>e, <2>3, <2>4, <2>5 DEF Released, forgetEntry
    <2> QED BY <2>1, <2>6, HeldSame
  <1>4. CASE pick
    <2>1. CASE UNCHANGED <<entries, notices>> BY <2>1, HeldSame
    <2>2. ASSUME NEW r \in Unsent, Dispatch(entries, r), UNCHANGED notices PROVE WorkerBounded'
      <3>1. r \in Requests /\ entries[r] # None BY DEF Unsent, Entries
      <3>2. \A q \in Requests : entries'[q] # None => entries[q] # None
        BY <1>e, <2>2, <3>1, DispatchEntries
      <3> QED BY <2>2, <3>2, HeldSame
    <2>3. ASSUME NEW r \in Eligible, pickNotice(r) PROVE WorkerBounded'
      <3>1. r \in Requests /\ r \in Noticed \ Entries BY DEF Eligible, Noticed
      <3>2. CASE UNCHANGED entries
        <4>1. \A q \in Requests : notices'[q] # "none" => notices[q] # "none"
          BY <2>3 DEF pickNotice, dropNotice, TypeOK
        <4> QED BY <3>2, <4>1, HeldSame
      <3>3. CASE entries' # entries
        <4> DEFINE entry == [outcome |-> None, orphaned |-> FALSE, deleting |-> obj[r].state = "deleting"]
                   es == [entries EXCEPT ![r] = entry]
        <4>1. es \in [Requests -> Entry \cup {None}]
          <5>1. entry \in Entry BY DEF Entry
          <5> QED BY <1>e, <5>1
        <4>2. \A q \in Requests : q # r => es[q] = entries[q] BY <1>e
        <4> HIDE DEF es
        <4>3. dropNotice(r) /\ Dispatch(es, r) BY <2>3, <3>3 DEF pickNotice, es
        <4>4. \A q \in Requests : q # r => entries'[q] = entries[q]
          BY <3>1, <4>1, <4>2, <4>3, DispatchEntries
        <4>5. Entries' \subseteq Entries \cup {r} BY <1>0, <4>4 DEF Entries
        <4>6. Noticed' \subseteq Noticed \ {r} BY <1>0, <3>1, <4>3 DEF Noticed, dropNotice, TypeOK
        <4> QED BY <3>1, <4>5, <4>6, HeldMoves
      <3> QED BY <3>2, <3>3
    <2> QED BY <1>4, <2>1, <2>2, <2>3 DEF pick
  <1>5. CASE refuse \/ Publishing \/ republish
    <2>1. UNCHANGED <<entries, notices>>
      BY <1>5 DEF refuse, Publishing, publish, publishDraining, acknowledge, republish, ReportOnly
    <2> QED BY <2>1, HeldSame
  <1>6. CASE Offer
    <2>1. UNCHANGED notices /\ wpc = "offer" BY <1>6 DEF Offer
    <2>2. cur \in Requests /\ entries[cur] # None BY <2>1 DEF CoreInv, StepInv
    <2>3. \/ entries' = entries \/ entries' = forgetEntry(entries, cur)
          \/ entries' = noSend(cur, "Rejected") \/ entries' = noSend(cur, "Expired")
      BY <1>6 DEF Offer, authorize, Conclude
    <2>4. \A q \in Requests : entries'[q] # None => entries[q] # None
      BY <1>e, <2>2, <2>3 DEF forgetEntry, noSend
    <2> QED BY <2>1, <2>4, HeldSame
  <1>7. ASSUME NEW outcome, NEW p, NEW w, Submission(outcome, p, w) PROVE WorkerBounded'
    <2>1. /\ UNCHANGED notices /\ wpc = "submit"
          /\ entries' = [entries EXCEPT ![cur] = [@ EXCEPT !.outcome = outcome]]
      BY <1>7 DEF Submission, Submitting, Conclude
    <2>2. cur \in Requests /\ entries[cur] # None BY <2>1 DEF CoreInv, StepInv
    <2>3. \A q \in Requests : entries'[q] # None => entries[q] # None
      BY <1>e, <2>1, <2>2
    <2> QED BY <2>1, <2>3, HeldSame
  <1>8. CASE drainNotice
    <2>1. PICK r \in Eligible :
             /\ UNCHANGED notices \/ dropNotice(r)
             /\ \/ UNCHANGED entries
                \/ /\ dropNotice(r)
                   /\ entries' = [entries EXCEPT ![r] = [outcome |-> Refusal("Expired"),
                                                deleting |-> obj[r].state = "deleting",
                                                orphaned |-> FALSE]]
      BY <1>8 DEF drainNotice
    <2>2. r \in Requests /\ r \in Noticed \ Entries BY DEF Eligible, Noticed
    <2>3. CASE UNCHANGED entries
      <3>1. \A q \in Requests : notices'[q] # "none" => notices[q] # "none"
        BY <2>1 DEF dropNotice, TypeOK
      <3> QED BY <2>3, <3>1, HeldSame
    <2>4. CASE entries' # entries
      <3>1. Entries' \subseteq Entries \cup {r} BY <1>0, <1>e, <2>1, <2>4 DEF Entries
      <3>2. Noticed' \subseteq Noticed \ {r} BY <1>0, <2>1, <2>2, <2>4 DEF Noticed, dropNotice, TypeOK
      <3> QED BY <2>2, <3>1, <3>2, HeldMoves
    <2> QED BY <2>3, <2>4
  <1>9. CASE rescanNotices BY <1>9, EventBounded
  <1> QED BY <1>2, <1>3, <1>4, <1>5, <1>6, <1>7, <1>8, <1>9, SubmissionCases DEF Step, Publishing

LEMMA BoundedStep ==
  ASSUME TypeOK, CoreInv, WorkerBounded, [Next]_<<env, vars>> PROVE WorkerBounded'
  <1>0. env' = env BY DEF Next
  <1>1. CASE UNCHANGED <<entries, notices>> BY <1>0, <1>1, HeldSame
  <1>2. CASE Controller
    <2>1. UNCHANGED <<entries, notices>>
      BY <1>2 DEF Controller, Reconcile, Grant, WriteGrant, RefuseGrant, RestartController, ControllerOnly
    <2> QED BY <1>1, <2>1
  <1>3. CASE Surroundings
    <2>1. UNCHANGED <<entries, notices>>
      BY <1>3 DEF Surroundings, Expire, Delete, Pause, Stop, RecordShutdown, Crash, ForeignTransfer,
                  Include, Environment
    <2> QED BY <1>1, <2>1
  <1>4. CASE \E s \in late : Land(s) BY <1>1, <1>4 DEF Land
  <1> QED BY <1>0, <1>1, <1>2, <1>3, <1>4, EventBounded, StepBounded DEF Next, vars

-----------------------------------------------------------------------------
(* What a step does to a request object, and the places it takes *)

\* Object r is left alone, gets a status that may be written to it, or is on its way out.
Rewritten(r) ==
    \/ obj'[r] = obj[r]
    \/ MayWrite(r, obj'[r])
    \/ Exists(r) /\ \E to \in {"deleting", "gone"} : obj'[r] = [obj[r] EXCEPT !.state = to]

LEMMA CommitRewrites ==
  ASSUME TypeOK, NEW r \in Requests, NEW o, Commit(r, o),
         \/ MayWrite(r, o)
         \/ Exists(r) /\ \E to \in {"deleting", "gone"} : o = [obj[r] EXCEPT !.state = to]
  PROVE  \A q \in Requests : Rewritten(q)
  <1>1. obj'[r] = o /\ \A q \in Requests : q # r => obj'[q] = obj[q] BY DEF Commit, TypeOK
  <1> QED BY <1>1 DEF Rewritten

\* Decisions are kept, and so is a settled outcome.
LEMMA RewrittenKeeps ==
  ASSUME TypeOK, CoreInv, NEW r \in Requests, Rewritten(r)
  PROVE  /\ ~Undecided(obj[r]) => obj'[r].adm = obj[r].adm
         /\ obj'[r] # obj[r] => Exists(r)
         /\ obj[r].exec # obj'[r].exec => ~Terminal(obj[r].exec)
         /\ obj[r].phase \in TerminalPhases => obj'[r].phase = obj[r].phase /\ obj'[r].exec = obj[r].exec
  <1>0. RequestInv(r) /\ obj[r] \in Object BY DEF CoreInv, Objects, TypeOK
  <1>1. CASE obj'[r] = obj[r] BY <1>1
  <1>2. CASE MayWrite(r, obj'[r])
    <2>1. ASSUME obj[r].phase \in TerminalPhases PROVE obj'[r].exec = obj[r].exec
      <3>1. CASE obj[r].adm \in {"Rejected", "Expired"}
        <4>1. entries[r] = None BY <1>0, <3>1 DEF RequestInv
        <4> QED BY <1>2, <4>1 DEF MayWrite, HasOutcome
      <3>2. CASE Settled(obj[r]) BY <1>2, <3>2 DEF MayWrite, Settled, MatchingExecution, Terminal
      <3> QED BY <1>0, <2>1, <3>1, <3>2 DEF RequestInv, PhaseFounded
    <2> QED BY <1>2, <2>1 DEF MayWrite
  <1>3. CASE Exists(r) /\ \E to \in {"deleting", "gone"} : obj'[r] = [obj[r] EXCEPT !.state = to]
    <2>1. obj'[r].adm = obj[r].adm /\ obj'[r].exec = obj[r].exec /\ obj'[r].phase = obj[r].phase
      BY <1>0, <1>3 DEF Object
    <2> QED BY <1>3, <2>1
  <1> QED BY <1>1, <1>2, <1>3 DEF Rewritten

LEMMA ApplyStatusRewrites ==
  ASSUME TypeOK, CoreInv, NEW r \in Requests, NEW d \in Decisions, ApplyStatus(r, d), Exists(r),
         Undecided(obj[r]) \/ d = obj[r].adm
  PROVE  /\ \A q \in Requests : Rewritten(q)
         /\ \A q \in Requests : q # r => obj'[q] = obj[q]
         /\ obj'[r] = obj[r] \/ obj'[r].adm = d
         /\ \/ late' = {s \in late : s.req # r} /\ uncertain' \in {uncertain \ {r}, uncertain, uncertain \cup {r}}
            \/ /\ late' \subseteq late \cup {[req |-> r, obj |-> Projected(r, d)]}
               /\ obj' = obj
               /\ uncertain' = IF d = "Admitted" THEN uncertain \cup {r} ELSE uncertain
         /\ d # "Admitted" => uncertain' \subseteq uncertain
         /\ uncertain' \subseteq uncertain \cup {r}
         /\ Projected(r, d).adm = d
  <1> DEFINE o == Projected(r, d)
  <1>1. MayWrite(r, o) BY ProjectedMayBeWritten DEF CoreInv
  <1>2. Projected(r, d).adm = d
    <2>1. obj[r] \in Object BY DEF TypeOK
    <2> QED BY <2>1 DEF Projected, Object
  <1> HIDE DEF o
  <1>3. CASE \E acked \in Acks : Commit(r, o) /\ uncertain' = Reserved(r, d, acked)
    <2>1. obj'[r] = o /\ \A q \in Requests : q # r => obj'[q] = obj[q] BY <1>3 DEF Commit, TypeOK
    <2>2. \A q \in Requests : Rewritten(q) BY <1>1, <1>3, CommitRewrites
    <2> QED BY <1>2, <1>3, <2>1, <2>2 DEF Commit, Reserved, o
  <1>4. CASE GiveUp(r, o) /\ uncertain' = Reserved(r, d, FALSE)
    <2>1. \A q \in Requests : Rewritten(q) BY <1>4 DEF GiveUp, Rewritten
    <2> QED BY <1>2, <1>4, <2>1 DEF GiveUp, Reserved, o
  <1> QED BY <1>3, <1>4 DEF ApplyStatus, o

\* An admission under way: it takes a place when it is committed.
Awaited(r) == r \in uncertain \/ (grant # None /\ grant.req = r)

\* Steps that take no new place.
LEMMA RoomFrame ==
  ASSUME TypeOK, CoreInv, RoomInv, env' = env, restarted' = restarted,
         \A r \in Requests : Rewritten(r),
         \A r \in Requests : Undecided(obj[r]) /\ obj'[r].adm = "Admitted"
                               => restarted \/ Awaited(r),
         \A r \in Requests : Undecided(obj'[r]) /\ Awaited(r)' => Awaited(r),
         \A s \in late' : s.obj.adm = "Admitted" /\ Undecided(obj'[s.req])
                            => restarted \/ s.req \in uncertain'
  PROVE  RoomInv'
  <1>0. Requests' = Requests /\ Capacity' = Capacity BY DEF Requests, Capacity
  <1> SUFFICES ASSUME ~restarted PROVE RoomInv' BY DEF RoomInv
  <1>1. ASSUME NEW r \in Requests, r \in Active' \cup Waiting' PROVE r \in Active \cup Waiting
    <2>0. /\ ~Undecided(obj[r]) => obj'[r].adm = obj[r].adm
          /\ obj'[r] # obj[r] => Exists(r)
          /\ obj[r].exec # obj'[r].exec => ~Terminal(obj[r].exec)
      BY RewrittenKeeps
    <2>1. Exists(r) BY <1>1, <2>0 DEF Active, Waiting, Exists
    <2>2. CASE r \in Active'
      <3>1. obj'[r].adm = "Admitted" /\ ~Settled(obj[r])' BY <2>2 DEF Active
      <3>2. CASE Undecided(obj[r])
        <4>1. Awaited(r) BY <3>1, <3>2
        <4> QED BY <2>1, <3>2, <4>1 DEF Waiting, Awaited
      <3>3. CASE ~Undecided(obj[r])
        <4>1. obj[r].adm = "Admitted" BY <2>0, <3>1, <3>3
        <4>2. ~Settled(obj[r])
          BY <2>0, <3>1, <4>1 DEF Settled, MatchingExecution, Terminal
        <4> QED BY <2>1, <4>1, <4>2 DEF Active
      <3> QED BY <3>2, <3>3
    <2>3. CASE r \in Waiting'
      <3>1. Undecided(obj'[r]) /\ Awaited(r)' BY <2>3 DEF Waiting, Awaited
      <3>2. Undecided(obj[r]) BY <2>0, <3>1 DEF Undecided
      <3> QED BY <2>1, <3>1, <3>2 DEF Waiting, Awaited
    <2> QED BY <1>1, <2>2, <2>3
  <1>2. (Active \cup Waiting)' \subseteq Active \cup Waiting
    BY <1>0, <1>1 DEF Active, Waiting
  <1>3. Active \cup Waiting \in SUBSET Requests BY DEF Active, Waiting
  <1>4. /\ Cardinality((Active \cup Waiting)') <= Cardinality(Active \cup Waiting)
        /\ Cardinality((Active \cup Waiting)') \in Nat /\ Cardinality(Active \cup Waiting) \in Nat
    BY <1>2, <1>3, CountType, FS_Subset, FS_CardinalityType
  <1>5. Cardinality(Active \cup Waiting)' <= Capacity'
    BY <1>0, <1>4, RequestsFinite DEF RoomInv
  <1> QED BY <1>5 DEF RoomInv

\* Steps that leave the controller's memory alone and decide nothing.
LEMMA RoomQuiet ==
  ASSUME TypeOK, CoreInv, RoomInv, env' = env, UNCHANGED <<grant, uncertain, restarted>>,
         \A r \in Requests : Rewritten(r),
         \A r \in Requests : Undecided(obj[r]) => obj'[r].adm = obj[r].adm,
         \A s \in late' : s \in late \/ (s.req \in Requests /\ ~Undecided(obj[s.req]))
  PROVE  RoomInv'
  <1>1. \A r \in Requests : Undecided(obj[r]) => obj'[r].adm # "Admitted" BY DEF Undecided
  <1>2. \A r \in Requests : Awaited(r)' = Awaited(r) BY DEF Awaited
  <1>3. ASSUME NEW s \in late', s.obj.adm = "Admitted", Undecided(obj'[s.req])
        PROVE  restarted \/ s.req \in uncertain'
    <2>0. s.req \in Requests BY DEF CoreInv, Objects
    <2>1. Undecided(obj[s.req]) BY <1>3, <2>0, RewrittenKeeps DEF Undecided
    <2>2. s \in late BY <2>1
    <2> QED BY <1>3, <2>1, <2>2 DEF RoomInv
  <1> QED BY <1>1, <1>2, <1>3, RoomFrame

\* The count was taken with every place that is, or may have been, given away.
LEMMA GrantRoom ==
  ASSUME TypeOK, CoreInv, RoomInv, env' = env, NEW r \in Requests, Grant(r) PROVE RoomInv'
  <1>0. Requests' = Requests /\ Capacity' = Capacity /\ Capacity \in Nat
    BY RequestsFinite DEF Requests, Capacity
  <1> SUFFICES ASSUME ~restarted PROVE RoomInv'
    BY DEF RoomInv, Grant, ControllerOnly
  <1>1. /\ grant' = [req |-> r, obj |-> obj[r]] /\ UNCHANGED <<obj, late, restarted>>
        /\ uncertain' = uncertain \ Decided /\ admit(r, FALSE) = "Admitted"
    BY DEF Grant, ControllerOnly
  <1> DEFINE U == uncertain \ Decided
  <1>2. Active \in SUBSET Requests /\ U \in SUBSET Requests BY DEF Active, TypeOK
  <1>3. /\ IsFiniteSet(Active) /\ Cardinality(Active) \in Nat
        /\ IsFiniteSet(U) /\ Cardinality(U) \in Nat
    BY <1>2, CountType
  <1>4. Cardinality(Active) + Cardinality(U) + 1 <= Capacity
    <2>1. ~CapacityExceeded BY <1>1 DEF admit
    <2>2. pub.orphaned \in Nat BY DEF TypeOK, Report
    <2> QED BY <1>0, <1>3, <2>1, <2>2 DEF CapacityExceeded, activeCount
  <1>5. (Active \cup Waiting)' \subseteq (Active \cup U) \cup {r}
    BY <1>0, <1>1 DEF Active, Waiting, Exists, Settled, MatchingExecution
  <1> HIDE DEF U
  <1>6. IsFiniteSet(Active \cup U) /\ Cardinality(Active \cup U) <= Cardinality(Active) + Cardinality(U)
        /\ Cardinality(Active \cup U) \in Nat
    <2>1. IsFiniteSet(Active \cup U)
          /\ Cardinality(Active \cup U)
               = Cardinality(Active) + Cardinality(U) - Cardinality(Active \cap U)
      BY <1>3, FS_Union
    <2>2. Cardinality(Active \cap U) \in Nat BY <1>3, FS_Intersection, FS_CardinalityType
    <2>3. Cardinality(Active \cup U) \in Nat BY <2>1, FS_CardinalityType
    <2> QED BY <1>3, <2>1, <2>2, <2>3
  <1>7. IsFiniteSet((Active \cup U) \cup {r})
        /\ Cardinality((Active \cup U) \cup {r}) <= Cardinality(Active \cup U) + 1
        /\ Cardinality((Active \cup U) \cup {r}) \in Nat
    BY <1>6, FS_AddElement, FS_CardinalityType
  <1>8. /\ Cardinality((Active \cup Waiting)') <= Cardinality((Active \cup U) \cup {r})
        /\ Cardinality((Active \cup Waiting)') \in Nat
    BY <1>5, <1>7, FS_Subset, FS_CardinalityType
  <1>9. Cardinality(Active \cup Waiting)' <= Capacity'
    BY <1>0, <1>3, <1>4, <1>6, <1>7, <1>8
  <1>10. ASSUME NEW s \in late', s.obj.adm = "Admitted", Undecided(obj'[s.req])
         PROVE  s.req \in uncertain'
    <2>1. s \in late /\ Undecided(obj[s.req]) BY <1>1, <1>10
    <2>2. s.req \in uncertain BY <1>10, <2>1 DEF RoomInv
    <2>3. s.req \notin Decided BY <2>1 DEF Decided, Undecided
    <2> QED BY <1>1, <2>2, <2>3
  <1> QED BY <1>9, <1>10 DEF RoomInv

LEMMA ControllerRoom ==
  ASSUME TypeOK, CoreInv, RoomInv, env' = env, Controller
  PROVE  RoomInv' /\ \A r \in Requests : Rewritten(r)
  <1>0. ASSUME NEW r \in Requests, NEW d \in Decisions, ApplyStatus(r, d), Exists(r),
               Undecided(obj[r]) \/ d = obj[r].adm, ControllerOnly, grant' \in {grant, None},
               Undecided(obj[r]) /\ d = "Admitted" => grant # None /\ grant.req = r
        PROVE  RoomInv' /\ \A q \in Requests : Rewritten(q)
    <2>1. /\ \A q \in Requests : Rewritten(q)
          /\ \A q \in Requests : q # r => obj'[q] = obj[q]
          /\ obj'[r] = obj[r] \/ obj'[r].adm = d
          /\ \/ late' = {s \in late : s.req # r} /\ uncertain' \in {uncertain \ {r}, uncertain, uncertain \cup {r}}
             \/ /\ late' \subseteq late \cup {[req |-> r, obj |-> Projected(r, d)]}
                /\ obj' = obj
                /\ uncertain' = IF d = "Admitted" THEN uncertain \cup {r} ELSE uncertain
          /\ d # "Admitted" => uncertain' \subseteq uncertain
          /\ uncertain' \subseteq uncertain \cup {r}
          /\ Projected(r, d).adm = d
      BY <1>0, ApplyStatusRewrites
    <2>2. restarted' = restarted BY <1>0 DEF ControllerOnly
    <2>3. ASSUME NEW q \in Requests, Undecided(obj[q]), obj'[q].adm = "Admitted" PROVE Awaited(q)
      <3>1. q = r BY <2>1, <2>3 DEF Undecided
      <3>2. d = "Admitted" BY <2>1, <2>3, <3>1 DEF Undecided
      <3> QED BY <1>0, <2>3, <3>1, <3>2 DEF Awaited
    <2>4. ASSUME NEW q \in Requests, Undecided(obj'[q]), Awaited(q)' PROVE Awaited(q)
      <3>1. CASE q \in uncertain \/ (grant' # None /\ grant'.req = q)
        BY <1>0, <3>1 DEF Awaited
      <3>2. CASE q \notin uncertain /\ q \in uncertain'
        <4>1. q = r /\ d = "Admitted" BY <2>1, <3>2
        <4>2. Undecided(obj[r]) BY <2>1, <2>4, <4>1, RewrittenKeeps DEF Undecided
        <4> QED BY <1>0, <4>1, <4>2 DEF Awaited
      <3> QED BY <2>4, <3>1, <3>2 DEF Awaited
    <2>5. ASSUME NEW s \in late', s.obj.adm = "Admitted", Undecided(obj'[s.req])
          PROVE  restarted \/ s.req \in uncertain'
      <3>1. CASE s \in late
        <4>1. s.req \in Requests BY <3>1 DEF CoreInv, Objects
        <4>2. Undecided(obj[s.req]) BY <2>1, <2>5, <4>1, RewrittenKeeps DEF Undecided
        <4>3. restarted \/ s.req \in uncertain BY <2>5, <3>1, <4>2 DEF RoomInv
        <4> QED BY <2>1, <4>3
      <3>2. CASE s \notin late
        <4>1. s = [req |-> r, obj |-> Projected(r, d)] /\ obj' = obj BY <2>1, <3>2
        <4>2. d = "Admitted" /\ s.req = r BY <2>1, <2>5, <4>1
        <4> QED BY <2>1, <3>2, <4>2
      <3> QED BY <3>1, <3>2
    <2>6. RoomInv' BY <2>1, <2>2, <2>3, <2>4, <2>5, RoomFrame
    <2> QED BY <2>1, <2>6
  <1>1. ASSUME NEW r \in Requests, Reconcile(r) PROVE RoomInv' /\ \A q \in Requests : Rewritten(q)
    <2>1. PICK down \in PodDown :
             /\ r \in Decided \/ admit(r, down) # "Admitted"
             /\ ApplyStatus(r, IF r \in Decided THEN obj[r].adm ELSE admit(r, down))
      BY <1>1 DEF Reconcile
    <2> DEFINE d == IF r \in Decided THEN obj[r].adm ELSE admit(r, down)
    <2>2. d \in Decisions
      <3>1. obj[r].adm \in Decisions BY DEF TypeOK, Object
      <3> QED BY <3>1 DEF admit, Decisions
    <2>3. Exists(r) /\ (Undecided(obj[r]) \/ d = obj[r].adm)
      BY <1>1 DEF Reconcile, Decided, Undecided
    <2>4. ControllerOnly /\ grant' = grant BY <1>1 DEF Reconcile
    <2>5. ~(Undecided(obj[r]) /\ d = "Admitted") BY <2>1 DEF Decided, Undecided
    <2> HIDE DEF d
    <2>6. ApplyStatus(r, d) BY <2>1 DEF d
    <2> QED BY <1>0, <2>2, <2>3, <2>4, <2>5, <2>6
  <1>2. ASSUME NEW r \in Requests, Grant(r) PROVE RoomInv' /\ \A q \in Requests : Rewritten(q)
    <2>1. \A q \in Requests : Rewritten(q) BY <1>2 DEF Grant, Rewritten
    <2> QED BY <1>2, <2>1, GrantRoom
  <1>3. ASSUME WriteGrant PROVE RoomInv' /\ \A q \in Requests : Rewritten(q)
    <2>1. PICK d \in Decisions : ApplyStatus(grant.req, d)
      BY <1>3 DEF WriteGrant, Decisions
    <2>2. ControllerOnly /\ grant' = None /\ grant # None /\ obj[grant.req] = grant.obj
      BY <1>3 DEF WriteGrant
    <2>3. grant.req \in Requests /\ Exists(grant.req) /\ Undecided(obj[grant.req])
      BY <2>2 DEF CoreInv, GrantInv, Exists
    <2> QED BY <1>0, <2>1, <2>2, <2>3
  <1>4. ASSUME RefuseGrant PROVE RoomInv' /\ \A q \in Requests : Rewritten(q)
    <2>1. /\ grant # None /\ grant' = None /\ uncertain' = uncertain \cup {grant.req}
          /\ UNCHANGED <<obj, late, restarted>>
      BY <1>4 DEF RefuseGrant, ControllerOnly, Reserved
    <2>2. \A q \in Requests : Rewritten(q) BY <2>1 DEF Rewritten
    <2>3. \A q \in Requests : Undecided(obj[q]) => obj'[q].adm # "Admitted" BY <2>1 DEF Undecided
    <2>4. \A q \in Requests : Awaited(q)' => Awaited(q) BY <2>1 DEF Awaited
    <2>5. \A s \in late' : s.obj.adm = "Admitted" /\ Undecided(obj'[s.req])
                              => restarted \/ s.req \in uncertain'
      BY <2>1 DEF RoomInv, Undecided
    <2>6. RoomInv' BY <2>1, <2>2, <2>3, <2>4, <2>5, RoomFrame
    <2> QED BY <2>2, <2>6
  <1>5. ASSUME RestartController PROVE RoomInv' /\ \A q \in Requests : Rewritten(q)
    BY <1>5 DEF RestartController, RoomInv, Rewritten
  <1> QED BY <1>1, <1>2, <1>3, <1>4, <1>5 DEF Controller

LEMMA RoomStep ==
  ASSUME TypeOK, CoreInv, RoomInv, [Next]_<<env, vars>>
  PROVE  RoomInv' /\ \A r \in Requests : Rewritten(r)
  <1>0. env' = env BY DEF Next
  <1>1. ASSUME UNCHANGED <<grant, uncertain, restarted, obj, late>>
        PROVE  RoomInv' /\ \A r \in Requests : Rewritten(r)
    <2>1. \A r \in Requests : Rewritten(r) BY <1>1 DEF Rewritten
    <2> QED BY <1>0, <1>1, <2>1, RoomQuiet
  <1>2. CASE Event
    BY <1>1, <1>2 DEF Event, SettledEvent, CollectionChanged, WorkerOnly
  <1>3. CASE Step
    <2>1. CASE \E acked \in Acks : flush(acked)
      <3> DEFINE r == First(todo)
      <3>1. r \in Requests /\ HasOutcome(r)
        <4>1. wpc = "flush" BY <2>1 DEF flush
        <4> QED BY <4>1, FlushAt DEF HasOutcome
      <3>2. /\ Exists(r) /\ obj[r].adm = "Admitted"
            /\ UNCHANGED <<obj, late>> \/ Commit(r, WithOutcome(r))
            /\ UNCHANGED <<grant, uncertain, restarted>>
        BY <2>1 DEF flush, WorkerOnly
      <3> HIDE DEF r
      <3>3. CASE UNCHANGED <<obj, late>> BY <1>1, <3>2, <3>3
      <3>4. CASE Commit(r, WithOutcome(r))
        <4>1. MayWrite(r, WithOutcome(r)) BY <3>1, <3>2, OutcomeMayBeWritten DEF CoreInv
        <4>2. \A q \in Requests : Rewritten(q) BY <3>1, <3>4, <4>1, CommitRewrites
        <4>3. late' \subseteq late /\ \A q \in Requests : q # r => obj'[q] = obj[q]
          BY <3>4 DEF Commit, TypeOK
        <4>4. \A q \in Requests : Undecided(obj[q]) => obj'[q].adm = obj[q].adm
          BY <3>2, <4>3 DEF Undecided
        <4> QED BY <1>0, <3>2, <4>2, <4>3, <4>4, RoomQuiet
      <3> QED BY <3>2, <3>3, <3>4
    <2>2. CASE flushGivenUp
      <3> DEFINE r == First(todo)
      <3>1. r \in Requests /\ HasOutcome(r)
        <4>1. wpc = "flush" BY <2>2 DEF flushGivenUp
        <4> QED BY <4>1, FlushAt DEF HasOutcome
      <3>2. GiveUp(r, WithOutcome(r)) /\ UNCHANGED <<grant, uncertain, restarted>>
        BY <2>2 DEF flushGivenUp, WorkerOnly
      <3> HIDE DEF r
      <3>3. obj' = obj /\ \A s \in late' : s \in late \/ s.req = r BY <3>2 DEF GiveUp
      <3>4. ~Undecided(obj[r]) BY <3>1 DEF CoreInv, Objects, RequestInv, HasOutcome, Undecided
      <3>5. \A q \in Requests : Rewritten(q) BY <3>3 DEF Rewritten
      <3> QED BY <1>0, <3>1, <3>2, <3>3, <3>4, <3>5, RoomQuiet
    <2>3. CASE ~((\E acked \in Acks : flush(acked)) \/ flushGivenUp)
      <3>1. UNCHANGED <<grant, uncertain, restarted, obj, late>>
        BY <1>3, <2>3 DEF Step, WorkerOnly, Begin, ObserveOutage, flushDeleted, flushFailed, rescanNotices,
           pick, refuse, Offer, submitAccepted, submitUncertain, submitRefused, Submitting, drainNotice,
           publish, publishDraining, acknowledge, republish, ReportOnly
      <3> QED BY <1>1, <3>1
    <2> QED BY <2>1, <2>2, <2>3
  <1>4. CASE Surroundings
    <2>1. ASSUME NEW r \in Requests, NEW to \in {"deleting", "gone"}, Delete(r, to)
          PROVE  RoomInv' /\ \A q \in Requests : Rewritten(q)
      <3>1. /\ Exists(r) /\ Commit(r, [obj[r] EXCEPT !.state = to])
            /\ UNCHANGED <<grant, uncertain, restarted>>
        BY <2>1 DEF Delete, Environment
      <3>2. \A q \in Requests : Rewritten(q) BY <3>1, CommitRewrites
      <3>3. late' \subseteq late /\ \A q \in Requests : obj'[q].adm = obj[q].adm
        <4>1. obj[r] \in Object BY DEF TypeOK
        <4>2. [obj[r] EXCEPT !.state = to].adm = obj[r].adm BY <4>1 DEF Object
        <4> QED BY <3>1, <4>2 DEF Commit, TypeOK
      <3> QED BY <1>0, <3>1, <3>2, <3>3, RoomQuiet
    <2>2. CASE ~\E r \in Requests, to \in {"deleting", "gone"} : Delete(r, to)
      <3>1. UNCHANGED <<grant, uncertain, restarted, obj, late>>
        BY <1>4, <2>2 DEF Surroundings, Environment, Expire, Pause, Stop, RecordShutdown, Crash,
           ForeignTransfer, Include
      <3> QED BY <1>1, <3>1
    <2> QED BY <2>1, <2>2
  <1>5. ASSUME NEW s \in late, Land(s) PROVE RoomInv' /\ \A q \in Requests : Rewritten(q)
    <2>1. s.req \in Requests /\ MayWrite(s.req, s.obj) BY DEF CoreInv, Objects
    <2>2. Commit(s.req, s.obj) /\ UNCHANGED <<grant, uncertain, restarted>> BY <1>5 DEF Land
    <2>3. \A q \in Requests : Rewritten(q) BY <2>1, <2>2, CommitRewrites
    <2>4. /\ obj'[s.req] = s.obj /\ late' \subseteq late
          /\ \A q \in Requests : q # s.req => obj'[q] = obj[q]
      BY <2>1, <2>2 DEF Commit, TypeOK
    <2>5. ASSUME NEW q \in Requests, Undecided(obj[q]), obj'[q].adm = "Admitted"
          PROVE  restarted \/ Awaited(q)
      <3>1. q = s.req BY <2>4, <2>5 DEF Undecided
      <3> QED BY <2>4, <2>5, <3>1 DEF RoomInv, Awaited
    <2>6. \A q \in Requests : Awaited(q)' = Awaited(q) BY <2>2 DEF Awaited
    <2>7. ASSUME NEW v \in late', v.obj.adm = "Admitted", Undecided(obj'[v.req])
          PROVE  restarted \/ v.req \in uncertain'
      <3>1. v \in late /\ v.req \in Requests BY <2>4 DEF CoreInv, Objects
      <3>2. Undecided(obj[v.req]) BY <2>3, <2>7, <3>1, RewrittenKeeps DEF Undecided
      <3> QED BY <2>2, <2>7, <3>1, <3>2 DEF RoomInv
    <2>8. RoomInv' BY <1>0, <2>2, <2>3, <2>5, <2>6, <2>7, RoomFrame
    <2> QED BY <2>3, <2>8
  <1>6. CASE UNCHANGED <<env, vars>> BY <1>1, <1>6 DEF vars
  <1> QED BY <1>0, <1>2, <1>3, <1>4, <1>5, <1>6, ControllerRoom DEF Next

LEMMA InitRoom ==
  ASSUME Init PROVE WorkerBounded /\ RoomInv
  <1>0. TypeOK BY InitInv
  <1>1. Entries = {} /\ Noticed = {} /\ Active = {} /\ Waiting = {}
    <2>1. \A r \in Requests : obj[r].adm = "Nil" BY DEF Init
    <2>2. Active = {} BY <2>1 DEF Active
    <2>3. Waiting = {} BY DEF Init, Waiting
    <2> QED BY <2>2, <2>3 DEF Init, Entries, Noticed
  <1>2. Cardinality({}) = 0 BY FS_EmptySet
  <1>3. Held = 0 BY <1>1, <1>2 DEF Held
  <1>4. Active \cup Waiting = {} BY <1>1
  <1>5. Capacity \in Nat BY <1>0, RequestsFinite
  <1>6. WorkerBounded BY <1>3, <1>5 DEF WorkerBounded
  <1>7. late = {} BY DEF Init
  <1>8. Cardinality(Active \cup Waiting) = 0 BY <1>2, <1>4
  <1>9. RoomInv BY <1>5, <1>7, <1>8 DEF RoomInv
  <1> QED BY <1>6, <1>9

-----------------------------------------------------------------------------
(* Theorems *)

FaucetInv == TypeOK /\ CoreInv /\ WorkerBounded /\ RoomInv

LEMMA InvariantHolds == Spec => []FaucetInv
  <1>1. Init => FaucetInv BY InitInv, InitRoom DEF FaucetInv
  <1>2. FaucetInv /\ [Next]_<<env, vars>> => FaucetInv'
    BY TypeStep, CoreStep, BoundedStep, RoomStep DEF FaucetInv
  <1> QED BY <1>1, <1>2, PTL DEF Spec

\* Every variable keeps the type that FaucetRequests declares for it.
THEOREM TypeTheorem == Spec => []TypeOK
  <1>1. FaucetInv => TypeOK BY DEF FaucetInv
  <1> QED BY <1>1, InvariantHolds, PTL

\* No request's transfer is handed to the transport twice, whatever writes are lost, given up,
\* delayed or refused and whatever restarts (faucet.go, nonce.go: Offer).
THEOREM PaidOnceTheorem == Spec => []PaidOnce
  <1>1. FaucetInv => PaidOnce BY DEF FaucetInv, CoreInv, Objects, RequestInv, PaidOnce
  <1> QED BY <1>1, InvariantHolds, PTL

\* What requests and retained entries claim about transfers is so, and so is the phase shown
\* to the user (status.go: ProjectPhase).
THEOREM StatusTheorem == Spec => []StatusTrue
  <1>1. FaucetInv => StatusTrue
    <2> SUFFICES ASSUME FaucetInv PROVE StatusTrue OBVIOUS
    <2>1. ASSUME NEW r \in Requests, NEW e \in Claims(r) PROVE True(r, e) /\ e # None
      BY DEF Claims, Entries, FaucetInv, CoreInv, Objects, RequestInv
    <2>2. EvidenceTrue BY <2>1 DEF EvidenceTrue, True
    <2>3. ASSUME NEW r \in Requests
          PROVE  /\ obj[r].phase = "Completed" => \E t \in paid : t.req = r
                 /\ obj[r].phase \in {"Rejected", "Expired"}
                      => \A t \in wire : t.req = r => t \in aborted
      <3>1. RequestInv(r) BY DEF FaucetInv, CoreInv, Objects
      <3>2. True(r, obj[r].exec) /\ PhaseFounded(obj[r]) BY <3>1 DEF RequestInv
      <3>3. CASE obj[r].adm \in {"Rejected", "Expired"}
        <4>1. sends[r] = 0
          <5>1. sends[r] \in Nat BY DEF FaucetInv, TypeOK
          <5> QED BY <3>1, <3>3, <5>1 DEF RequestInv
        <4>2. \A t \in wire : t.req # r BY <4>1 DEF FaucetInv, CoreInv, WireInv
        <4>3. obj[r].phase # "Completed"
          BY <3>2, <3>3 DEF PhaseFounded, TerminalPhases, Settled, MatchingExecution
        <4> QED BY <4>2, <4>3
      <3>4. CASE obj[r].adm \notin {"Rejected", "Expired"}
        <4>1. obj[r].phase \in TerminalPhases =>
                obj[r].exec # None /\ TerminalExecution(obj[r].exec) /\ obj[r].phase = obj[r].exec.phase
          BY <3>2, <3>4 DEF PhaseFounded, Settled, MatchingExecution
        <4> QED BY <3>2, <4>1 DEF True, TerminalPhases
      <3> QED BY <3>3, <3>4
    <2> QED BY <2>2, <2>3 DEF StatusTrue, PhaseTrue
  <1> QED BY <1>1, InvariantHolds, PTL

\* A worker that reported itself Settled left no transfer that may still be paid
\* (runtime.go: the final acknowledgement).
THEOREM SettledTheorem == Spec => []SettledIsQuiet
  <1>1. FaucetInv => SettledIsQuiet
    BY DEF FaucetInv, CoreInv, SettledInv, SettledIsQuiet
  <1> QED BY <1>1, InvariantHolds, PTL

\* Two transfers that a node may hold never compete for one nonce (nonce.go).
THEOREM NonceTheorem == Spec => []NonceHeld
  <1>1. FaucetInv => NonceHeld BY DEF FaucetInv, CoreInv, WireInv
  <1> QED BY <1>1, InvariantHolds, PTL

\* The capacity bounds the requests admitted and unsettled, as long as the controller keeps its
\* reservations, and what the worker holds; no execution evidence surprises the worker.
THEOREM PlacesTheorem == Spec => []PlacesKept
  <1>1. FaucetInv => PlacesKept
    <2> SUFFICES ASSUME FaucetInv PROVE PlacesKept OBVIOUS
    <2>1. CapacityRespected
      <3> SUFFICES ASSUME ~restarted PROVE Cardinality(Active) <= Capacity
        BY DEF CapacityRespected
      <3>1. TypeOK /\ Cardinality(Active \cup Waiting) <= Capacity BY DEF FaucetInv, RoomInv
      <3>2. Active \cup Waiting \in SUBSET Requests BY DEF Active, Waiting
      <3>3. IsFiniteSet(Active \cup Waiting) /\ Cardinality(Active \cup Waiting) \in Nat
        BY <3>1, <3>2, CountType
      <3>4. Cardinality(Active) <= Cardinality(Active \cup Waiting) /\ Cardinality(Active) \in Nat
        BY <3>3, FS_Subset, FS_CardinalityType
      <3> QED BY <3>1, <3>3, <3>4, RequestsFinite
    <2> QED BY <2>1 DEF FaucetInv, CoreInv, PlacesKept, NothingForgotten
  <1> QED BY <1>1, InvariantHolds, PTL

\* No write, however late or from however old a copy, changes a decision or a settled outcome
\* (status applies carry UID and resourceVersion).
THEOREM OutcomeTheorem == Spec => OutcomeFinal
  <1> DEFINE Final1 == \A r \in Requests :
         /\ obj[r].adm \notin {"Nil", "Pending"} => obj[r].adm = obj'[r].adm
         /\ obj[r].phase \in TerminalPhases
              => obj[r].phase = obj'[r].phase /\ obj[r].exec = obj'[r].exec
  <1>1. FaucetInv /\ [Next]_<<env, vars>> => [Final1]_vars
    <2> SUFFICES ASSUME FaucetInv, [Next]_<<env, vars>> PROVE Final1 OBVIOUS
    <2>1. \A r \in Requests : Rewritten(r) BY RoomStep DEF FaucetInv
    <2> QED BY <2>1, RewrittenKeeps DEF FaucetInv, Undecided
  <1> QED BY <1>1, InvariantHolds, PTL DEF Spec, OutcomeFinal
=============================================================================

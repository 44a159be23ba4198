------------------------ MODULE BitcoinWorkerProofs ------------------------
(***************************************************************************)
(* Proofs about BitcoinWorker, for every set of processes and every value  *)
(* of the bounds.  The inductive invariant is Inv: the types and the parts *)
(* of SlotProtocol.  Most actions leave the slot alone and only move one   *)
(* process; SlotFrame and RewriteFrame say so once.                        *)
(***************************************************************************)
EXTENDS BitcoinWorker, TLAPS

Inv == TypeOK /\ SlotProtocol

\* The parts of the invariant that only speak of the record, identities and requests.
SlotParts == IdentityInv /\ NumberInv /\ SlotHoldsOutstanding /\ OfferSentOnce

\* The empty record, before any process has started, satisfies the invariant.
LEMMA InitInv == Init => Inv
  <1> SUFFICES ASSUME Init PROVE Inv
    OBVIOUS
  <1>1. TypeOK
    <2>1. rec \in Record
      BY DEF Init, Record
    <2>2. NoNote \in Note
      BY DEF NoNote, Note
    <2> QED BY <2>1, <2>2 DEF Init, TypeOK, PcLabels
  <1>2. PlanInv /\ CopyInv /\ IdentityInv
    BY DEF Init, PlanInv, CopyInv, IdentityInv, ArmPcs
  <1>3. SlotInv
    BY DEF Init, SlotInv, ArmPcs, Owning
  <1>4. NumberInv /\ SlotHoldsOutstanding /\ OfferSentOnce
    BY DEF Init, NumberInv, SlotHoldsOutstanding, OfferSentOnce, Outstanding
  <1> QED BY <1>1, <1>2, <1>3, <1>4 DEF Inv, SlotProtocol

USE DEF netVars, slotVars, initVars, coreVars, stepVars, lifeVars, colVars

\* A step that changes neither the record's slot nor the ledgers of requests preserves what
\* is said of them, even if it rewrites the other fields of the record.
LEMMA SlotFrame ==
  ASSUME Inv, rec'.armed = rec.armed, rec'.completed = rec.completed, late' \subseteq late,
         UNCHANGED <<seq, sent, accounted>>
  PROVE  SlotParts'
  <1>1. IdentityInv' BY DEF Inv, SlotProtocol, IdentityInv
  <1>2. NumberInv' BY DEF Inv, SlotProtocol, NumberInv
  <1>3. SlotHoldsOutstanding' /\ OfferSentOnce'
    BY DEF Inv, SlotProtocol, SlotHoldsOutstanding, OfferSentOnce, Outstanding
  <1> QED BY <1>1, <1>2, <1>3 DEF SlotParts

\* Each process is at one label.
LEMMA PcType == Inv => pc \in [Procs -> PcLabels]
  BY DEF Inv, TypeOK

\* What PlanInv speaks of.
LEMMA PlanTypes ==
  Inv => /\ pc \in [Procs -> PcLabels]
         /\ op \in [Procs -> Request \cup {None}]
         /\ seq \in [Procs -> Nat]
  BY DEF Inv, TypeOK

\* A note that learns a generation, or what was observed, is a note.
LEMMA NoteTypes ==
  ASSUME Inv, NEW p \in Procs
  PROVE  /\ [note EXCEPT ![p] = [@ EXCEPT !.gen = net.gen]] \in [Procs -> Note]
         /\ [note EXCEPT ![p] = [@ EXCEPT !.height = height, !.actor = net.actor]]
              \in [Procs -> Note]
  <1>1. /\ note \in [Procs -> Note] /\ height \in Nat
        /\ net.actor \in Nat /\ net.gen \in Nat
    BY DEF Inv, TypeOK
  <1>2. /\ [note[p] EXCEPT !.gen = net.gen] \in Note
        /\ [note[p] EXCEPT !.height = height, !.actor = net.actor] \in Note
    BY <1>1 DEF Note
  <1> QED BY <1>1, <1>2

\* The record is never nil.
LEMMA RecordNotNone == Inv => rec # None
  BY NoneAssumption DEF Inv, TypeOK

\* The blank note a returning Step leaves is a note.
LEMMA NoNoteType == NoNote \in Note
  BY DEF NoNote, Note

\* A process comes up.
LEMMA StartInv == ASSUME Inv, NEW p \in Procs, Start(p) PROVE Inv'
  <1> USE DEF Start, Goto
  <1>1. TypeOK'
    BY DEF Inv, TypeOK, PcLabels, ArmPcs
  <1>2. PlanInv' BY PlanTypes DEF Inv, SlotProtocol, PlanInv, ArmPcs, Owning
  <1>3. CopyInv' BY DEF Inv, TypeOK, SlotProtocol, CopyInv, ArmPcs
  <1>4. SlotInv' BY PcType DEF Inv, SlotProtocol, SlotInv, ArmPcs, Owning
  <1>5. SlotParts' BY SlotFrame
  <1> QED BY <1>1, <1>2, <1>3, <1>4, <1>5 DEF Inv, SlotProtocol, SlotParts

\* A process dies with its copy, plan and collector.
LEMMA CrashInv == ASSUME Inv, NEW p \in Procs, Crash(p) PROVE Inv'
  <1> USE DEF Crash, Alive
  <1>1. TypeOK'
    BY NoNoteType DEF Inv, TypeOK, PcLabels, ArmPcs
  <1>2. PlanInv' BY PlanTypes DEF Inv, SlotProtocol, PlanInv, ArmPcs, Owning
  <1>3. CopyInv' BY DEF Inv, TypeOK, SlotProtocol, CopyInv, ArmPcs
  <1>4. SlotInv'
    <2>1. /\ pc \in [Procs -> PcLabels]
          /\ col \in [Procs -> {"none", "send", "wait", "receipt"}]
          /\ req \in [Procs -> Request \cup {None}]
      BY DEF Inv, TypeOK
    <2> QED BY <2>1 DEF Inv, SlotProtocol, SlotInv, ArmPcs, Owning
  <1>5. SlotParts' BY SlotFrame
  <1> QED BY <1>1, <1>2, <1>3, <1>4, <1>5 DEF Inv, SlotProtocol, SlotParts

\* SIGTERM closes the loop.
LEMMA TerminateInv == ASSUME Inv, NEW p \in Procs, Terminate(p) PROVE Inv'
  <1> USE DEF Terminate, Goto
  <1>1. TypeOK'
    BY DEF Inv, TypeOK, PcLabels, ArmPcs
  <1>2. PlanInv' BY PlanTypes DEF Inv, SlotProtocol, PlanInv, ArmPcs, Owning
  <1>3. CopyInv' BY DEF Inv, TypeOK, SlotProtocol, CopyInv, ArmPcs
  <1>4. SlotInv' BY PcType DEF Inv, SlotProtocol, SlotInv, ArmPcs, Owning
  <1>5. SlotParts' BY SlotFrame
  <1> QED BY <1>1, <1>2, <1>3, <1>4, <1>5 DEF Inv, SlotProtocol, SlotParts

\* The drained process ends.
LEMMA ExitInv == ASSUME Inv, NEW p \in Procs, Exit(p) PROVE Inv'
  <1> USE DEF Exit, Goto
  <1>1. TypeOK'
    BY DEF Inv, TypeOK, PcLabels, ArmPcs
  <1>2. PlanInv' BY PlanTypes DEF Inv, SlotProtocol, PlanInv, ArmPcs, Owning
  <1>3. CopyInv' BY DEF Inv, TypeOK, SlotProtocol, CopyInv, ArmPcs
  <1>4. SlotInv' BY PcType DEF Inv, SlotProtocol, SlotInv, ArmPcs, Owning
  <1>5. SlotParts' BY SlotFrame
  <1> QED BY <1>1, <1>2, <1>3, <1>4, <1>5 DEF Inv, SlotProtocol, SlotParts

\* Step reads the record.
LEMMA ReadRecordInv == ASSUME Inv, NEW p \in Procs, ReadRecord(p) PROVE Inv'
  <1> USE DEF ReadRecord, Goto
  <1>1. TypeOK'
    BY DEF Inv, TypeOK, PcLabels, ArmPcs
  <1>2. PlanInv' BY PlanTypes DEF Inv, SlotProtocol, PlanInv, ArmPcs, Owning
  <1>3. CopyInv' BY RecordNotNone DEF Inv, TypeOK, SlotProtocol, CopyInv, ArmPcs
  <1>4. SlotInv' BY PcType DEF Inv, SlotProtocol, SlotInv, ArmPcs, Owning
  <1>5. SlotParts' BY SlotFrame
  <1> QED BY <1>1, <1>2, <1>3, <1>4, <1>5 DEF Inv, SlotProtocol, SlotParts

\* Step gives up.
LEMMA RefuseInv == ASSUME Inv, NEW p \in Procs, Refuse(p) PROVE Inv'
  <1> USE DEF Refuse, ReturnUnwritten, Return
  <1>1. TypeOK'
    BY NoNoteType DEF Inv, TypeOK, PcLabels, ArmPcs
  <1>2. PlanInv' BY PlanTypes DEF Inv, SlotProtocol, PlanInv, ArmPcs, Owning
  <1>3. CopyInv' BY DEF Inv, TypeOK, SlotProtocol, CopyInv, ArmPcs
  <1>4. SlotInv' BY PcType DEF Inv, SlotProtocol, SlotInv, ArmPcs, Owning
  <1>5. SlotParts' BY SlotFrame
  <1> QED BY <1>1, <1>2, <1>3, <1>4, <1>5 DEF Inv, SlotProtocol, SlotParts

\* Authority is checked on the copy read by arm.
LEMMA AuthorizeArmInv == ASSUME Inv, NEW p \in Procs, AuthorizeArm(p) PROVE Inv'
  <1> USE DEF AuthorizeArm, Goto
  <1>1. TypeOK'
    BY DEF Inv, TypeOK, PcLabels, ArmPcs
  <1>2. PlanInv' BY PlanTypes DEF Inv, SlotProtocol, PlanInv, ArmPcs, Owning
  <1>3. CopyInv' BY DEF Inv, TypeOK, SlotProtocol, CopyInv, ArmPcs, Authorized
  <1>4. SlotInv' BY PcType DEF Inv, SlotProtocol, SlotInv, ArmPcs, Owning
  <1>5. SlotParts' BY SlotFrame
  <1> QED BY <1>1, <1>2, <1>3, <1>4, <1>5 DEF Inv, SlotProtocol, SlotParts

\* The last native read.
LEMMA PreflightInv == ASSUME Inv, NEW p \in Procs, Preflight(p) PROVE Inv'
  <1> USE DEF Preflight, Goto
  <1>1. TypeOK'
    BY DEF Inv, TypeOK, PcLabels, ArmPcs
  <1>2. PlanInv' BY PlanTypes DEF Inv, SlotProtocol, PlanInv, ArmPcs, Owning
  <1>3. CopyInv' BY DEF Inv, TypeOK, SlotProtocol, CopyInv, ArmPcs
  <1>4. SlotInv' BY PcType DEF Inv, SlotProtocol, SlotInv, ArmPcs, Owning
  <1>5. SlotParts' BY SlotFrame
  <1> QED BY <1>1, <1>2, <1>3, <1>4, <1>5 DEF Inv, SlotProtocol, SlotParts

\* Authority is gone after the write.
LEMMA RefuseConfirmInv == ASSUME Inv, NEW p \in Procs, RefuseConfirm(p) PROVE Inv'
  <1> USE DEF RefuseConfirm, Goto
  <1>1. TypeOK'
    BY DEF Inv, TypeOK, PcLabels, ArmPcs
  <1>2. PlanInv' BY PlanTypes DEF Inv, SlotProtocol, PlanInv, ArmPcs, Owning
  <1>3. CopyInv' BY DEF Inv, TypeOK, SlotProtocol, CopyInv, ArmPcs
  <1>4. SlotInv' BY PcType DEF Inv, SlotProtocol, SlotInv, ArmPcs, Owning
  <1>5. SlotParts' BY SlotFrame
  <1> QED BY <1>1, <1>2, <1>3, <1>4, <1>5 DEF Inv, SlotProtocol, SlotParts

\* Step returns without having written: its copy, plan and note are forgotten.
LEMMA ReturnInv ==
  ASSUME Inv, NEW p \in Procs, ReturnUnwritten(p), closed' \in [Procs -> BOOLEAN],
         UNCHANGED <<net, issued, cursor, height, external, wallet, executed, cancelled, seq,
                     col, req, sent, accounted>>
  PROVE  Inv'
  <1> USE DEF ReturnUnwritten, Return
  <1>1. TypeOK' BY NoNoteType DEF Inv, TypeOK, PcLabels
  <1>2. PlanInv' BY PlanTypes DEF Inv, SlotProtocol, PlanInv, ArmPcs, Owning
  <1>3. CopyInv' BY DEF Inv, TypeOK, SlotProtocol, CopyInv
  <1>4. SlotInv' BY PcType DEF Inv, SlotProtocol, SlotInv, ArmPcs, Owning
  <1>5. SlotParts' BY SlotFrame
  <1> QED BY <1>1, <1>2, <1>3, <1>4, <1>5 DEF Inv, SlotProtocol, SlotParts

\* Step goes on with what it read, between labels that own nothing.
LEMMA MoveInv ==
  ASSUME Inv, NEW p \in Procs, NEW label \in {"drain", "pause", "ack", "observe"},
         pc[p] \in {"stop", "pause"}, Goto(p, label), note' \in [Procs -> Note],
         closed' \in [Procs -> BOOLEAN],
         UNCHANGED <<net, rec, fresh, late, issued, cursor, height, external, wallet, executed,
                     view, op, cancelled, seq, col, req, sent, accounted>>
  PROVE  Inv'
  <1> USE DEF Goto
  <1>1. TypeOK' BY DEF Inv, TypeOK, PcLabels
  <1>2. PlanInv' BY PlanTypes DEF Inv, SlotProtocol, PlanInv, ArmPcs, Owning
  <1>3. CopyInv' BY DEF Inv, TypeOK, SlotProtocol, CopyInv
  <1>4. SlotInv' BY PcType DEF Inv, SlotProtocol, SlotInv, ArmPcs, Owning
  <1>5. SlotParts' BY SlotFrame
  <1> QED BY <1>1, <1>2, <1>3, <1>4, <1>5 DEF Inv, SlotProtocol, SlotParts

\* stop: nothing to stop for, already acknowledged, or on to the drain.
LEMMA StopInv == ASSUME Inv, NEW p \in Procs, stop(p) PROVE Inv'
  <1>1. CASE stopReason = "" /\ Goto(p, "pause") /\ UNCHANGED <<slotVars, view, op, note, closed>>
    BY <1>1, MoveInv DEF stop, Inv, TypeOK
  <1>2. CASE /\ closed' = [closed EXCEPT ![p] = TRUE]
             /\ ReturnUnwritten(p)
    <2>1. closed' \in [Procs -> BOOLEAN] BY <1>2 DEF Inv, TypeOK
    <2> QED BY <1>2, <2>1, ReturnInv DEF stop
  <1>3. CASE /\ stopReason # "" /\ closed' = [closed EXCEPT ![p] = TRUE]
             /\ Goto(p, "drain")
             /\ note' = [note EXCEPT ![p] = [@ EXCEPT !.gen = net.gen]]
             /\ UNCHANGED <<slotVars, view, op>>
    <2>1. closed' \in [Procs -> BOOLEAN] BY <1>3 DEF Inv, TypeOK
    <2>2. note' \in [Procs -> Note] BY <1>3, NoteTypes
    <2> QED BY <1>3, <2>1, <2>2, MoveInv DEF stop
  <1> QED BY <1>1, <1>2, <1>3 DEF stop

\* acknowledgePause: on to the observation, to the acknowledgement, or back.
LEMMA AcknowledgePauseInv == ASSUME Inv, NEW p \in Procs, acknowledgePause(p) PROVE Inv'
  <1>1. closed' \in [Procs -> BOOLEAN] BY DEF acknowledgePause, Inv, TypeOK
  <1>2. [note EXCEPT ![p] = [@ EXCEPT !.gen = net.gen]] \in [Procs -> Note]
    BY NoteTypes
  <1>3. note \in [Procs -> Note] BY DEF Inv, TypeOK
  <1>4. CASE ReturnUnwritten(p)
    BY <1>1, <1>4, ReturnInv DEF acknowledgePause
  <1>5. CASE /\ Goto(p, "observe") \/ Goto(p, "ack")
             /\ UNCHANGED <<slotVars, view, op>>
             /\ note' = note \/ note' = [note EXCEPT ![p] = [@ EXCEPT !.gen = net.gen]]
    BY <1>1, <1>2, <1>3, <1>5, MoveInv DEF acknowledgePause
  <1> QED BY <1>4, <1>5 DEF acknowledgePause

\* arm reserves the process and reads the record again.
LEMMA ReserveInv == ASSUME Inv, NEW p \in Procs, Reserve(p) PROVE Inv'
  <1>1. CASE ReturnUnwritten(p)
    BY <1>1, ReturnInv DEF Reserve, Inv, TypeOK
  <1>2. CASE /\ ~Active(p) /\ rec.armed = None
             /\ Goto(p, "authorize")
             /\ view' = [view EXCEPT ![p] = rec]
             /\ fresh' = fresh \cup {p}
             /\ UNCHANGED <<rec, late, op, note>>
    <2> USE <1>2 DEF Reserve, Goto
    <2>1. TypeOK' BY DEF Inv, TypeOK, PcLabels, ArmPcs
    <2>2. PlanInv' BY PlanTypes DEF Inv, SlotProtocol, PlanInv, ArmPcs, Owning
    <2>3. CopyInv' BY RecordNotNone DEF Inv, TypeOK, SlotProtocol, CopyInv
    <2>4. SlotInv' BY PcType DEF Inv, SlotProtocol, SlotInv, ArmPcs, Owning, Active
    <2>5. SlotParts' BY SlotFrame
    <2> QED BY <2>1, <2>2, <2>3, <2>4, <2>5 DEF Inv, SlotProtocol, SlotParts
  <1> QED BY <1>1, <1>2 DEF Reserve

\* The native reads, and the wallet operation they call for.
LEMMA ObserveInv == ASSUME Inv, NEW p \in Procs, observe(p) PROVE Inv'
  <1> USE DEF observe, Goto
  <1>1. note' \in [Procs -> Note] BY NoteTypes
  <1>2. NewRequest(p, None, net.actor) \in Request
    BY DEF NewRequest, Request, Inv, TypeOK
  <1>3. NewRequest(p, None, net.actor).proc = p /\ NewRequest(p, None, net.actor).seq = seq[p]
    BY DEF NewRequest
  <1>4. TypeOK' BY <1>1, <1>2 DEF Inv, TypeOK, PcLabels
  <1>5. PlanInv' BY <1>3, PlanTypes DEF Inv, SlotProtocol, PlanInv, ArmPcs, Owning
  <1>6. CopyInv' BY DEF Inv, TypeOK, SlotProtocol, CopyInv
  <1>7. SlotInv' BY PcType DEF Inv, SlotProtocol, SlotInv, ArmPcs, Owning
  <1>8. SlotParts' BY SlotFrame
  <1> QED BY <1>4, <1>5, <1>6, <1>7, <1>8 DEF Inv, SlotProtocol, SlotParts

\* A write that keeps the slot, the completed offer and the last receipt, made by a Step
\* that returns.
LEMMA RewriteInv ==
  ASSUME Inv, NEW p \in Procs, Return(p), rec' \in Record, rec'.armed = rec.armed,
         rec'.completed = rec.completed, rec'.last = rec.last, fresh' = {}, late' = {},
         UNCHANGED <<net, issued, cursor, height, external, wallet, executed, closed, cancelled,
                     seq, col, req, sent, accounted>>
  PROVE  Inv'
  <1> USE DEF Return
  <1>1. TypeOK' BY NoNoteType DEF Inv, TypeOK, PcLabels
  <1>2. PlanInv' BY PlanTypes DEF Inv, SlotProtocol, PlanInv, ArmPcs, Owning
  <1>3. CopyInv' BY DEF Inv, TypeOK, SlotProtocol, CopyInv
  <1>4. SlotInv' BY PcType DEF Inv, SlotProtocol, SlotInv, ArmPcs, Owning
  <1>5. SlotParts' BY SlotFrame
  <1> QED BY <1>1, <1>2, <1>3, <1>4, <1>5 DEF Inv, SlotProtocol, SlotParts

\* A drain acknowledgement rewrites one field of the record it has just read.
LEMMA AcknowledgeDrainInv == ASSUME Inv, NEW p \in Procs, AcknowledgeDrain(p) PROVE Inv'
  <1> DEFINE d == [nonce |-> p, gen |-> note[p].gen, outcome |-> DrainOutcome(p)]
  <1>1. d \in Drain
    BY DEF Drain, DrainOutcome, Inv, TypeOK, Note
  <1>2. rec' = [rec EXCEPT !.drain = d]
    BY DEF AcknowledgeDrain, ReadModifyWrite
  <1> HIDE DEF d
  <1>3. rec' \in Record /\ rec'.armed = rec.armed /\ rec'.completed = rec.completed
            /\ rec'.last = rec.last
    BY <1>1, <1>2 DEF Inv, TypeOK, Record
  <1> QED BY <1>3, RewriteInv DEF AcknowledgeDrain, ReadModifyWrite

\* The pause acknowledgement is written over an unchanged version, so it keeps the slot.
LEMMA WriteAcknowledgementInv ==
  ASSUME Inv, NEW p \in Procs, NEW acked \in BOOLEAN, WriteAcknowledgement(p, acked)
  PROVE  Inv'
  <1> DEFINE c == [nonce |-> p, gen |-> note[p].gen]
  <1>1. c \in Control
    BY DEF Control, Inv, TypeOK, Note
  <1>2. p \in fresh /\ rec' = [view[p] EXCEPT !.control = c] /\ late' = {}
    BY DEF WriteAcknowledgement
  <1> HIDE DEF c
  <1>3. view[p] = rec
    BY <1>2 DEF Inv, SlotProtocol, CopyInv
  <1>4. rec' \in Record /\ rec'.armed = rec.armed /\ rec'.completed = rec.completed
            /\ rec'.last = rec.last
    BY <1>1, <1>2, <1>3 DEF Inv, TypeOK, Record
  <1>5. CASE ~acked
    BY <1>2, <1>4, <1>5, RewriteInv DEF WriteAcknowledgement
  <1>6. CASE acked
    <2>1. /\ Goto(p, "observe") /\ fresh' = {p} /\ view' = [view EXCEPT ![p] = rec']
          /\ pc[p] = "ack"
          /\ UNCHANGED <<net, issued, cursor, height, external, wallet, executed, closed,
                         cancelled, seq, col, req, sent, accounted, op, note>>
      BY <1>6 DEF WriteAcknowledgement
    <2> USE <1>2, <1>4, <2>1 DEF Goto
    <2>0. rec' # None BY NoneAssumption
    <2>2. TypeOK' BY DEF Inv, TypeOK, PcLabels
    <2>3. PlanInv' BY PlanTypes DEF Inv, SlotProtocol, PlanInv, ArmPcs, Owning
    <2>4. CopyInv'
      <3>1. view \in [Procs -> Record \cup {None}] BY DEF Inv, TypeOK
      <3> QED BY <2>0, <3>1, PcType DEF Inv, SlotProtocol, CopyInv
    <2>5. SlotInv' BY PcType DEF Inv, SlotProtocol, SlotInv, ArmPcs, Owning
    <2>6. SlotParts' BY SlotFrame
    <2> QED BY <2>2, <2>3, <2>4, <2>5, <2>6 DEF Inv, SlotProtocol, SlotParts
  <1> QED BY <1>5, <1>6

\* What Step plans is its own request under the next identity.
LEMMA PlanType ==
  ASSUME Inv, NEW p \in Procs, NEW r \in Record, pc[p] \notin Owning, Plan(p, r) # None
  PROVE  /\ Plan(p, r) \in Request
         /\ Plan(p, r).proc = p /\ Plan(p, r).seq = seq[p]
  <1>1. op[p] # None => op[p] \in Request /\ op[p].proc = p /\ op[p].seq = seq[p]
    <2>1. op[p] \in Request \cup {None} BY DEF Inv, TypeOK
    <2> QED BY <2>1 DEF Inv, SlotProtocol, PlanInv
  <1>2. seq[p] \in Nat /\ note[p].actor \in Nat /\ r.offer \in Offer \cup {None}
    BY DEF Inv, TypeOK, Note, Record
  <1>3. LET n == NewRequest(p, r.offer, note[p].actor)
        IN  n \in Request /\ n.proc = p /\ n.seq = seq[p]
    BY <1>2 DEF NewRequest, Request
  <1> QED BY <1>1, <1>3 DEF Plan

\* Step goes on to arm what it planned, whether or not its observation needed a write.
LEMMA PlannedInv ==
  ASSUME Inv, NEW p \in Procs, NEW next \in Request, next.proc = p, next.seq = seq[p],
         pc[p] = "publish",
         pc' = [pc EXCEPT ![p] = "arm"], op' = [op EXCEPT ![p] = next],
         view' = [view EXCEPT ![p] = None], note' = [note EXCEPT ![p] = NoNote],
         rec' \in Record, rec'.armed = rec.armed, rec'.completed = rec.completed,
         rec'.last = rec.last, late' \subseteq late,
         fresh' = {} \/ (fresh' = fresh \ {p} /\ rec' = rec),
         UNCHANGED <<net, issued, cursor, height, external, wallet, executed, closed, cancelled,
                     seq, col, req, sent, accounted>>
  PROVE  Inv'
  <1>1. TypeOK' BY NoNoteType DEF Inv, TypeOK, PcLabels
  <1>2. next # None BY NoneAssumption
  <1>3. PlanInv' BY <1>2, PlanTypes DEF Inv, SlotProtocol, PlanInv, ArmPcs, Owning
  <1>4. CopyInv' BY DEF Inv, TypeOK, SlotProtocol, CopyInv
  <1>5. SlotInv' BY PcType DEF Inv, SlotProtocol, SlotInv, ArmPcs, Owning
  <1>6. SlotParts' BY SlotFrame
  <1> QED BY <1>1, <1>3, <1>4, <1>5, <1>6 DEF Inv, SlotProtocol, SlotParts

\* The observation is written over an unchanged version, or not at all.
LEMMA PublishInv ==
  ASSUME Inv, NEW p \in Procs, NEW acked \in BOOLEAN, Publish(p, acked) PROVE Inv'
  <1> DEFINE r == [view[p] EXCEPT !.obs = note[p].height]
             next == Plan(p, r)
  <1>1. view[p] \in Record /\ pc[p] = "publish"
    BY DEF Publish, Inv, TypeOK, SlotProtocol, CopyInv
  <1>2. r \in Record /\ r.armed = view[p].armed /\ r.completed = view[p].completed
            /\ r.last = view[p].last
    BY <1>1 DEF Inv, TypeOK, Record, Note
  <1>3. \/ /\ next # None
           /\ pc' = [pc EXCEPT ![p] = "arm"]
           /\ op' = [op EXCEPT ![p] = next]
           /\ view' = [view EXCEPT ![p] = None]
           /\ note' = [note EXCEPT ![p] = NoNote]
        \/ Return(p)
    BY DEF Publish, Goto
  <1>4. UNCHANGED <<net, issued, cursor, height, external, wallet, executed, closed, cancelled,
                    seq, col, req, sent, accounted>>
    BY DEF Publish
  <1>5. next # None => next \in Request /\ next.proc = p /\ next.seq = seq[p]
    BY <1>1, <1>2, PlanType DEF Owning
  <1>6. Update(p, r) \/ (fresh' = fresh \ {p} /\ UNCHANGED <<rec, late>>)
    BY DEF Publish
  <1> HIDE DEF r, next
  <1>7. CASE Update(p, r)
    <2>1. rec' = r /\ view[p] = rec /\ late' = {} /\ fresh' = {}
      BY <1>7 DEF Update, ReadModifyWrite, Inv, SlotProtocol, CopyInv
    <2>2. rec' \in Record /\ rec'.armed = rec.armed /\ rec'.completed = rec.completed
              /\ rec'.last = rec.last
      BY <1>2, <2>1
    <2>3. late' \subseteq late BY <2>1
    <2> QED BY <1>1, <1>3, <1>4, <1>5, <2>1, <2>2, <2>3, PlannedInv, RewriteInv
  <1>8. CASE fresh' = fresh \ {p} /\ UNCHANGED <<rec, late>>
    <2>1. rec' \in Record /\ closed' \in [Procs -> BOOLEAN]
      BY <1>4, <1>8 DEF Inv, TypeOK
    <2>2. CASE Return(p)
      BY <1>4, <1>8, <2>1, <2>2, ReturnInv DEF ReturnUnwritten
    <2> QED BY <1>1, <1>3, <1>4, <1>5, <1>8, <2>1, <2>2, PlannedInv
  <1> QED BY <1>6, <1>7, <1>8

\* The scheduler's write keeps everything but spec.offer.
LEMMA AssignOfferInv == ASSUME Inv, AssignOffer PROVE Inv'
  <1> USE DEF AssignOffer, ReadModifyWrite
  <1>1. /\ rec' \in Record /\ rec'.armed = rec.armed /\ rec'.completed = rec.completed
        /\ rec'.last = rec.last
    BY DEF Inv, TypeOK, Record
  <1> USE <1>1
  <1>2. TypeOK' BY DEF Inv, TypeOK
  <1>3. PlanInv' /\ CopyInv' BY DEF Inv, SlotProtocol, PlanInv, CopyInv
  <1>4. SlotInv' BY DEF Inv, SlotProtocol, SlotInv
  <1>5. SlotParts' BY SlotFrame
  <1> QED BY <1>2, <1>3, <1>4, <1>5 DEF Inv, SlotProtocol, SlotParts

\* An empty slot means that nothing is outstanding, owned, being sent or awaited.
LEMMA EmptySlot ==
  ASSUME Inv, rec.armed = None
  PROVE  /\ Outstanding = {}
         /\ \A q \in Procs : pc[q] \notin Owning /\ col[q] \notin {"send", "wait"}
         /\ \A q \in Procs : col[q] = "receipt" => req[q] \in accounted
  <1>1. Outstanding \subseteq Request /\ \A q \in Outstanding : q = None
    BY DEF Inv, TypeOK, SlotProtocol, SlotHoldsOutstanding, Outstanding
  <1>2. Outstanding = {}
    BY <1>1, NoneAssumption
  <1>3. \A q \in Procs : pc[q] \in Owning => op[q] # None
    BY DEF Inv, SlotProtocol, PlanInv, Owning, ArmPcs
  <1>4. \A q \in Procs : pc[q] \notin Owning
    BY <1>3 DEF Inv, SlotProtocol, SlotInv
  <1>5. \A q \in Procs : col[q] \notin {"send", "wait"}
    BY DEF Inv, SlotProtocol, SlotInv
  <1>6. \A q \in Procs : col[q] = "receipt" => req[q] \in accounted
    BY DEF Inv, SlotProtocol, SlotInv
  <1> QED BY <1>2, <1>4, <1>5, <1>6

\* What arm holds as it is about to write: an empty slot in the current record, and a new
\* request of its own with an unused identity.
LEMMA AboutToWrite ==
  ASSUME Inv, NEW p \in Procs, pc[p] = "cas", p \in fresh
  PROVE  /\ view[p] = rec /\ rec.armed = None
         /\ op[p] \in Request /\ op[p] # None /\ op[p].proc = p /\ op[p].seq = seq[p]
         /\ op[p] \notin sent /\ op[p] \notin late
         /\ op[p].offer # None => op[p].offer.number > rec.completed
         /\ col[p] = "none"
  <1>1. view[p] = rec /\ rec.armed = None
    BY DEF Inv, SlotProtocol, CopyInv
  <1>2. op[p] # None /\ op[p].proc = p /\ op[p].seq = seq[p]
    BY DEF Inv, SlotProtocol, PlanInv, ArmPcs, Owning
  <1>3. op[p] \in Request
    BY <1>2 DEF Inv, TypeOK
  <1>4. seq[p] \in Nat
    BY DEF Inv, TypeOK
  <1>5. op[p] \notin sent /\ op[p] \notin late
    BY <1>2, <1>4 DEF Inv, SlotProtocol, IdentityInv
  <1>6. op[p].offer # None => op[p].offer.number > rec.completed
    BY <1>1 DEF Inv, SlotProtocol, CopyInv
  <1>7. col[p] = "none"
    BY DEF Inv, SlotProtocol, SlotInv, ArmPcs
  <1> QED BY <1>1, <1>2, <1>3, <1>5, <1>6, <1>7

\* Using up an identity keeps every used one used.
LEMMA NextIdentity ==
  ASSUME Inv, NEW p \in Procs, seq' = [seq EXCEPT ![p] = @ + 1]
  PROVE  /\ seq' \in [Procs -> Nat]
         /\ \A q \in Procs, n \in Nat : n < seq[q] => n < seq'[q]
         /\ seq[p] < seq'[p]
         /\ \A q \in Procs : q # p => seq'[q] = seq[q]
  <1>1. seq \in [Procs -> Nat] BY DEF Inv, TypeOK
  <1> QED BY <1>1

\* Writing Armed: the slot passes from empty to this process's own unsent request.
LEMMA WriteArmedInv == ASSUME Inv, NEW p \in Procs, WriteArmed(p) PROVE Inv'
  <1>1. /\ pc[p] = "cas" /\ p \in fresh
        /\ rec' = [view[p] EXCEPT !.armed = op[p]] /\ fresh' = {} /\ late' = {}
        /\ seq' = [seq EXCEPT ![p] = @ + 1]
        /\ pc' = [pc EXCEPT ![p] = "confirm"]
        /\ view' = [view EXCEPT ![p] = None]
        /\ UNCHANGED <<net, issued, cursor, height, external, wallet, executed, op, note,
                       closed, cancelled, col, req, sent, accounted>>
    BY DEF WriteArmed, ArmCopy, Update, ReadModifyWrite, Goto
  <1>2. /\ view[p] = rec /\ rec.armed = None
        /\ op[p] \in Request /\ op[p] # None /\ op[p].proc = p /\ op[p].seq = seq[p]
        /\ op[p] \notin sent
        /\ op[p].offer # None => op[p].offer.number > rec.completed
        /\ col[p] = "none"
    BY <1>1, AboutToWrite
  <1>3. rec' \in Record /\ rec'.armed = op[p] /\ rec'.completed = rec.completed
            /\ rec'.last = rec.last
    <2>1. rec \in Record /\ rec' = [rec EXCEPT !.armed = op[p]] BY <1>1, <1>2 DEF Inv, TypeOK
    <2> QED BY <1>2, <2>1 DEF Record
  <1>4. /\ seq' \in [Procs -> Nat]
        /\ \A q \in Procs, n \in Nat : n < seq[q] => n < seq'[q]
        /\ seq[p] < seq'[p]
        /\ \A q \in Procs : q # p => seq'[q] = seq[q]
    BY <1>1, NextIdentity
  <1>5. /\ Outstanding = {}
        /\ \A q \in Procs : pc[q] \notin Owning /\ col[q] \notin {"send", "wait"}
        /\ \A q \in Procs : col[q] = "receipt" => req[q] \in accounted
    BY <1>2, EmptySlot
  <1>6. TypeOK' BY <1>1, <1>3, <1>4 DEF Inv, TypeOK, PcLabels, ArmPcs
  <1>7. PlanInv'
    BY <1>1, <1>2, <1>4, <1>5, PcType DEF Inv, SlotProtocol, PlanInv, ArmPcs, Owning
  <1>8. CopyInv' BY <1>1 DEF Inv, TypeOK, SlotProtocol, CopyInv
  <1>9. IdentityInv'
    <2>1. \A q \in sent : q.seq \in Nat /\ q.proc \in Procs BY DEF Inv, TypeOK, Request
    <2> QED BY <1>1, <1>2, <1>3, <1>4, <2>1 DEF Inv, SlotProtocol, IdentityInv
  <1>10. SlotInv'
    <2>1. accounted \subseteq sent BY DEF Inv, TypeOK
    <2> QED BY <1>1, <1>2, <1>3, <1>5, <2>1, PcType DEF Inv, SlotProtocol, SlotInv, ArmPcs, Owning
  <1>11. NumberInv' BY <1>1, <1>2, <1>3 DEF Inv, SlotProtocol, NumberInv
  <1>12. SlotHoldsOutstanding' /\ OfferSentOnce'
    BY <1>1, <1>5 DEF Inv, SlotProtocol, SlotHoldsOutstanding, OfferSentOnce, Outstanding
  <1> QED BY <1>6, <1>7, <1>8, <1>9, <1>10, <1>11, <1>12 DEF Inv, SlotProtocol

\* An arm write given up is unsent; its identity is used up and it may land later.
LEMMA LoseArmedInv == ASSUME Inv, NEW p \in Procs, LoseArmed(p) PROVE Inv'
  <1>1. /\ pc[p] = "cas" /\ p \in fresh
        /\ late' = late \cup {op[p]}
        /\ seq' = [seq EXCEPT ![p] = @ + 1]
        /\ pc' = [pc EXCEPT ![p] = "idle"]
        /\ view' = [view EXCEPT ![p] = None]
        /\ op' = [op EXCEPT ![p] = None]
        /\ note' = [note EXCEPT ![p] = NoNote]
        /\ fresh' = fresh \ {p}
        /\ UNCHANGED <<net, rec, issued, cursor, height, external, wallet, executed,
                       closed, cancelled, col, req, sent, accounted>>
    BY DEF LoseArmed, Return
  <1>2. /\ rec.armed = None
        /\ op[p] \in Request /\ op[p].proc = p /\ op[p].seq = seq[p]
        /\ op[p] \notin sent
        /\ op[p].offer # None => op[p].offer.number > rec.completed
    BY <1>1, AboutToWrite
  <1>3. /\ seq' \in [Procs -> Nat]
        /\ \A q \in Procs, n \in Nat : n < seq[q] => n < seq'[q]
        /\ seq[p] < seq'[p]
        /\ \A q \in Procs : q # p => seq'[q] = seq[q]
    BY <1>1, NextIdentity
  <1>4. TypeOK' BY <1>1, <1>2, <1>3, NoNoteType DEF Inv, TypeOK, PcLabels
  <1>5. PlanInv'
    BY <1>1, <1>3, PlanTypes DEF Inv, SlotProtocol, PlanInv, ArmPcs, Owning
  <1>6. CopyInv' BY <1>1 DEF Inv, TypeOK, SlotProtocol, CopyInv
  <1>7. IdentityInv'
    <2>1. \A q \in late \cup sent : q.seq \in Nat /\ q.proc \in Procs
      BY DEF Inv, TypeOK, Request
    <2> QED BY <1>1, <1>2, <1>3, <2>1 DEF Inv, SlotProtocol, IdentityInv
  <1>8. SlotInv'
    BY <1>1, <1>2, PcType DEF Inv, SlotProtocol, SlotInv, ArmPcs, Owning
  <1>9. NumberInv' BY <1>1, <1>2 DEF Inv, SlotProtocol, NumberInv
  <1>10. SlotHoldsOutstanding' /\ OfferSentOnce'
    BY <1>1 DEF Inv, SlotProtocol, SlotHoldsOutstanding, OfferSentOnce, Outstanding
  <1> QED BY <1>4, <1>5, <1>6, <1>7, <1>8, <1>9, <1>10 DEF Inv, SlotProtocol

\* A late arm lands in an empty slot: it occupies the slot and nobody will ever send it.
LEMMA LandArmedInv == ASSUME Inv, NEW q \in late, LandArmed(q) PROVE Inv'
  <1>1. /\ rec' = [rec EXCEPT !.armed = q] /\ fresh' = {} /\ late' = {}
        /\ UNCHANGED <<net, issued, cursor, height, external, wallet, executed, pc, view, op,
                       note, closed, cancelled, seq, col, req, sent, accounted>>
    BY DEF LandArmed, ReadModifyWrite
  <1>2. rec.armed = None /\ q \in Request /\ q \notin sent
    BY DEF Inv, TypeOK, SlotProtocol, SlotInv
  <1>3. rec' \in Record /\ rec'.armed = q /\ rec'.completed = rec.completed
            /\ rec'.last = rec.last
    BY <1>1, <1>2 DEF Inv, TypeOK, Record
  <1>4. /\ Outstanding = {}
        /\ \A r \in Procs : pc[r] \notin Owning /\ col[r] \notin {"send", "wait"}
        /\ \A r \in Procs : col[r] = "receipt" => req[r] \in accounted
    BY <1>2, EmptySlot
  <1>5. TypeOK' BY <1>1, <1>3 DEF Inv, TypeOK
  <1>6. PlanInv' /\ CopyInv' BY <1>1 DEF Inv, SlotProtocol, PlanInv, CopyInv
  <1>7. IdentityInv' BY <1>1, <1>3 DEF Inv, SlotProtocol, IdentityInv
  <1>8. SlotInv'
    <2>1. accounted \subseteq sent BY DEF Inv, TypeOK
    <2> QED BY <1>1, <1>2, <1>3, <1>4, <2>1 DEF Inv, SlotProtocol, SlotInv
  <1>9. NumberInv' BY <1>1, <1>3 DEF Inv, SlotProtocol, NumberInv
  <1>10. SlotHoldsOutstanding' /\ OfferSentOnce'
    BY <1>1, <1>4 DEF Inv, SlotProtocol, SlotHoldsOutstanding, OfferSentOnce, Outstanding
  <1> QED BY <1>5, <1>6, <1>7, <1>8, <1>9, <1>10 DEF Inv, SlotProtocol

\* The collector takes over the arm that Step owned.
LEMMA ConfirmInv == ASSUME Inv, NEW p \in Procs, Confirm(p) PROVE Inv'
  <1>1. /\ pc[p] = "confirm"
        /\ pc' = [pc EXCEPT ![p] = "idle"]
        /\ view' = [view EXCEPT ![p] = None]
        /\ op' = [op EXCEPT ![p] = None]
        /\ note' = [note EXCEPT ![p] = NoNote]
        /\ fresh' = fresh \ {p}
        /\ col' = [col EXCEPT ![p] = "send"]
        /\ req' = [req EXCEPT ![p] = op[p]]
        /\ UNCHANGED <<net, rec, late, issued, cursor, height, external, wallet, executed,
                       closed, cancelled, seq, sent, accounted>>
    BY DEF Confirm, ReturnUnwritten, Return
  <1>2. op[p] # None /\ op[p].proc = p /\ rec.armed = op[p] /\ op[p] \notin sent
    BY <1>1 DEF Inv, SlotProtocol, PlanInv, SlotInv, ArmPcs, Owning
  <1>3. TypeOK' BY <1>1, NoNoteType DEF Inv, TypeOK, PcLabels
  <1>4. PlanInv' BY <1>1, PlanTypes DEF Inv, SlotProtocol, PlanInv, ArmPcs, Owning
  <1>5. CopyInv' BY <1>1 DEF Inv, TypeOK, SlotProtocol, CopyInv
  <1>6. SlotInv'
    <2>1. col \in [Procs -> {"none", "send", "wait", "receipt"}]
            /\ req \in [Procs -> Request \cup {None}]
      BY DEF Inv, TypeOK
    <2> QED BY <1>1, <1>2, <2>1, PcType DEF Inv, SlotProtocol, SlotInv, ArmPcs, Owning
  <1>7. SlotParts' BY <1>1, SlotFrame
  <1> QED BY <1>3, <1>4, <1>5, <1>6, <1>7 DEF Inv, SlotProtocol, SlotParts

\* withdraw empties the slot of a request that was never sent.
LEMMA WithdrawInv == ASSUME Inv, NEW p \in Procs, withdraw(p) PROVE Inv'
  <1>1. /\ pc[p] = "withdraw" /\ rec.armed = op[p]
        /\ rec' = [rec EXCEPT !.armed = None] /\ fresh' = {} /\ late' = {}
        /\ pc' = [pc EXCEPT ![p] = "idle"]
        /\ view' = [view EXCEPT ![p] = None]
        /\ op' = [op EXCEPT ![p] = None]
        /\ note' = [note EXCEPT ![p] = NoNote]
        /\ UNCHANGED <<net, issued, cursor, height, external, wallet, executed,
                       closed, cancelled, seq, col, req, sent, accounted>>
    BY DEF withdraw, ReadModifyWrite, Return
  <1>2. rec' \in Record /\ rec'.armed = None /\ rec'.completed = rec.completed
            /\ rec'.last = rec.last
    BY <1>1 DEF Inv, TypeOK, Record
  <1>3. op[p] \notin sent /\ op[p] # None /\ op[p].proc = p /\ col[p] = "none"
    BY <1>1 DEF Inv, SlotProtocol, SlotInv, PlanInv, ArmPcs, Owning
  <1>4. \A q \in Procs : q # p => pc[q] \notin Owning
    BY <1>1, <1>3 DEF Inv, SlotProtocol, SlotInv, PlanInv
  <1>5. Outstanding = {}
    BY <1>1, <1>3 DEF Inv, SlotProtocol, SlotHoldsOutstanding, Outstanding
  <1>6. sent \subseteq accounted
    BY <1>5 DEF Outstanding
  <1>7. \A q \in Procs : col[q] \notin {"send", "wait"}
    <2>1. SUFFICES ASSUME NEW q \in Procs, col[q] \in {"send", "wait"} PROVE FALSE
      OBVIOUS
    <2>2. rec.armed = req[q] /\ req[q] # None
      BY <2>1 DEF Inv, SlotProtocol, SlotInv
    <2>3. req[q].proc = q
      BY <2>2 DEF Inv, SlotProtocol, SlotInv
    <2> QED BY <1>1, <1>3, <2>1, <2>2, <2>3
  <1>8. TypeOK' BY <1>1, <1>2, NoNoteType DEF Inv, TypeOK, PcLabels
  <1>9. PlanInv' BY <1>1, PlanTypes DEF Inv, SlotProtocol, PlanInv, ArmPcs, Owning
  <1>10. CopyInv' BY <1>1 DEF Inv, TypeOK, SlotProtocol, CopyInv
  <1>11. IdentityInv' BY <1>1, <1>2 DEF Inv, SlotProtocol, IdentityInv
  <1>12. SlotInv'
    <2>1. \A q \in Procs : col[q] = "receipt" => req[q] \in accounted
      BY <1>6 DEF Inv, TypeOK, SlotProtocol, SlotInv
    <2>2. None \notin accounted
      BY NoneAssumption DEF Inv, TypeOK
    <2> QED BY <1>1, <1>2, <1>4, <1>7, <2>1, <2>2, PcType
            DEF Inv, SlotProtocol, SlotInv, ArmPcs, Owning
  <1>13. NumberInv' BY <1>1, <1>2 DEF Inv, SlotProtocol, NumberInv
  <1>14. SlotHoldsOutstanding' /\ OfferSentOnce'
    BY <1>1, <1>5 DEF Inv, SlotProtocol, SlotHoldsOutstanding, OfferSentOnce, Outstanding
  <1> QED BY <1>8, <1>9, <1>10, <1>11, <1>12, <1>13, <1>14 DEF Inv, SlotProtocol

\* The collector's labels and requests.
LEMMA CollectorType ==
  Inv => /\ col \in [Procs -> {"none", "send", "wait", "receipt"}]
         /\ req \in [Procs -> Request \cup {None}]
  BY DEF Inv, TypeOK

\* Only one collector can stand behind the slot.
LEMMA OneSender ==
  ASSUME Inv, NEW p \in Procs, NEW q \in Procs, p # q, col[p] \in {"send", "wait"}
  PROVE  /\ col[q] \notin {"send", "wait"} /\ pc[q] \notin Owning /\ rec.armed # req[q]
  <1>1. req[p] # None /\ req[p].proc = p /\ rec.armed = req[p]
    BY DEF Inv, SlotProtocol, SlotInv
  <1>2. rec.armed # req[q]
    BY <1>1 DEF Inv, SlotProtocol, SlotInv
  <1>3. pc[q] \notin Owning
    BY <1>1 DEF Inv, SlotProtocol, SlotInv, PlanInv
  <1> QED BY <1>2, <1>3 DEF Inv, SlotProtocol, SlotInv

\* One native call: the armed request is handed to the transport, and no other is.
LEMMA SendInv == ASSUME Inv, NEW p \in Procs, Send(p) PROVE Inv'
  <1>1. /\ col[p] = "send"
        /\ sent' = sent \cup {req[p]}
        /\ col' = [col EXCEPT ![p] = "wait"]
        /\ UNCHANGED <<net, rec, fresh, late, issued, cursor, height, external, wallet,
                       executed, pc, view, op, note, closed, cancelled, seq, req, accounted>>
    BY DEF Send
  <1>2. rec.armed = req[p] /\ req[p] \notin sent /\ req[p] # None
    BY <1>1 DEF Inv, SlotProtocol, SlotInv
  <1>3. req[p] \in Request
    BY <1>2, CollectorType
  <1>4. \A q \in Procs : q # p => /\ col[q] \notin {"send", "wait"} /\ pc[q] \notin Owning
                                  /\ rec.armed # req[q]
    BY <1>1, OneSender
  <1>5. sent \subseteq accounted
    BY <1>2 DEF Inv, SlotProtocol, SlotHoldsOutstanding, Outstanding
  <1>6. TypeOK' BY <1>1, <1>3 DEF Inv, TypeOK
  <1>7. PlanInv' /\ CopyInv' BY <1>1 DEF Inv, SlotProtocol, PlanInv, CopyInv
  <1>8. IdentityInv' BY <1>1, <1>2 DEF Inv, SlotProtocol, IdentityInv
  <1>9. SlotInv'
    <2>1. late = {}
      BY <1>2 DEF Inv, SlotProtocol, SlotInv
    <2>2. pc[p] \notin Owning
      BY <1>1 DEF Inv, SlotProtocol, SlotInv
    <2> QED BY <1>1, <1>2, <1>4, <2>1, <2>2, CollectorType DEF Inv, SlotProtocol, SlotInv
  <1>10. NumberInv' BY <1>1 DEF Inv, SlotProtocol, NumberInv
  <1>11. SlotHoldsOutstanding'
    BY <1>1, <1>2, <1>5 DEF SlotHoldsOutstanding, Outstanding
  <1>12. OfferSentOnce'
    <2>1. rec.completed \in Nat /\ \A q \in sent \cup {req[p]} : q.offer \in Offer \cup {None}
      BY <1>3 DEF Inv, TypeOK, Record, Request
    <2>2. \A o \in Offer : o.number \in Nat
      BY DEF Offer
    <2>3. req[p].offer # None => req[p].offer.number > rec.completed
      BY <1>2 DEF Inv, SlotProtocol, NumberInv
    <2>4. \A q \in sent : q.offer # None => q.offer.number <= rec.completed
      BY <1>5 DEF Inv, SlotProtocol, NumberInv
    <2>5. \A q \in sent : req[p].offer # None /\ q.offer # None
                            => req[p].offer.number # q.offer.number
      BY <2>1, <2>2, <2>3, <2>4
    <2> QED BY <1>1, <2>5 DEF Inv, SlotProtocol, OfferSentOnce
  <1> QED BY <1>6, <1>7, <1>8, <1>9, <1>10, <1>11, <1>12 DEF Inv, SlotProtocol

\* The collector is released without a write: the slot keeps what it held.
LEMMA ReleaseInv ==
  ASSUME Inv, NEW p \in Procs, release(p),
         UNCHANGED <<net, rec, fresh, late, issued, cursor, height, external, wallet, executed,
                     pc, view, op, note, closed, cancelled, seq, sent, accounted>>
  PROVE  Inv'
  <1> USE DEF release
  <1>1. TypeOK' BY DEF Inv, TypeOK
  <1>2. PlanInv' /\ CopyInv' BY DEF Inv, SlotProtocol, PlanInv, CopyInv
  <1>3. SlotInv' BY CollectorType DEF Inv, SlotProtocol, SlotInv
  <1>4. SlotParts' BY SlotFrame
  <1> QED BY <1>1, <1>2, <1>3, <1>4 DEF Inv, SlotProtocol, SlotParts

\* A response is received for a request that ran.
LEMMA ReceiveInv == ASSUME Inv, NEW p \in Procs, Receive(p) PROVE Inv'
  <1> USE DEF Receive
  <1>1. TypeOK' BY DEF Inv, TypeOK
  <1>2. PlanInv' /\ CopyInv' BY DEF Inv, SlotProtocol, PlanInv, CopyInv
  <1>3. SlotInv' BY CollectorType DEF Inv, SlotProtocol, SlotInv
  <1>4. SlotParts' BY SlotFrame
  <1> QED BY <1>1, <1>2, <1>3, <1>4 DEF Inv, SlotProtocol, SlotParts

\* What the accounting update leaves in the record.
LEMMA AccountedFields ==
  ASSUME NEW r \in Record, NEW q \in Request
  PROVE  /\ Accounted(r, q) \in Record
         /\ Accounted(r, q).armed = None /\ Accounted(r, q).last = q
         /\ q.offer # None => Accounted(r, q).completed = q.offer.number
         /\ q.offer = None => Accounted(r, q).completed = r.completed
  <1>1. q.offer # None => q.offer \in Offer /\ q.offer.number \in Nat /\ q.offer.blocks \in Nat
    BY DEF Request, Offer
  <1>2. CASE q.offer # None
    <2> DEFINE b == r.blocks + q.offer.blocks
               c == q.offer.number
    <2>1. Accounted(r, q) = [r EXCEPT !.last = q, !.armed = None, !.blocks = b,
                                      !.completed = c]
      BY <1>2 DEF Accounted
    <2>2. b \in Nat /\ c \in Nat
      BY <1>1, <1>2 DEF Record
    <2>3. c = q.offer.number
      OBVIOUS
    <2> HIDE DEF b, c
    <2> QED BY <1>2, <2>1, <2>2, <2>3 DEF Record
  <1>3. CASE q.offer = None
    <2>1. Accounted(r, q) = [r EXCEPT !.last = q, !.armed = None]
      BY <1>3 DEF Accounted, Record
    <2> QED BY <1>3, <2>1 DEF Record
  <1> QED BY <1>2, <1>3

\* Accounting: the slot is emptied by the receipt of the very request it held.
LEMMA AccountInv ==
  ASSUME Inv, NEW p \in Procs, NEW acked \in BOOLEAN, account(p, acked) PROVE Inv'
  <1>1. /\ col[p] = "receipt" /\ rec.armed = req[p]
        /\ rec' = Accounted(rec, req[p]) /\ fresh' = {} /\ late' = {}
        /\ accounted' = accounted \cup {req[p]}
        /\ \/ col' = [col EXCEPT ![p] = "none"] /\ req' = [req EXCEPT ![p] = None]
           \/ UNCHANGED <<col, req>>
        /\ UNCHANGED <<net, issued, cursor, height, external, wallet, executed, pc, view, op,
                       note, closed, cancelled, seq, sent>>
    BY DEF account, ReadModifyWrite, release
  <1>2. req[p] # None /\ req[p].proc = p /\ req[p] \in executed
    BY <1>1 DEF Inv, SlotProtocol, SlotInv
  <1>3. req[p] \in Request /\ req[p] \in sent
    BY <1>2 DEF Inv, TypeOK
  <1>4. /\ rec' \in Record /\ rec'.armed = None /\ rec'.last = req[p]
        /\ req[p].offer # None => rec'.completed = req[p].offer.number
        /\ req[p].offer = None => rec'.completed = rec.completed
    <2>1. rec \in Record BY DEF Inv, TypeOK
    <2> QED BY <1>1, <1>3, <2>1, AccountedFields
  <1>5. sent \ accounted' = {}
    BY <1>1 DEF Inv, SlotProtocol, SlotHoldsOutstanding, Outstanding
  <1>6. \A q \in Procs : pc[q] \notin Owning /\ col[q] \notin {"send", "wait"}
    <2>1. SUFFICES ASSUME NEW q \in Procs
                   PROVE  pc[q] \notin Owning /\ col[q] \notin {"send", "wait"}
      OBVIOUS
    <2>2. pc[q] \notin Owning
      BY <1>1, <1>3 DEF Inv, SlotProtocol, SlotInv
    <2>3. col[q] \notin {"send", "wait"}
      BY <1>1, <1>2 DEF Inv, SlotProtocol, SlotInv
    <2> QED BY <2>2, <2>3
  <1>7. \A q \in Procs : col[q] = "receipt" => req[q] \in accounted'
    BY <1>1 DEF Inv, SlotProtocol, SlotInv
  <1>8. TypeOK' BY <1>1, <1>2, <1>4 DEF Inv, TypeOK
  <1>9. PlanInv' /\ CopyInv' BY <1>1 DEF Inv, SlotProtocol, PlanInv, CopyInv
  <1>10. IdentityInv' BY <1>1, <1>4 DEF Inv, SlotProtocol, IdentityInv
  <1>11. SlotInv'
    <2>1. None \notin accounted'
      BY <1>8, NoneAssumption DEF TypeOK
    <2> QED BY <1>1, <1>4, <1>6, <1>7, <2>1, CollectorType DEF Inv, SlotProtocol, SlotInv
  <1>12. NumberInv'
    <2>0. rec.completed \in Nat /\ accounted' \subseteq Request
      BY <1>1, <1>3 DEF Inv, TypeOK, Record
    <2>1. rec.completed \in Nat /\ \A q \in accounted' : q.offer \in Offer \cup {None}
      BY <2>0 DEF Request
    <2>2. \A o \in Offer : o.number \in Nat
      BY DEF Offer
    <2>3. req[p].offer # None => req[p].offer.number > rec.completed
      BY <1>1, <1>2 DEF Inv, SlotProtocol, NumberInv
    <2>4. \A q \in accounted : q.offer # None => q.offer.number <= rec.completed
      BY DEF Inv, SlotProtocol, NumberInv
    <2>5. \A q \in accounted' : q.offer # None => q.offer.number <= rec'.completed
      BY <1>1, <1>3, <1>4, <2>1, <2>2, <2>3, <2>4
    <2> QED BY <1>1, <1>4, <2>5 DEF NumberInv
  <1>13. SlotHoldsOutstanding' /\ OfferSentOnce'
    BY <1>1, <1>5 DEF Inv, SlotProtocol, SlotHoldsOutstanding, OfferSentOnce, Outstanding
  <1> QED BY <1>8, <1>9, <1>10, <1>11, <1>12, <1>13 DEF Inv, SlotProtocol

\* Core runs a delivered request.
LEMMA ExecuteInv == ASSUME Inv, NEW q \in sent, Execute(q) PROVE Inv'
  <1>1. /\ executed' = executed \cup {q}
        /\ UNCHANGED <<net, rec, fresh, late, issued, cursor, external, pc, view, op, note,
                       closed, cancelled, seq, col, req, sent, accounted>>
    BY DEF Execute
  <1>2. height' \in Nat /\ wallet' \in BOOLEAN
    <2>1. q.offer # None => q.offer.blocks \in Nat
      BY DEF Inv, TypeOK, Request, Offer
    <2>2. height \in Nat /\ wallet \in BOOLEAN
      BY DEF Inv, TypeOK
    <2>3. CASE q.offer # None
      BY <2>1, <2>2, <2>3 DEF Execute
    <2>4. CASE q.offer = None
      BY <2>2, <2>4 DEF Execute
    <2> QED BY <2>3, <2>4
  <1>3. TypeOK' BY <1>1, <1>2 DEF Inv, TypeOK
  <1>4. PlanInv' /\ CopyInv' BY <1>1 DEF Inv, SlotProtocol, PlanInv, CopyInv
  <1>5. SlotInv' BY <1>1 DEF Inv, SlotProtocol, SlotInv
  <1>6. SlotParts' BY <1>1, SlotFrame
  <1> QED BY <1>3, <1>4, <1>5, <1>6 DEF Inv, SlotProtocol, SlotParts

\* Steps that touch nothing the protocol speaks of.
LEMMA FrameInv ==
  ASSUME Inv, TypeOK',
         UNCHANGED <<rec, fresh, late, pc, view, op, seq, col, req, sent, executed, accounted>>
  PROVE  Inv'
  <1>1. PlanInv' /\ CopyInv' BY DEF Inv, SlotProtocol, PlanInv, CopyInv
  <1>2. SlotInv' BY DEF Inv, SlotProtocol, SlotInv
  <1>3. SlotParts' BY SlotFrame
  <1> QED BY <1>1, <1>2, <1>3 DEF Inv, SlotProtocol, SlotParts

\* An exhausted drain allowance only cancels the receiver.
LEMMA DrainTimeoutInv == ASSUME Inv, NEW p \in Procs, DrainTimeout(p) PROVE Inv'
  <1>1. TypeOK' BY DEF DrainTimeout, Inv, TypeOK
  <1> QED BY <1>1, FrameInv DEF DrainTimeout

\* Peers extend the chain.
LEMMA ExternalBlockInv == ASSUME Inv, ExternalBlock PROVE Inv'
  <1>0. height' \in Nat /\ external' \in Nat
    <2>1. height \in Nat /\ external \in Nat BY DEF Inv, TypeOK
    <2> QED BY <2>1 DEF ExternalBlock
  <1>1. TypeOK' BY <1>0 DEF ExternalBlock, Inv, TypeOK
  <1> QED BY <1>1, FrameInv DEF ExternalBlock

\* The scheduler issues an offer.
LEMMA SelectOfferInv ==
  ASSUME Inv, NEW h \in 0 .. Ceiling, NEW blocks \in 1 .. Batch, SelectOffer(h, blocks)
  PROVE  Inv'
  <1>1. h \in Nat /\ blocks \in Nat
    BY BoundsAssumption
  <1>2. Latest \in Nat
    <2>1. cursor \in Nat /\ rec.completed \in Nat
             /\ issued \in Offer \cup {None} /\ rec.offer \in Offer \cup {None}
      BY DEF Inv, TypeOK, Record
    <2> QED BY <2>1 DEF Latest, Offer
  <1>3. issued' \in Offer
    BY <1>1, <1>2 DEF SelectOffer, Offer
  <1>4. TypeOK' BY <1>3 DEF SelectOffer, Inv, TypeOK
  <1> QED BY <1>4, FrameInv DEF SelectOffer

\* The scheduler moves its cursor to the receipt it read.
LEMMA AccountBootstrapReceiptInv == ASSUME Inv, accountBootstrapReceipt PROVE Inv'
  <1>1. cursor' \in Nat
    BY DEF accountBootstrapReceipt, Inv, TypeOK, Record, Request, Offer
  <1>2. TypeOK' BY <1>1 DEF accountBootstrapReceipt, Inv, TypeOK
  <1> QED BY <1>2, FrameInv DEF accountBootstrapReceipt

\* Edits of the root.
LEMMA RootInv == ASSUME Inv, Root PROVE Inv'
  <1> DEFINE Net == [paused : BOOLEAN, closing : (Reasons \ {"ParticipantRemoved"}) \cup {""},
                     gen : Nat, selected : BOOLEAN, removing : BOOLEAN, terminated : Nat,
                     actor : Nat]
  <1>1. net \in Net BY DEF Inv, TypeOK
  <1>0. net.gen \in Nat /\ net.actor \in Nat BY <1>1
  <1>2. ASSUME Pause PROVE net' \in Net
    <2> DEFINE b == ~net.paused
               g == net.gen + 1
    <2>1. net' = [net EXCEPT !.paused = b, !.gen = g] BY <1>2 DEF Pause, ChangeRoot
    <2>2. b \in BOOLEAN OBVIOUS
    <2>3. g \in Nat BY <1>0
    <2> HIDE DEF b, g
    <2> QED BY <1>1, <2>1, <2>2, <2>3
  <1>3. ASSUME SelectParticipant PROVE net' \in Net
    <2> DEFINE b == ~net.selected
               g == net.gen + 1
    <2>1. net' = [net EXCEPT !.selected = b, !.gen = g] BY <1>3 DEF SelectParticipant, ChangeRoot
    <2>2. b \in BOOLEAN OBVIOUS
    <2>3. g \in Nat BY <1>0
    <2> HIDE DEF b, g
    <2> QED BY <1>1, <2>1, <2>2, <2>3
  <1>4. ASSUME LatchRemoval PROVE net' \in Net BY <1>1, <1>4 DEF LatchRemoval, ChangeRoot
  <1>5. ASSUME RestartActor PROVE net' \in Net
    <2> DEFINE a == net.actor + 1
    <2>1. net' = [net EXCEPT !.actor = a] BY <1>5 DEF RestartActor, ChangeRoot
    <2>2. a \in Nat BY <1>0
    <2> HIDE DEF a
    <2> QED BY <1>1, <2>1, <2>2
  <1>6. ASSUME NEW reason \in Reasons \ {"ParticipantRemoved"}, Close(reason) PROVE net' \in Net
    <2> DEFINE b == net.paused /\ reason # "NetworkStopped"
               g == IF reason = "NetworkFailed" THEN net.gen ELSE net.gen + 1
    <2>1. net' = [net EXCEPT !.closing = reason, !.paused = b, !.gen = g]
      BY <1>6 DEF Close, ChangeRoot
    <2>2. b \in BOOLEAN OBVIOUS
    <2>3. g \in Nat BY <1>0
    <2> HIDE DEF b, g
    <2> QED BY <1>1, <1>6, <2>1, <2>2, <2>3
  <1>7. ASSUME ConfirmTermination PROVE net' \in Net
    BY <1>0, <1>1, <1>7 DEF ConfirmTermination, ChangeRoot
  <1>8. net' \in Net BY <1>2, <1>3, <1>4, <1>5, <1>6, <1>7 DEF Root
  <1>9. UNCHANGED <<slotVars, initVars, coreVars, stepVars, lifeVars, colVars, sent, accounted>>
    BY DEF Root, Pause, SelectParticipant, LatchRemoval, ConfirmTermination, RestartActor,
           Close, ChangeRoot
  <1>10. TypeOK' BY <1>8, <1>9 DEF Inv, TypeOK
  <1> QED BY <1>9, <1>10, FrameInv

\* Every step of the system preserves the invariant.
LEMMA NextInv == ASSUME Inv, [Next]_vars PROVE Inv'
  <1>1. CASE UNCHANGED vars
    <2>1. TypeOK' BY <1>1 DEF vars, Inv, TypeOK
    <2> QED BY <1>1, <2>1, FrameInv DEF vars
  <1>2. ASSUME NEW p \in Procs, Step(p) PROVE Inv'
    <2>1. ASSUME NEW acked \in BOOLEAN, WriteAcknowledgement(p, acked) \/ Publish(p, acked)
          PROVE  Inv'
      BY <2>1, WriteAcknowledgementInv, PublishInv
    <2> QED BY <1>2, <2>1, ReadRecordInv, RefuseInv, StopInv, DrainTimeoutInv,
               AcknowledgeDrainInv, AcknowledgePauseInv, ObserveInv, ReserveInv,
               AuthorizeArmInv, PreflightInv, WriteArmedInv, LoseArmedInv, ConfirmInv,
               RefuseConfirmInv, WithdrawInv DEF Step
  <1>3. ASSUME NEW p \in Procs, collect(p) PROVE Inv'
    <2>1. ASSUME LoseResponse(p) \/ AlreadyAccounted(p) \/ AbandonReceipt(p) PROVE Inv'
      BY <2>1, ReleaseInv DEF LoseResponse, AlreadyAccounted, AbandonReceipt
    <2> QED BY <1>3, <2>1, SendInv, ReceiveInv, AccountInv DEF collect
  <1>4. ASSUME NEW p \in Procs, Process(p) PROVE Inv'
    BY <1>2, <1>3, <1>4, StartInv, CrashInv, TerminateInv, ExitInv DEF Process
  <1>5. ASSUME Core PROVE Inv'
    BY <1>5, ExternalBlockInv, ExecuteInv DEF Core
  <1>6. ASSUME Scheduler PROVE Inv'
    BY <1>6, SelectOfferInv, AssignOfferInv, AccountBootstrapReceiptInv DEF Scheduler
  <1> QED BY <1>1, <1>4, <1>5, <1>6, LandArmedInv, RootInv DEF Next

-----------------------------------------------------------------------------
\* The invariant holds of every behaviour.
THEOREM Invariance == Spec => []Inv
  <1>1. Inv /\ [Next]_vars => Inv'
    BY NextInv
  <1> QED BY InitInv, <1>1, PTL DEF Spec

\* Every variable keeps its type: in particular a copy is a record, a plan is a request, and
\* only requests that were sent are run, and only requests that ran are counted.
THEOREM TypeCorrect == Spec => []TypeOK
  <1>1. Inv => TypeOK BY DEF Inv
  <1> QED BY Invariance, <1>1, PTL

\* Ownership of an arm, currency of the copies, spent identities and rising offer numbers hold
\* throughout (arm, collect and account in worker.go).
THEOREM ProtocolHolds == Spec => []SlotProtocol
  <1>1. Inv => SlotProtocol BY DEF Inv
  <1> QED BY Invariance, <1>1, PTL

\* Whatever was sent and is not counted yet is exactly what Armed holds: at most one mutation
\* is outstanding, for any number of processes, crashes, late writes and lost answers.
THEOREM OneOutstanding == Spec => []SlotHoldsOutstanding
  <1>1. Inv => SlotHoldsOutstanding BY DEF Inv, SlotProtocol
  <1> QED BY Invariance, <1>1, PTL

\* No offer is ever sent twice.
THEOREM NoOfferTwice == Spec => []OfferSentOnce
  <1>1. Inv => OfferSentOnce BY DEF Inv, SlotProtocol
  <1> QED BY Invariance, <1>1, PTL
-----------------------------------------------------------------------------
(* BitcoinWorker implements ArmedSlot *)

\* A step that leaves the slot and the ledgers of requests alone is invisible to ArmedSlot.
LEMMA Invisible ==
  ASSUME rec'.armed = rec.armed, UNCHANGED <<sent, executed, accounted>>
  PROVE  UNCHANGED Slot!slotVars
  BY DEF Slot!slotVars

\* Steps of a process that write nothing to the slot: its own copy, plan and labels, and
\* fields of the record beside the slot.
LEMMA StepSimulates ==
  ASSUME Inv, NEW p \in Procs, Step(p) PROVE [Slot!Next]_Slot!slotVars
  <1>1. CASE \/ ReadRecord(p) \/ Refuse(p) \/ stop(p) \/ DrainTimeout(p) \/ acknowledgePause(p)
             \/ observe(p) \/ Reserve(p) \/ AuthorizeArm(p) \/ Preflight(p) \/ LoseArmed(p)
             \/ Confirm(p) \/ RefuseConfirm(p)
    <2>1. UNCHANGED <<rec, sent, executed, accounted>>
      BY <1>1 DEF ReadRecord, Refuse, stop, DrainTimeout, acknowledgePause, observe, Reserve,
                  AuthorizeArm, Preflight, LoseArmed, Confirm, RefuseConfirm, ReturnUnwritten
    <2> QED BY <2>1, Invisible
  <1>2. CASE AcknowledgeDrain(p)
    <2>1. rec'.armed = rec.armed /\ UNCHANGED <<sent, executed, accounted>>
      BY <1>2 DEF AcknowledgeDrain, ReadModifyWrite, Inv, TypeOK, Record
    <2> QED BY <2>1, Invisible
  <1>3. ASSUME NEW acked \in BOOLEAN, WriteAcknowledgement(p, acked) \/ Publish(p, acked)
        PROVE  UNCHANGED Slot!slotVars
    <2>1. p \in fresh => view[p] = rec
      BY DEF Inv, SlotProtocol, CopyInv
    <2>2. UNCHANGED <<sent, executed, accounted>>
      BY <1>3 DEF WriteAcknowledgement, Publish
    <2>3. rec \in Record
      BY DEF Inv, TypeOK
    <2>4. CASE WriteAcknowledgement(p, acked)
      BY <2>1, <2>2, <2>3, <2>4, Invisible DEF WriteAcknowledgement, Record
    <2>5. CASE Publish(p, acked)
      BY <2>1, <2>2, <2>3, <2>5, Invisible DEF Publish, Update, ReadModifyWrite, Record
    <2> QED BY <1>3, <2>4, <2>5
  <1>4. CASE WriteArmed(p)
    <2>1. /\ pc[p] = "cas" /\ p \in fresh
          /\ rec' = [view[p] EXCEPT !.armed = op[p]]
          /\ UNCHANGED <<sent, executed, accounted>>
      BY <1>4 DEF WriteArmed, ArmCopy, Update, ReadModifyWrite
    <2>2. view[p] = rec /\ rec.armed = None /\ op[p] \in Request /\ op[p] \notin sent
      BY <2>1, AboutToWrite
    <2>3. rec'.armed = op[p]
      BY <2>1, <2>2 DEF Inv, TypeOK, Record
    <2> QED BY <2>1, <2>2, <2>3 DEF Slot!Next, Slot!Arm
  <1>5. CASE withdraw(p)
    <2>1. /\ pc[p] = "withdraw" /\ rec.armed = op[p]
          /\ rec' = [rec EXCEPT !.armed = None]
          /\ UNCHANGED <<sent, executed, accounted>>
      BY <1>5 DEF withdraw, ReadModifyWrite
    <2>2. op[p] \notin sent /\ op[p] # None
      BY <2>1 DEF Inv, SlotProtocol, SlotInv, PlanInv, ArmPcs, Owning
    <2>3. rec'.armed = None
      BY <2>1 DEF Inv, TypeOK, Record
    <2> QED BY <2>1, <2>2, <2>3 DEF Slot!Next, Slot!Withdraw
  <1> QED BY <1>1, <1>2, <1>3, <1>4, <1>5 DEF Step

\* Sending, and counting a receipt, are the slot's own steps.
LEMMA CollectSimulates ==
  ASSUME Inv, NEW p \in Procs, collect(p) PROVE [Slot!Next]_Slot!slotVars
  <1>1. CASE Send(p)
    <2>1. rec.armed = req[p] /\ req[p] \notin sent /\ req[p] # None
      BY <1>1 DEF Send, Inv, SlotProtocol, SlotInv
    <2> QED BY <1>1, <2>1 DEF Send, Slot!Next, Slot!Send
  <1>2. CASE LoseResponse(p) \/ Receive(p) \/ AlreadyAccounted(p) \/ AbandonReceipt(p)
    BY <1>2, Invisible DEF LoseResponse, Receive, AlreadyAccounted, AbandonReceipt
  <1>3. ASSUME NEW acked \in BOOLEAN, account(p, acked) PROVE Slot!Next
    <2>1. /\ rec.armed = req[p] /\ rec' = Accounted(rec, req[p])
          /\ accounted' = accounted \cup {req[p]} /\ UNCHANGED <<sent, executed>>
          /\ col[p] = "receipt"
      BY <1>3 DEF account, ReadModifyWrite
    <2>2. req[p] \in executed
      BY <2>1 DEF Inv, SlotProtocol, SlotInv
    <2>3. rec \in Record /\ req[p] \in Request
      BY <2>2 DEF Inv, TypeOK
    <2>4. rec'.armed = None
      BY <2>1, <2>3, AccountedFields
    <2> QED BY <2>1, <2>2, <2>4 DEF Slot!Next, Slot!Settle
  <1> QED BY <1>1, <1>2, <1>3 DEF collect

\* Every step of the system is a step of the abstract slot, or invisible to it.
LEMMA NextSimulates ==
  ASSUME Inv, [Next]_vars PROVE [Slot!Next]_Slot!slotVars
  <1>1. CASE UNCHANGED vars
    BY <1>1, Invisible DEF vars
  <1>2. ASSUME NEW p \in Procs, Process(p) PROVE [Slot!Next]_Slot!slotVars
    <2>1. CASE Start(p) \/ Crash(p) \/ Terminate(p) \/ Exit(p)
      BY <2>1, Invisible DEF Start, Crash, Terminate, Exit
    <2> QED BY <1>2, <2>1, StepSimulates, CollectSimulates DEF Process
  <1>3. ASSUME NEW q \in late, LandArmed(q) PROVE Slot!Next
    <2>1. rec' = [rec EXCEPT !.armed = q] /\ UNCHANGED <<sent, executed, accounted>>
      BY <1>3 DEF LandArmed, ReadModifyWrite
    <2>2. rec.armed = None /\ q \in Request /\ q \notin sent
      BY DEF Inv, TypeOK, SlotProtocol, SlotInv
    <2>3. rec'.armed = q
      BY <2>1 DEF Inv, TypeOK, Record
    <2> QED BY <2>1, <2>2, <2>3 DEF Slot!Next, Slot!Arm
  <1>4. ASSUME Core PROVE [Slot!Next]_Slot!slotVars
    <2>1. ASSUME NEW q \in sent, Execute(q) PROVE Slot!Next
      BY <2>1 DEF Execute, Slot!Next, Slot!Run
    <2>2. CASE ExternalBlock
      BY <2>2, Invisible DEF ExternalBlock
    <2> QED BY <1>4, <2>1, <2>2 DEF Core
  <1>5. ASSUME Scheduler PROVE UNCHANGED Slot!slotVars
    <2>1. ASSUME NEW h \in 0 .. Ceiling, NEW blocks \in 1 .. Batch, SelectOffer(h, blocks)
          PROVE  UNCHANGED Slot!slotVars
      BY <2>1, Invisible DEF SelectOffer
    <2>2. CASE AssignOffer
      <3>1. rec'.armed = rec.armed /\ UNCHANGED <<sent, executed, accounted>>
        BY <2>2 DEF AssignOffer, ReadModifyWrite, Inv, TypeOK, Record
      <3> QED BY <3>1, Invisible
    <2>3. CASE accountBootstrapReceipt
      BY <2>3, Invisible DEF accountBootstrapReceipt
    <2> QED BY <1>5, <2>1, <2>2, <2>3 DEF Scheduler
  <1>6. ASSUME Root PROVE UNCHANGED Slot!slotVars
    BY <1>6, Invisible DEF Root, Pause, SelectParticipant, LatchRemoval, ConfirmTermination,
                           RestartActor, Close, ChangeRoot
  <1> QED BY <1>1, <1>2, <1>3, <1>4, <1>5, <1>6 DEF Next

\* The processes implement the abstract slot: an arm is sent at most once, and the slot is
\* vacated only by counting its receipt or by withdrawing an arm that was never sent.
THEOREM Refinement == Spec => ImplementsArmedSlot
  <1>1. Init => Slot!Init
    <2>1. SUFFICES ASSUME Init PROVE Slot!Init
      OBVIOUS
    <2>2. rec.armed = None
      BY <2>1 DEF Init
    <2>3. sent = {} /\ executed = {} /\ accounted = {}
      BY <2>1 DEF Init
    <2> QED BY <2>2, <2>3 DEF Slot!Init
  <1>2. Inv /\ [Next]_vars => [Slot!Next]_Slot!slotVars
    BY NextSimulates
  <1> QED BY Invariance, <1>1, <1>2, PTL DEF Spec, ImplementsArmedSlot, Slot!Spec

-----------------------------------------------------------------------------
(* What the worker counts and promises beside its slot: the durable counter of generated
   blocks and the gate's height ceiling, the acknowledgement of a pause, and the observation
   of a drained runtime.  Each rests on Inv and on an inductive invariant of its own. *)

USE DEF netVars, slotVars, initVars, coreVars, stepVars, lifeVars, colVars

-----------------------------------------------------------------------------
(* The counter of generated blocks and the ceiling of the gate *)

\* An offer whose generation would end at or below the ceiling, for a chain that has grown by
\* peers' blocks only since the offer's height was last confirmed.
Fits(o) == height <= o.height + external /\ o.height + o.blocks <= Ceiling

\* What was checked before the write stays true until the request runs: of the copy about to
\* be written, of a write given up, of the arm in the slot.
CeilingInv ==
    /\ CeilingRespected
    /\ \A p \in fresh : pc[p] = "cas" /\ op[p].offer # None => Fits(op[p].offer)
    /\ \A q \in late : q.offer # None => Fits(q.offer)
    /\ rec.armed # None /\ rec.armed.offer # None /\ rec.armed \notin executed
         => Fits(rec.armed.offer)

ProductionInv == LedgerExact /\ CeilingInv

\* Pause acknowledged for the current generation: the slot is empty, no late write is left and
\* no process that passed its authorization still holds a current copy.
Acknowledged == net.paused /\ rec.control # None /\ rec.control.gen = net.gen

PauseInv ==
    /\ rec.control # None => rec.control.gen <= net.gen
    /\ \A p \in Procs : note[p].gen <= net.gen
    /\ \A p \in Procs : pc[p] = "ack" => view[p].armed = None
    /\ Acknowledged => /\ rec.armed = None /\ late = {}
                       /\ \A p \in fresh : pc[p] \notin {"preflight", "cas"}

\* A step that adds no block, leaves the slot and the counter alone and brings no process to
\* the write of a generation.
LEMMA ProductionFrame ==
  ASSUME Inv, ProductionInv, UNCHANGED <<height, external, executed>>,
         rec'.armed = rec.armed, rec'.blocks = rec.blocks, late' \subseteq late,
         \A p \in fresh' : pc'[p] = "cas" /\ op'[p].offer # None
                              => p \in fresh /\ pc[p] = "cas" /\ op'[p] = op[p]
  PROVE  ProductionInv'
  <1>1. LedgerExact' BY DEF ProductionInv, LedgerExact
  <1>2. CeilingInv' BY DEF ProductionInv, CeilingInv, CeilingRespected, Fits
  <1> QED BY <1>1, <1>2 DEF ProductionInv

\* Numbers of the ledger.
LEMMA LedgerTypes ==
  Inv => /\ height \in Nat /\ external \in Nat /\ rec.blocks \in Nat
         /\ \A q \in sent \cup late : q.offer # None => q.offer.height \in Nat /\ q.offer.blocks \in Nat
         /\ Ceiling \in Nat
  BY BoundsAssumption DEF Inv, TypeOK, Record, Request, Offer

\* Nothing is executed yet of what is not sent, and nil never is.
LEMMA Unexecuted ==
  ASSUME Inv PROVE None \notin executed /\ \A q : q \notin sent => q \notin executed
  BY NoneAssumption DEF Inv, TypeOK

\* The last native read puts the offer within the ceiling.
LEMMA PreflightProduction ==
  ASSUME Inv, ProductionInv, NEW p \in Procs, Preflight(p) PROVE ProductionInv'
  <1>1. /\ height = op[p].offer.height /\ BelowCeiling(op[p].offer, height)
        /\ pc' = [pc EXCEPT ![p] = "cas"]
        /\ UNCHANGED <<rec, fresh, late, op, height, external, executed>>
    BY DEF Preflight, Goto
  <1>2. op[p].offer # None => Fits(op[p].offer)
    <2>1. op[p].offer # None => op[p].offer.blocks \in Nat
      <3>1. pc[p] = "preflight" BY DEF Preflight
      <3>2. op[p] # None BY <3>1 DEF Inv, SlotProtocol, PlanInv, ArmPcs
      <3> QED BY <3>2, PlanTypes DEF Request, Offer
    <2> QED BY <1>1, <2>1, LedgerTypes DEF BelowCeiling, Fits
  <1>3. LedgerExact' BY <1>1 DEF ProductionInv, LedgerExact
  <1>4. \A q \in Procs : q # p => pc'[q] = pc[q]
    BY <1>1, PcType
  <1>5. fresh \subseteq Procs BY DEF Inv, TypeOK
  <1>6. CeilingInv' BY <1>1, <1>2, <1>4, <1>5 DEF ProductionInv, CeilingInv, CeilingRespected, Fits
  <1> QED BY <1>3, <1>6 DEF ProductionInv

\* The arm in the slot is the one whose offer was checked; it has not run.
LEMMA WriteArmedProduction ==
  ASSUME Inv, ProductionInv, NEW p \in Procs, WriteArmed(p) PROVE ProductionInv'
  <1>1. /\ pc[p] = "cas" /\ p \in fresh
        /\ rec' = [view[p] EXCEPT !.armed = op[p]] /\ fresh' = {} /\ late' = {}
        /\ UNCHANGED <<height, external, executed>>
    BY DEF WriteArmed, ArmCopy, Update, ReadModifyWrite
  <1>2. view[p] = rec /\ rec.armed = None /\ op[p] \notin sent
    BY <1>1, AboutToWrite
  <1>3. rec'.armed = op[p] /\ rec'.blocks = rec.blocks
    BY <1>1, <1>2 DEF Inv, TypeOK, Record
  <1>4. LedgerExact' BY <1>1, <1>2, <1>3, Unexecuted DEF ProductionInv, LedgerExact
  <1>5. CeilingInv' BY <1>1, <1>3 DEF ProductionInv, CeilingInv, CeilingRespected, Fits
  <1> QED BY <1>4, <1>5 DEF ProductionInv

\* So is a write given up.
LEMMA LoseArmedProduction ==
  ASSUME Inv, ProductionInv, NEW p \in Procs, LoseArmed(p) PROVE ProductionInv'
  <1>1. /\ pc[p] = "cas" /\ p \in fresh /\ late' = late \cup {op[p]}
        /\ fresh' = fresh \ {p} /\ pc' = [pc EXCEPT ![p] = "idle"]
        /\ op' = [op EXCEPT ![p] = None]
        /\ UNCHANGED <<rec, height, external, executed>>
    BY DEF LoseArmed, Return
  <1>2. \A q \in fresh' : pc'[q] = pc[q] /\ op'[q] = op[q] /\ q \in fresh
    BY <1>1, PlanTypes DEF Inv, TypeOK
  <1>3. LedgerExact' BY <1>1 DEF ProductionInv, LedgerExact
  <1>4. CeilingInv' BY <1>1, <1>2 DEF ProductionInv, CeilingInv, CeilingRespected, Fits
  <1> QED BY <1>3, <1>4 DEF ProductionInv

\* A late arm lands as it was written.
LEMMA LandArmedProduction ==
  ASSUME Inv, ProductionInv, NEW q \in late, LandArmed(q) PROVE ProductionInv'
  <1>1. /\ rec' = [rec EXCEPT !.armed = q] /\ fresh' = {} /\ late' = {}
        /\ UNCHANGED <<height, external, executed>>
    BY DEF LandArmed, ReadModifyWrite
  <1>2. rec.armed = None /\ q \notin sent
    BY DEF Inv, TypeOK, SlotProtocol, SlotInv
  <1>3. rec'.armed = q /\ rec'.blocks = rec.blocks
    BY <1>1 DEF Inv, TypeOK, Record
  <1>4. LedgerExact' BY <1>1, <1>2, <1>3, Unexecuted DEF ProductionInv, LedgerExact
  <1>5. CeilingInv' BY <1>1, <1>3 DEF ProductionInv, CeilingInv, CeilingRespected, Fits
  <1> QED BY <1>4, <1>5 DEF ProductionInv

\* withdraw takes out an arm that never ran.
LEMMA WithdrawProduction ==
  ASSUME Inv, ProductionInv, NEW p \in Procs, withdraw(p) PROVE ProductionInv'
  <1>1. /\ pc[p] = "withdraw" /\ rec.armed = op[p]
        /\ rec' = [rec EXCEPT !.armed = None] /\ fresh' = {} /\ late' = {}
        /\ UNCHANGED <<height, external, executed>>
    BY DEF withdraw, ReadModifyWrite
  <1>2. op[p] \notin sent
    BY <1>1 DEF Inv, SlotProtocol, SlotInv, Owning
  <1>3. rec'.armed = None /\ rec'.blocks = rec.blocks
    BY <1>1 DEF Inv, TypeOK, Record
  <1>4. LedgerExact' BY <1>1, <1>2, <1>3, Unexecuted DEF ProductionInv, LedgerExact
  <1>5. CeilingInv' BY <1>1, <1>3 DEF ProductionInv, CeilingInv, CeilingRespected
  <1> QED BY <1>4, <1>5 DEF ProductionInv

\* The counter takes in exactly the request that ran and leaves the slot.
LEMMA AccountProduction ==
  ASSUME Inv, ProductionInv, NEW p \in Procs, NEW acked \in BOOLEAN, account(p, acked)
  PROVE  ProductionInv'
  <1>1. /\ col[p] = "receipt" /\ rec.armed = req[p]
        /\ rec' = Accounted(rec, req[p]) /\ fresh' = {} /\ late' = {}
        /\ UNCHANGED <<height, external, executed>>
    BY DEF account, ReadModifyWrite
  <1>2. req[p] \in executed /\ req[p] \in sent /\ req[p] \in Request
    BY <1>1 DEF Inv, TypeOK, SlotProtocol, SlotInv
  <1>3. rec'.armed = None
    BY <1>1, <1>2, AccountedFields DEF Inv, TypeOK
  <1>4. rec'.blocks = rec.blocks + (IF req[p].offer # None THEN req[p].offer.blocks ELSE 0)
    <2>1. rec \in Record /\ rec.blocks \in Nat BY DEF Inv, TypeOK, Record
    <2> QED BY <1>1, <2>1 DEF Accounted, Record
  <1>5. LedgerExact'
    <2>1. req[p].offer # None => req[p].offer.blocks \in Nat BY <1>2, LedgerTypes
    <2>2. rec.blocks + external
            = height - (IF req[p].offer # None THEN req[p].offer.blocks ELSE 0)
      BY <1>1, <1>2 DEF ProductionInv, LedgerExact
    <2>3. rec'.blocks + external = height
      BY <1>4, <2>1, <2>2, LedgerTypes
    <2> QED BY <1>1, <1>3, <2>3, Unexecuted, LedgerTypes DEF LedgerExact
  <1>6. CeilingInv' BY <1>1, <1>3 DEF ProductionInv, CeilingInv, CeilingRespected
  <1> QED BY <1>5, <1>6 DEF ProductionInv

\* Core runs the armed request, and its blocks stay within the ceiling.
LEMMA ExecuteProduction ==
  ASSUME Inv, ProductionInv, NEW q \in sent, Execute(q) PROVE ProductionInv'
  <1>1. /\ q \in sent \ executed /\ executed' = executed \cup {q}
        /\ height' = height + (IF q.offer # None THEN q.offer.blocks ELSE 0)
        /\ UNCHANGED <<rec, fresh, late, external, pc, op>>
    BY LedgerTypes DEF Execute
  <1>2. rec.armed = q /\ q # None
    BY <1>1, NoneAssumption DEF Inv, TypeOK, SlotProtocol, SlotHoldsOutstanding, Outstanding
  <1>3. late = {}
    BY <1>2 DEF Inv, SlotProtocol, SlotInv
  <1>4. \A p \in fresh : pc[p] # "cas"
    BY <1>2 DEF Inv, TypeOK, SlotProtocol, CopyInv
  <1>5. LedgerExact'
    BY <1>1, <1>2, LedgerTypes DEF ProductionInv, LedgerExact
  <1>6. CeilingRespected'
    <2>1. q.offer # None => Fits(q.offer)
      BY <1>1, <1>2 DEF ProductionInv, CeilingInv
    <2>2. height <= Ceiling + external
      BY DEF ProductionInv, CeilingInv, CeilingRespected
    <2> QED BY <1>1, <2>1, <2>2, LedgerTypes DEF Fits, CeilingRespected
  <1>7. CeilingInv' BY <1>1, <1>2, <1>3, <1>4, <1>6 DEF CeilingInv
  <1> QED BY <1>5, <1>7 DEF ProductionInv

\* A peer's block raises the chain and the peers' count alike.
LEMMA ExternalProduction ==
  ASSUME Inv, ProductionInv, ExternalBlock PROVE ProductionInv'
  <1>1. /\ external' = external + 1 /\ height' = height + 1
        /\ UNCHANGED <<rec, fresh, late, pc, op, executed>>
    BY DEF ExternalBlock
  <1>2. LedgerExact'
    <2>1. rec.armed \in executed /\ rec.armed.offer # None => rec.armed.offer.blocks \in Nat
      BY LedgerTypes DEF Inv, TypeOK
    <2> QED BY <1>1, <2>1, LedgerTypes DEF ProductionInv, LedgerExact
  <1>3. CeilingRespected'
    BY <1>1, LedgerTypes DEF ProductionInv, CeilingInv, CeilingRespected
  <1>4. ASSUME NEW o \in Offer, Fits(o) PROVE Fits(o)'
    <2>1. o.height \in Nat BY DEF Offer
    <2> QED BY <1>1, <1>4, <2>1, LedgerTypes DEF Fits
  <1>5. /\ \A p \in fresh : pc[p] = "cas" /\ op[p].offer # None => op[p].offer \in Offer
        /\ \A q \in late : q.offer # None => q.offer \in Offer
        /\ rec.armed # None /\ rec.armed.offer # None => rec.armed.offer \in Offer
    <2>1. \A p \in fresh : pc[p] = "cas" => op[p] \in Request
      BY AboutToWrite DEF Inv, TypeOK
    <2>2. rec.armed # None => rec.armed \in Request
      BY DEF Inv, TypeOK, Record
    <2> QED BY <2>1, <2>2 DEF Inv, TypeOK, Request
  <1>6. CeilingInv'
    <2>1. \A p \in fresh' : pc'[p] = "cas" /\ op'[p].offer # None => Fits(op[p].offer)'
      BY <1>1, <1>4, <1>5 DEF ProductionInv, CeilingInv
    <2>2. \A q \in late' : q.offer # None => Fits(q.offer)'
      BY <1>1, <1>4, <1>5 DEF ProductionInv, CeilingInv
    <2>3. rec'.armed # None /\ rec'.armed.offer # None /\ rec'.armed \notin executed'
            => Fits(rec.armed.offer)'
      BY <1>1, <1>4, <1>5 DEF ProductionInv, CeilingInv
    <2> QED BY <1>3, <2>1, <2>2, <2>3 DEF CeilingInv
  <1> QED BY <1>2, <1>6 DEF ProductionInv

\* Steps of Step that neither write the slot nor reach the write of a generation.
LEMMA StepProduction ==
  ASSUME Inv, ProductionInv, NEW p \in Procs, Step(p) PROVE ProductionInv'
  <1>0. fresh \subseteq Procs /\ rec \in Record /\ pc \in [Procs -> PcLabels]
           /\ op \in [Procs -> Request \cup {None}]
    BY DEF Inv, TypeOK
  <1>1. CASE \/ ReadRecord(p) \/ Refuse(p) \/ stop(p) \/ DrainTimeout(p) \/ acknowledgePause(p)
             \/ observe(p) \/ Reserve(p) \/ AuthorizeArm(p) \/ Confirm(p) \/ RefuseConfirm(p)
    <2>1. UNCHANGED <<height, external, executed, rec, late>>
      BY <1>1 DEF ReadRecord, Refuse, stop, DrainTimeout, acknowledgePause, observe, Reserve,
                  AuthorizeArm, Confirm, RefuseConfirm, ReturnUnwritten
    <2>2. \A q \in fresh' : pc'[q] = "cas" /\ op'[q].offer # None
                              => q \in fresh /\ pc[q] = "cas" /\ op'[q] = op[q]
      <3>1. CASE ReadRecord(p) \/ Refuse(p) \/ DrainTimeout(p)
        BY <1>0, <3>1 DEF ReadRecord, Refuse, DrainTimeout, ReturnUnwritten, Return, Goto
      <3>2. CASE stop(p) \/ acknowledgePause(p)
        BY <1>0, <3>2 DEF stop, acknowledgePause, ReturnUnwritten, Return, Goto
      <3>3. CASE observe(p) \/ Reserve(p) \/ RefuseConfirm(p) \/ Confirm(p)
        BY <1>0, <3>3 DEF observe, Reserve, RefuseConfirm, Confirm, ReturnUnwritten, Return, Goto
      <3>4. CASE AuthorizeArm(p)
        BY <1>0, <3>4 DEF AuthorizeArm, Goto
      <3> QED BY <1>1, <3>1, <3>2, <3>3, <3>4
    <2> QED BY <2>1, <2>2, ProductionFrame
  <1>2. CASE AcknowledgeDrain(p)
    <2>1. /\ rec'.armed = rec.armed /\ rec'.blocks = rec.blocks /\ fresh' = {} /\ late' = {}
          /\ UNCHANGED <<height, external, executed>>
      BY <1>0, <1>2 DEF AcknowledgeDrain, ReadModifyWrite, Record
    <2> QED BY <2>1, ProductionFrame
  <1>3. ASSUME NEW acked \in BOOLEAN, WriteAcknowledgement(p, acked) PROVE ProductionInv'
    <2>1. view[p] = rec
      BY <1>3 DEF WriteAcknowledgement, Inv, SlotProtocol, CopyInv
    <2>2. /\ rec'.armed = rec.armed /\ rec'.blocks = rec.blocks /\ late' = {}
          /\ UNCHANGED <<height, external, executed>>
      BY <1>0, <1>3, <2>1 DEF WriteAcknowledgement, Record
    <2>3. \A q \in fresh' : pc'[q] # "cas"
      BY <1>0, <1>3 DEF WriteAcknowledgement, Goto
    <2> QED BY <2>2, <2>3, ProductionFrame
  <1>4. ASSUME NEW acked \in BOOLEAN, Publish(p, acked) PROVE ProductionInv'
    <2>1. p \in fresh => view[p] = rec
      BY DEF Inv, SlotProtocol, CopyInv
    <2>2. /\ rec'.armed = rec.armed /\ rec'.blocks = rec.blocks /\ late' \subseteq late
          /\ fresh' \subseteq fresh \ {p}
          /\ UNCHANGED <<height, external, executed>>
      BY <1>0, <1>4, <2>1 DEF Publish, Update, ReadModifyWrite, Record
    <2>3. \A q \in Procs : q # p => pc'[q] = pc[q] /\ op'[q] = op[q]
      BY <1>0, <1>4 DEF Publish, Return, Goto
    <2> QED BY <1>0, <2>2, <2>3, ProductionFrame
  <1> QED BY <1>1, <1>2, <1>3, <1>4, PreflightProduction, WriteArmedProduction,
             LoseArmedProduction, WithdrawProduction DEF Step

\* Every step preserves the exactness of the counter and the ceiling.
LEMMA NextProduction == ASSUME Inv, ProductionInv, [Next]_vars PROVE ProductionInv'
  <1>0. fresh \subseteq Procs /\ rec \in Record /\ pc \in [Procs -> PcLabels]
           /\ op \in [Procs -> Request \cup {None}]
    BY DEF Inv, TypeOK
  <1>1. CASE UNCHANGED vars
    BY <1>1, ProductionFrame DEF vars
  <1>2. ASSUME NEW p \in Procs, Start(p) \/ Crash(p) \/ Terminate(p) \/ Exit(p)
        PROVE  ProductionInv'
    <2>1. UNCHANGED <<height, external, executed, rec, late>> /\ fresh' \subseteq fresh
      BY <1>2 DEF Start, Crash, Terminate, Exit
    <2>2. \A q \in fresh' : pc'[q] = "cas" => pc[q] = "cas" /\ op'[q] = op[q]
      BY <1>0, <1>2, <2>1 DEF Start, Crash, Terminate, Exit, Goto
    <2> QED BY <2>1, <2>2, ProductionFrame
  <1>3. ASSUME NEW p \in Procs, collect(p) PROVE ProductionInv'
    <2>1. CASE Send(p) \/ LoseResponse(p) \/ Receive(p) \/ AlreadyAccounted(p)
                 \/ AbandonReceipt(p)
      BY <2>1, ProductionFrame
         DEF Send, LoseResponse, Receive, AlreadyAccounted, AbandonReceipt
    <2> QED BY <1>3, <2>1, AccountProduction DEF collect
  <1>4. ASSUME Scheduler PROVE ProductionInv'
    <2>1. ASSUME NEW h, NEW blocks, SelectOffer(h, blocks) PROVE ProductionInv'
      BY <2>1, ProductionFrame DEF SelectOffer
    <2>2. CASE AssignOffer
      <3>1. /\ rec'.armed = rec.armed /\ rec'.blocks = rec.blocks /\ fresh' = {} /\ late' = {}
            /\ UNCHANGED <<height, external, executed>>
        BY <1>0, <2>2 DEF AssignOffer, ReadModifyWrite, Record
      <3> QED BY <3>1, ProductionFrame
    <2>3. CASE accountBootstrapReceipt
      BY <2>3, ProductionFrame DEF accountBootstrapReceipt
    <2> QED BY <1>4, <2>1, <2>2, <2>3 DEF Scheduler
  <1>5. ASSUME Root PROVE ProductionInv'
    BY <1>5, ProductionFrame DEF Root, Pause, SelectParticipant, LatchRemoval,
                                 ConfirmTermination, RestartActor, Close, ChangeRoot
  <1>6. ASSUME Core PROVE ProductionInv'
    BY <1>6, ExecuteProduction, ExternalProduction DEF Core
  <1> QED BY <1>1, <1>2, <1>3, <1>4, <1>5, <1>6, StepProduction, LandArmedProduction
          DEF Next, Process

\* The counter of generated blocks is exact and generation stays within the ceiling, for any
\* number of processes, offers, restarts, lost answers and peers' blocks (worker.go, arm and
\* account; production ceilings of the bootstrap gates).
THEOREM ProductionTheorem == Spec => []ProductionExact
  <1>1. Init => ProductionInv
    <2>1. SUFFICES ASSUME Init PROVE ProductionInv
      OBVIOUS
    <2>2. height = 0 /\ external = 0 /\ rec.blocks = 0 /\ rec.armed = None /\ executed = {}
            /\ fresh = {} /\ late = {}
      BY <2>1 DEF Init
    <2> QED BY <2>2, BoundsAssumption
            DEF ProductionInv, LedgerExact, CeilingInv, CeilingRespected
  <1>2. Inv /\ ProductionInv /\ [Next]_vars => ProductionInv'
    BY NextProduction
  <1>3. ProductionInv => ProductionExact
    BY DEF ProductionInv, CeilingInv, ProductionExact
  <1> QED BY Invariance, <1>1, <1>2, <1>3, PTL DEF Spec

-----------------------------------------------------------------------------
(* Pauses and drains *)

\* Types of what PauseInv speaks of.
LEMMA PauseTypes ==
  Inv => /\ net.gen \in Nat /\ net.paused \in BOOLEAN
         /\ rec.control # None => rec.control.gen \in Nat
         /\ \A p \in Procs : note[p] \in Note /\ note[p].gen \in Nat
         /\ fresh \subseteq Procs
         /\ pc \in [Procs -> PcLabels] /\ note \in [Procs -> Note]
         /\ view \in [Procs -> Record \cup {None}]
  BY DEF Inv, TypeOK, Record, Control, Note

\* A step of one process, or of none, that writes neither the root nor the record.
LEMMA PauseFrame ==
  ASSUME Inv, PauseInv, UNCHANGED <<net, rec>>, late' \subseteq late,
         \A p \in Procs : note'[p].gen = note[p].gen \/ note'[p].gen <= net.gen,
         \A p \in Procs : pc'[p] = "ack" => view'[p].armed = None,
         \A p \in fresh' : pc'[p] \in {"preflight", "cas"}
                              => p \in fresh /\ pc[p] \in {"preflight", "cas"}
  PROVE  PauseInv'
  <1>1. \A p \in Procs : note'[p].gen <= net'.gen BY DEF PauseInv
  <1> QED BY <1>1 DEF PauseInv, Acknowledged

\* A committed write that empties fresh and late and leaves the slot and the pause
\* acknowledgement as they were.
LEMMA PauseRewrite ==
  ASSUME Inv, PauseInv, UNCHANGED net, fresh' = {}, late' = {},
         rec'.armed = rec.armed, rec'.control = rec.control,
         \A p \in Procs : note'[p].gen <= net.gen,
         \A p \in Procs : pc'[p] = "ack" => view'[p].armed = None
  PROVE  PauseInv'
  BY DEF PauseInv, Acknowledged

\* A committed write that empties the slot.
LEMMA PauseEmptied ==
  ASSUME Inv, PauseInv, UNCHANGED net, fresh' = {}, late' = {},
         rec'.armed = None, rec'.control = rec.control,
         \A p \in Procs : note'[p].gen <= net.gen,
         \A p \in Procs : pc'[p] = "ack" => view'[p].armed = None
  PROVE  PauseInv'
  BY DEF PauseInv, Acknowledged

\* What Return leaves of the other processes.
LEMMA ReturnNotes ==
  ASSUME Inv, PauseInv, NEW p \in Procs, Return(p)
  PROVE  /\ \A q \in Procs : note'[q].gen <= net.gen
         /\ \A q \in Procs : pc'[q] = "ack" => view'[q].armed = None
         /\ \A q \in Procs : pc'[q] # pc[q] => pc'[q] = "idle"
  <1>1. NoNote.gen = 0 BY DEF NoNote
  <1>2. \A q \in Procs : note'[q] = IF q = p THEN NoNote ELSE note[q]
    BY PauseTypes DEF Return
  <1>3. \A q \in Procs : note'[q].gen <= net.gen
    BY <1>1, <1>2, PauseTypes DEF PauseInv
  <1>4. \A q \in Procs : pc'[q] = IF q = p THEN "idle" ELSE pc[q]
    BY PauseTypes DEF Return
  <1>5. \A q \in Procs : q # p => view'[q] = view[q]
    BY PauseTypes DEF Return
  <1> QED BY <1>3, <1>4, <1>5 DEF PauseInv

\* Step up to its plan: what it learns of the generation is the current one, and it goes on to
\* acknowledge only with a copy whose slot is empty.
LEMMA ReadingPause ==
  ASSUME Inv, PauseInv, NEW p \in Procs,
         stop(p) \/ acknowledgePause(p) \/ observe(p)
  PROVE  PauseInv'
  <1>1. UNCHANGED <<net, rec, late>> /\ fresh' \subseteq fresh
    BY DEF stop, acknowledgePause, observe, ReturnUnwritten
  <1>2. \A q \in Procs : q # p => pc'[q] = pc[q] /\ note'[q] = note[q] /\ view'[q] = view[q]
    BY PauseTypes DEF stop, acknowledgePause, observe, ReturnUnwritten, Return, Goto
  <1>3. note'[p].gen = note[p].gen \/ note'[p].gen <= net.gen
    <2>1. [note[p] EXCEPT !.gen = net.gen].gen = net.gen
            /\ [note[p] EXCEPT !.height = height, !.actor = net.actor].gen = note[p].gen
      BY PauseTypes DEF Note
    <2>2. NoNote.gen = 0 BY DEF NoNote
    <2>3. CASE observe(p) BY <2>1, <2>3, PauseTypes DEF observe
    <2>4. CASE stop(p) \/ acknowledgePause(p)
      <3>1. \/ note' = note
            \/ note' = [note EXCEPT ![p] = [note[p] EXCEPT !.gen = net.gen]]
            \/ note' = [note EXCEPT ![p] = NoNote]
        BY <2>4 DEF stop, acknowledgePause, ReturnUnwritten, Return
      <3>2. note \in [Procs -> Note] /\ net.gen \in Nat
        BY PauseTypes
      <3>3. \/ note'[p] = note[p]
            \/ note'[p] = [note[p] EXCEPT !.gen = net.gen]
            \/ note'[p] = NoNote
        BY <3>1, <3>2
      <3>4. note'[p].gen = note[p].gen \/ note'[p].gen = net.gen \/ note'[p].gen = 0
        BY <3>3, <2>1, <2>2, Zenon
      <3>5. net.gen <= net.gen /\ 0 <= net.gen
        BY <3>2
      <3> QED BY <3>4, <3>5
    <2> QED BY <2>3, <2>4
  <1>4. pc'[p] \notin {"preflight", "cas"} /\ (pc'[p] = "ack" => view'[p].armed = None)
    BY PauseTypes DEF stop, acknowledgePause, observe, ReturnUnwritten, Return, Goto
  <1>5. \A q \in Procs : note'[q].gen = note[q].gen \/ note'[q].gen <= net.gen
    BY <1>2, <1>3
  <1>6. \A q \in Procs : pc'[q] = "ack" => view'[q].armed = None
    BY <1>2, <1>4 DEF PauseInv
  <1>7. \A q \in fresh' : pc'[q] \in {"preflight", "cas"}
                             => q \in fresh /\ pc[q] \in {"preflight", "cas"}
    BY <1>1, <1>2, <1>4, PauseTypes
  <1> QED BY <1>1, <1>5, <1>6, <1>7, PauseFrame

\* Steps that move a process without writing anything.
LEMMA MovingPause ==
  ASSUME Inv, PauseInv, NEW p \in Procs,
         \/ Start(p) \/ Crash(p) \/ Terminate(p) \/ Exit(p) \/ ReadRecord(p) \/ Refuse(p)
         \/ Reserve(p) \/ Preflight(p) \/ Confirm(p) \/ RefuseConfirm(p) \/ DrainTimeout(p)
  PROVE  PauseInv'
  <1>1. UNCHANGED <<net, rec, late>>
    BY DEF Start, Crash, Terminate, Exit, ReadRecord, Refuse, Reserve, Preflight, Confirm,
           RefuseConfirm, DrainTimeout, ReturnUnwritten
  <1>2. NoNote.gen = 0 BY DEF NoNote
  <1>3. \A q \in Procs : note'[q].gen = note[q].gen \/ note'[q].gen <= net.gen
    BY <1>2, PauseTypes
       DEF Start, Crash, Terminate, Exit, ReadRecord, Refuse, Reserve, Preflight, Confirm,
           RefuseConfirm, DrainTimeout, ReturnUnwritten, Return
  <1>4. \A q \in Procs : q # p => pc'[q] = pc[q] /\ view'[q] = view[q]
    BY PauseTypes
       DEF Start, Crash, Terminate, Exit, ReadRecord, Refuse, Reserve, Preflight, Confirm,
           RefuseConfirm, DrainTimeout, ReturnUnwritten, Return, Goto
  <1>5. \/ pc'[p] \notin {"ack", "preflight", "cas"}
        \/ pc'[p] = pc[p] /\ view'[p] = view[p] /\ fresh' = fresh
        \/ pc'[p] = "cas" /\ pc[p] = "preflight" /\ fresh' = fresh
    BY PauseTypes
       DEF Start, Crash, Terminate, Exit, ReadRecord, Refuse, Reserve, Preflight, Confirm,
           RefuseConfirm, DrainTimeout, ReturnUnwritten, Return, Goto
  <1>6. \A q \in Procs : q # p => (q \in fresh' <=> q \in fresh)
    BY DEF Start, Crash, Terminate, Exit, ReadRecord, Refuse, Reserve, Preflight, Confirm,
           RefuseConfirm, DrainTimeout, ReturnUnwritten
  <1>7. fresh' \subseteq Procs
    BY PauseTypes
       DEF Start, Crash, Terminate, Exit, ReadRecord, Refuse, Reserve, Preflight, Confirm,
           RefuseConfirm, DrainTimeout, ReturnUnwritten
  <1>8. \A q \in Procs : pc'[q] = "ack" => view'[q].armed = None
    BY <1>4, <1>5 DEF PauseInv
  <1>9. \A q \in fresh' : pc'[q] \in {"preflight", "cas"}
                             => q \in fresh /\ pc[q] \in {"preflight", "cas"}
    BY <1>4, <1>5, <1>6, <1>7
  <1> QED BY <1>1, <1>3, <1>8, <1>9, PauseFrame

\* Authority is only confirmed on a network that is not paused.
LEMMA AuthorizePause ==
  ASSUME Inv, PauseInv, NEW p \in Procs, AuthorizeArm(p) PROVE PauseInv'
  <1>1. /\ UNCHANGED <<net, rec, late, fresh, view, note>> /\ ~net.paused
        /\ \E l \in {"cas", "preflight"} : pc' = [pc EXCEPT ![p] = l]
    BY DEF AuthorizeArm, Authorized, authorize, Goto
  <1>2. \A q \in Procs : pc'[q] = "ack" => pc[q] = "ack"
    BY <1>1, PauseTypes
  <1> QED BY <1>1, <1>2 DEF PauseInv, Acknowledged

\* The acknowledgement is written over the very record whose slot was found empty, and takes
\* the version from every copy with which an arm could still be written.
LEMMA WriteAcknowledgementPause ==
  ASSUME Inv, PauseInv, NEW p \in Procs, NEW acked \in BOOLEAN, WriteAcknowledgement(p, acked)
  PROVE  PauseInv'
  <1> DEFINE c == [nonce |-> p, gen |-> note[p].gen]
  <1>1. /\ pc[p] = "ack" /\ p \in fresh /\ rec' = [view[p] EXCEPT !.control = c] /\ late' = {}
        /\ UNCHANGED net
    BY DEF WriteAcknowledgement
  <1>2. view[p] = rec /\ rec.armed = None
    BY <1>1 DEF Inv, SlotProtocol, CopyInv, PauseInv
  <1>3. rec'.armed = None /\ rec'.control = c
    BY <1>1, <1>2 DEF Inv, TypeOK, Record
  <1>4. rec'.control.gen <= net'.gen
    BY <1>1, <1>3 DEF PauseInv
  <1>5. fresh' \subseteq {p} /\ pc'[p] \notin {"ack", "preflight", "cas"}
    BY PauseTypes DEF WriteAcknowledgement, Goto, Return
  <1>6. \A q \in Procs : q # p => pc'[q] = pc[q] /\ view'[q] = view[q]
    BY PauseTypes DEF WriteAcknowledgement, Goto, Return
  <1>7. \A q \in Procs : note'[q].gen <= net'.gen
    <2>1. CASE acked
      BY <1>1, <2>1 DEF WriteAcknowledgement, PauseInv
    <2>2. CASE ~acked
      BY <1>1, <2>2, ReturnNotes DEF WriteAcknowledgement
    <2> QED BY <2>1, <2>2
  <1>8. \A q \in Procs : pc'[q] = "ack" => view'[q].armed = None
    BY <1>5, <1>6 DEF PauseInv
  <1> QED BY <1>1, <1>3, <1>4, <1>5, <1>7, <1>8 DEF PauseInv

\* A heartbeat of the observation changes neither slot nor acknowledgement.
LEMMA PublishPause ==
  ASSUME Inv, PauseInv, NEW p \in Procs, NEW acked \in BOOLEAN, Publish(p, acked)
  PROVE  PauseInv'
  <1>1. p \in fresh => view[p] = rec
    BY DEF Inv, SlotProtocol, CopyInv
  <1>2. rec \in Record BY DEF Inv, TypeOK
  <1>3. /\ rec'.armed = rec.armed /\ rec'.control = rec.control /\ UNCHANGED net
        /\ late' \subseteq late /\ fresh' \subseteq fresh \ {p}
        /\ late' = late \/ fresh' = {}
    BY <1>1, <1>2 DEF Publish, Update, ReadModifyWrite, Record
  <1>4. pc'[p] \notin {"ack", "preflight", "cas"}
    BY PauseTypes DEF Publish, Goto, Return
  <1>5. \A q \in Procs : q # p => pc'[q] = pc[q] /\ view'[q] = view[q] /\ note'[q] = note[q]
    BY PauseTypes DEF Publish, Goto, Return
  <1>6. note'[p].gen = 0
    BY PauseTypes DEF Publish, Return, NoNote
  <1>7. \A q \in Procs : note'[q].gen <= net'.gen
    BY <1>3, <1>5, <1>6, PauseTypes DEF PauseInv
  <1>8. \A q \in Procs : pc'[q] = "ack" => view'[q].armed = None
    BY <1>4, <1>5 DEF PauseInv
  <1>9. \A q \in fresh' : q \in fresh /\ pc'[q] = pc[q]
    BY <1>3, <1>5, PauseTypes
  <1> QED BY <1>3, <1>7, <1>8, <1>9 DEF PauseInv, Acknowledged

\* No arm is written, or given up, with a pause acknowledged.
LEMMA ArmPause ==
  ASSUME Inv, PauseInv, NEW p \in Procs, WriteArmed(p) \/ LoseArmed(p) PROVE PauseInv'
  <1>1. pc[p] = "cas" /\ p \in fresh /\ UNCHANGED net
    BY DEF WriteArmed, LoseArmed, ArmCopy, Update
  <1>2. ~Acknowledged
    BY <1>1 DEF PauseInv
  <1>3. rec'.control = rec.control
    <2>1. view[p] = rec /\ rec \in Record
      BY <1>1, AboutToWrite DEF Inv, TypeOK
    <2> QED BY <2>1 DEF WriteArmed, LoseArmed, ArmCopy, Update, ReadModifyWrite, Record
  <1>4. \A q \in Procs : note'[q].gen <= net.gen
    <2>1. CASE WriteArmed(p) BY <2>1 DEF WriteArmed, PauseInv
    <2>2. CASE LoseArmed(p) BY <2>2, ReturnNotes DEF LoseArmed
    <2> QED BY <2>1, <2>2
  <1>5. \A q \in Procs : pc'[q] = "ack" => view'[q].armed = None
    <2>1. CASE WriteArmed(p) BY <2>1, PauseTypes DEF WriteArmed, PauseInv, Goto
    <2>2. CASE LoseArmed(p) BY <2>2, ReturnNotes DEF LoseArmed
    <2> QED BY <2>1, <2>2
  <1> QED BY <1>1, <1>2, <1>3, <1>4, <1>5 DEF PauseInv, Acknowledged

\* Neither does one land.
LEMMA LandPause == ASSUME Inv, PauseInv, NEW q \in late, LandArmed(q) PROVE PauseInv'
  <1>1. ~Acknowledged BY DEF PauseInv
  <1>2. rec'.control = rec.control /\ UNCHANGED <<net, note, pc, view>>
    BY DEF LandArmed, ReadModifyWrite, Inv, TypeOK, Record
  <1> QED BY <1>1, <1>2 DEF PauseInv, Acknowledged

\* Each edit of the root that changes whether it is paused raises its generation, and no edit
\* lowers it.
LEMMA RootGeneration ==
  ASSUME Inv, Root
  PROVE  net'.gen = net.gen + 1 \/ (net'.gen = net.gen /\ (net'.paused <=> net.paused))
  <1> DEFINE Kept == net'.gen = net.gen /\ (net'.paused <=> net.paused)
  <1>1. net \in [paused : BOOLEAN, closing : (Reasons \ {"ParticipantRemoved"}) \cup {""},
                 gen : Nat, selected : BOOLEAN, removing : BOOLEAN, terminated : Nat,
                 actor : Nat]
    BY DEF Inv, TypeOK
  <1>2. CASE Pause
    <2>1. net'.gen = net.gen + 1 BY <1>1, <1>2 DEF Pause, ChangeRoot
    <2> QED BY <2>1
  <1>3. CASE SelectParticipant
    <2>1. net'.gen = net.gen + 1 BY <1>1, <1>3 DEF SelectParticipant, ChangeRoot
    <2> QED BY <2>1
  <1>4. CASE LatchRemoval BY <1>1, <1>4 DEF LatchRemoval, ChangeRoot
  <1>5. CASE ConfirmTermination BY <1>1, <1>5 DEF ConfirmTermination, ChangeRoot
  <1>6. CASE RestartActor BY <1>1, <1>6 DEF RestartActor, ChangeRoot
  <1>7. ASSUME NEW reason \in Reasons, Close(reason) PROVE net'.gen = net.gen + 1 \/ Kept
    <2> DEFINE b == net.paused /\ reason # "NetworkStopped"
               g == IF reason = "NetworkFailed" THEN net.gen ELSE net.gen + 1
    <2>1. net' = [net EXCEPT !.closing = reason, !.paused = b, !.gen = g]
      BY <1>7 DEF Close, ChangeRoot
    <2>2. g = net.gen + 1 \/ (g = net.gen /\ (b <=> net.paused)) OBVIOUS
    <2> HIDE DEF b, g
    <2>3. net'.gen = g /\ net'.paused = b BY <1>1, <2>1
    <2> QED BY <2>2, <2>3
  <1> QED BY <1>2, <1>3, <1>4, <1>5, <1>6, <1>7 DEF Root

\* A new generation is not the acknowledged one.
LEMMA RootPause == ASSUME Inv, PauseInv, Root PROVE PauseInv'
  <1>1. UNCHANGED <<rec, fresh, late, pc, view, note>>
    BY DEF Root, Pause, SelectParticipant, LatchRemoval, ConfirmTermination, RestartActor,
           Close, ChangeRoot
  <1>3. net'.gen = net.gen + 1 \/ (net'.gen = net.gen /\ (net'.paused <=> net.paused))
    BY RootGeneration
  <1>4. CASE net'.gen = net.gen + 1
    <2>1. \A n \in Nat : n <= net.gen => n <= net'.gen /\ n # net'.gen
      BY <1>4, PauseTypes
    <2>2. ~Acknowledged'
      BY <1>1, <2>1, PauseTypes DEF PauseInv, Acknowledged
    <2> QED BY <1>1, <2>1, <2>2, PauseTypes DEF PauseInv
  <1>5. CASE net'.gen = net.gen /\ (net'.paused <=> net.paused)
    BY <1>1, <1>5 DEF PauseInv, Acknowledged
  <1> QED BY <1>3, <1>4, <1>5

\* Every step preserves what an acknowledged pause means.
LEMMA NextPause == ASSUME Inv, PauseInv, [Next]_vars PROVE PauseInv'
  <1>0. rec \in Record BY DEF Inv, TypeOK
  <1>1. CASE UNCHANGED vars
    BY <1>1 DEF vars, PauseInv, Acknowledged
  <1>2. ASSUME NEW p \in Procs, AcknowledgeDrain(p) PROVE PauseInv'
    <2>1. /\ rec'.armed = rec.armed /\ rec'.control = rec.control /\ fresh' = {} /\ late' = {}
          /\ UNCHANGED net /\ Return(p)
      BY <1>0, <1>2 DEF AcknowledgeDrain, ReadModifyWrite, Record
    <2> QED BY <2>1, ReturnNotes, PauseRewrite
  <1>3. ASSUME NEW p \in Procs, withdraw(p) PROVE PauseInv'
    <2>1. /\ rec'.armed = None /\ rec'.control = rec.control /\ fresh' = {} /\ late' = {}
          /\ UNCHANGED net /\ Return(p)
      BY <1>0, <1>3 DEF withdraw, ReadModifyWrite, Record
    <2> QED BY <2>1, ReturnNotes, PauseEmptied
  <1>4. ASSUME NEW p \in Procs, Step(p) PROVE PauseInv'
    BY <1>2, <1>3, <1>4, ReadingPause, MovingPause, AuthorizePause, WriteAcknowledgementPause,
       PublishPause, ArmPause DEF Step
  <1>5. ASSUME NEW p \in Procs, collect(p) PROVE PauseInv'
    <2>1. CASE Send(p) \/ LoseResponse(p) \/ Receive(p) \/ AlreadyAccounted(p)
                 \/ AbandonReceipt(p)
      <3>1. UNCHANGED <<net, rec, late, fresh, pc, view, note>>
        BY <2>1 DEF Send, LoseResponse, Receive, AlreadyAccounted, AbandonReceipt
      <3> QED BY <3>1 DEF PauseInv, Acknowledged
    <2>2. ASSUME NEW acked \in BOOLEAN, account(p, acked) PROVE PauseInv'
      <3>1. /\ rec.armed = req[p] /\ rec' = Accounted(rec, req[p]) /\ fresh' = {} /\ late' = {}
            /\ UNCHANGED <<net, pc, view, note>> /\ col[p] = "receipt"
        BY <2>2 DEF account, ReadModifyWrite
      <3>2. req[p] \in Request
        BY <3>1 DEF Inv, TypeOK, SlotProtocol, SlotInv
      <3>3. rec'.armed = None
        BY <1>0, <3>1, <3>2, AccountedFields
      <3>4. rec'.control = rec.control
        BY <1>0, <3>1 DEF Accounted, Record
      <3>5. \A q \in Procs : note'[q].gen <= net.gen
        BY <3>1 DEF PauseInv
      <3>6. \A q \in Procs : pc'[q] = "ack" => view'[q].armed = None
        BY <3>1 DEF PauseInv
      <3> QED BY <3>1, <3>3, <3>4, <3>5, <3>6, PauseEmptied
    <2> QED BY <1>5, <2>1, <2>2 DEF collect
  <1>6. ASSUME NEW p \in Procs, Process(p) PROVE PauseInv'
    BY <1>4, <1>5, <1>6, MovingPause DEF Process
  <1>7. ASSUME Core PROVE PauseInv'
    <2>1. UNCHANGED <<net, rec, late, fresh, pc, view, note>>
      BY <1>7 DEF Core, ExternalBlock, Execute
    <2> QED BY <2>1 DEF PauseInv, Acknowledged
  <1>8. ASSUME Scheduler PROVE PauseInv'
    <2>1. CASE UNCHANGED <<net, rec, late, fresh, pc, view, note>>
      BY <2>1 DEF PauseInv, Acknowledged
    <2>2. CASE AssignOffer
      <3>1. /\ rec'.armed = rec.armed /\ rec'.control = rec.control /\ fresh' = {} /\ late' = {}
            /\ UNCHANGED <<net, pc, view, note>>
        BY <1>0, <2>2 DEF AssignOffer, ReadModifyWrite, Record
      <3> QED BY <3>1 DEF PauseInv, Acknowledged
    <2> QED BY <1>8, <2>1, <2>2 DEF Scheduler, SelectOffer, accountBootstrapReceipt
  <1> QED BY <1>1, <1>6, <1>7, <1>8, LandPause, RootPause DEF Next

\* Once a pause is acknowledged for the current generation, nothing is armed and no collector
\* of any process may still send (worker.go, acknowledgePause).
THEOREM PauseTheorem == Spec => []PauseAcknowledgedIsQuiet
  <1>1. Init => PauseInv
    <2>1. SUFFICES ASSUME Init PROVE PauseInv
      OBVIOUS
    <2>2. rec.control = None /\ fresh = {} /\ net.gen = 1
      BY <2>1 DEF Init
    <2>3. \A p \in Procs : note[p].gen = 0 /\ pc[p] = "off"
      BY <2>1 DEF Init, NoNote
    <2> QED BY <2>2, <2>3 DEF PauseInv, Acknowledged
  <1>2. Inv /\ PauseInv /\ [Next]_vars => PauseInv'
    BY NextPause
  <1>3. Inv /\ PauseInv => PauseAcknowledgedIsQuiet
    BY EmptySlot DEF PauseInv, Acknowledged, PauseAcknowledgedIsQuiet
  <1> QED BY Invariance, <1>1, <1>2, <1>3, PTL DEF Spec

\* Generations of the root count from one.
GenerationInv == net.gen # 0

\* An actor is released on a Drained acknowledgement, or on a record that was never used, only
\* with no request under way and none that can still be sent (worker.go, CheckDrained).
THEOREM DrainTheorem == Spec => []DrainedIsQuiet
  <1>1. Init => GenerationInv
    <2>1. SUFFICES ASSUME Init PROVE GenerationInv
      OBVIOUS
    <2>2. net.gen = 1 BY <2>1 DEF Init
    <2> QED BY <2>2 DEF GenerationInv
  <1>2. Inv /\ GenerationInv /\ [Next]_vars => GenerationInv'
    <2>1. SUFFICES ASSUME Inv, GenerationInv, [Next]_vars PROVE GenerationInv'
      OBVIOUS
    <2>2. CASE Root
      <3>1. net'.gen = net.gen + 1 \/ net'.gen = net.gen
        BY <2>1, <2>2, RootGeneration
      <3>2. net.gen \in Nat BY <2>1, PauseTypes
      <3> QED BY <2>1, <3>1, <3>2 DEF GenerationInv
    <2>4. CASE UNCHANGED net
      BY <2>1, <2>4 DEF GenerationInv
    <2>5. ASSUME NEW p \in Procs, Step(p) PROVE UNCHANGED net
      BY <2>5 DEF Step, ReadRecord, Refuse, stop, DrainTimeout, AcknowledgeDrain,
                  acknowledgePause, WriteAcknowledgement, Publish, observe, Reserve,
                  AuthorizeArm, Preflight, WriteArmed, LoseArmed, Confirm, RefuseConfirm,
                  withdraw
    <2>6. ASSUME NEW p \in Procs, Process(p) PROVE UNCHANGED net
      BY <2>5, <2>6 DEF Process, Start, Crash, Terminate, Exit, collect, Send, LoseResponse,
                        Receive, account, AlreadyAccounted, AbandonReceipt
    <2>7. Core \/ Scheduler \/ (\E q \in late : LandArmed(q)) => UNCHANGED net
      BY DEF Core, ExternalBlock, Execute, Scheduler, SelectOffer, AssignOffer,
             accountBootstrapReceipt, LandArmed
    <2> QED BY <2>1, <2>2, <2>4, <2>6, <2>7 DEF Next, vars
  <1>3. Inv /\ GenerationInv => DrainedIsQuiet
    <2>1. SUFFICES ASSUME Inv, GenerationInv, CheckDrained, net.terminated = 0,
                          rec.drain # None => rec.drain.outcome = "Drained"
                   PROVE  /\ Outstanding = {}
                          /\ \A p \in Procs : col[p] \notin {"send", "wait"}
      BY DEF DrainedIsQuiet
    <2>2. rec.armed = None
      BY <2>1 DEF CheckDrained, terminalDrainAcknowledged, GenerationInv
    <2> QED BY <2>1, <2>2, EmptySlot
  <1> QED BY Invariance, <1>1, <1>2, <1>3, PTL DEF Spec

=============================================================================

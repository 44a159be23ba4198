----------------------------- MODULE Foundation -----------------------------
(***************************************************************************)
(* The topology pass of the network operator                               *)
(* (operators/network/internal/foundation): participants are allocated     *)
(* under a ledger of identities, their policies composed from definitions, *)
(* admitted, and frozen once in a genesis whose gates hold the captured    *)
(* policies until they complete.                                           *)
(*                                                                         *)
(* One worker runs the passes, and only when the queue holds the network:  *)
(* watches.go decides which change of which object puts it there.  A pass    *)
(* reads the root, the participants and the genesis from the API server,   *)
(* the definitions from an informer until the capture.  Every root write   *)
(* carries the resourceVersion that was read.                              *)
(*                                                                         *)
(* A policy is a number: 1 as first declared, 2 with a mutable field       *)
(* changed, 3 with one that a frozen gate depends on, 4 with a protected   *)
(* binding changed, 5 one that does not validate; 0 is no definition.  The *)
(* copy of the candidate in the instance's spec is left out: consumers     *)
(* read the admission.                                                     *)
(***************************************************************************)
EXTENDS Naturals, FiniteSets

CONSTANTS Names,     \* participant names, in the order a pass visits them
          Requires,  \* the participants each one depends on
          Last,      \* the gate that releases each captured policy
          NGates,    \* number of frozen gates
          MaxUid,    \* instances ever created
          Edits,     \* what a definition may be edited to
          Budgets    \* what may happen: one of these in each behaviour

Kinds == {"Define", "Remove", "Add", "Pause", "Stop", "Control", "Delete", "Lose", "Crash", "Gate"}

VARIABLES
    root,    \* the StacksNetwork
    part,    \* the participants
    genesis, \* the StacksGenesis
    defs,    \* the definitions
    cdefs,   \* the informer's copies of them
    events,  \* changes whose notification is still to be delivered
    queue,   \* the topology key is queued
    pass,    \* the pass: program counter, the root it read, what it found
    uid,     \* the last UID given
    hist,    \* history: losses by hand, removals before a publication, definitions since the pass began
    budget

\* What the model's constants are.
Bounds ==
    /\ Names \subseteq Nat /\ MaxUid \in Nat /\ Edits \subseteq 0 .. 5 /\ Last \in [Names -> Nat]
    /\ Budgets \subseteq [Kinds -> Nat]

vars == <<root, part, genesis, defs, cdefs, events, queue, pass, uid, hist, budget>>

-----------------------------------------------------------------------------
(* State *)

Policies == 0 .. 5
Objects == {"root", "part", "genesis", "def"}

\* ids: the ledger; index: gates completed; hold: the entries' controls
Root == [gen : Nat, entries : SUBSET Names, hold : SUBSET Names, op : {"Running", "Paused", "Stopped"},
         final : BOOLEAN, deleting : BOOLEAN, ids : [Names -> [uid : Nat, removing : BOOLEAN]],
         ref : BOOLEAN, index : Nat, failed : BOOLEAN]

Part == [uid : Nat, deleting : BOOLEAN, hold : BOOLEAN, adm : Policies, deferred : BOOLEAN]

NoPart == [uid |-> 0, deleting |-> FALSE, hold |-> FALSE, adm |-> 0, deferred |-> FALSE]

\* What a genesis captured: a policy and an instance of each participant
Genesis == [st : {"none", "live", "lost"}, pol : [Names -> Policies], of : [Names -> Nat]]

None == [n \in Names |-> 0]

\* todo: the names still to visit; cand: composed policies; inst: instances as read
Idle == [pc |-> "idle", root |-> <<>>, todo |-> {}, cand |-> None, inst |-> [n \in Names |-> NoPart],
         issue |-> FALSE]

PassState ==
    [pc : {"idle", "begin", "genesis", "entries", "admit", "fresh", "recheck", "create", "publish"},
     root : {<<>>} \cup Root, todo : SUBSET Names, cand : [Names -> Policies],
     inst : [Names -> Part], issue : BOOLEAN]

\* The values every variable may take.
TypeOK ==
    /\ root \in Root /\ part \in [Names -> Part] /\ genesis \in Genesis
    /\ defs \in [Names -> Policies] /\ cdefs \in [Names -> Policies]
    /\ events \subseteq Objects /\ queue \in BOOLEAN /\ pass \in PassState
    /\ uid \in 0 .. MaxUid
    /\ hist \in [lost : BOOLEAN, removed : SUBSET Names, held : SUBSET (Names \X Policies)]
    /\ budget \in [Kinds -> Nat]

\* A network has been declared; nothing of it exists yet.
Init ==
    /\ root = [gen |-> 1, entries |-> Names, hold |-> {}, op |-> "Running", final |-> FALSE,
               deleting |-> FALSE, ids |-> [n \in Names |-> [uid |-> 0, removing |-> FALSE]],
               ref |-> FALSE, index |-> 0, failed |-> FALSE]
    /\ part = [n \in Names |-> NoPart]
    /\ genesis = [st |-> "none", pol |-> None, of |-> None]
    /\ defs = [n \in Names |-> 1] /\ cdefs = defs
    /\ events = {} /\ queue = TRUE /\ pass = Idle /\ uid = 0
    /\ hist = [lost |-> FALSE, removed |-> {}, held |-> {}]
    /\ budget \in Budgets

-----------------------------------------------------------------------------
(* Policies *)

\* sameProtectedConfiguration and sameIdentities.
sameProtected(a, b) == (a = 4) = (b = 4)

\* BootstrapPolicyCompatible: the fields the frozen gates depend on are as captured.
BootstrapPolicyCompatible(captured, v) == (captured = 3) = (v = 3)

required(g, n) == g.pol[n] # 0

\* Faulty variant: the policy is released by any gate.
pendingUntilFirst(r, n) == r.index = 0

\* bootstrapPolicyPending: the last gate that depends on n is unfinished.
bootstrapPolicyPending(r, n) == r.index < Last[n]

\* Entries that do not compose or validate, and those that depend on one; an entry may only
\* depend on a selected participant.
unsound(r, cand) == {n \in Names : cand[n] \in {0, 5} \/ ~(Requires[n] \subseteq r.entries)}

invalid(r, cand) ==
    LET S == unsound(r, cand)
        Grown(T) == T \cup {n \in Names : Requires[n] \cap T # {}}
    IN  Grown(Grown(S))   \* a chain of dependencies has at most three names

-----------------------------------------------------------------------------
(* A pass *)

Least(S) == CHOOSE n \in S : \A m \in S : n <= m

others == <<defs, cdefs, uid, budget>>

End(again) == pass' = Idle /\ queue' = (queue \/ again) /\ hist' = [hist EXCEPT !.held = {}]

\* A change of an object and the notification it will cause: every change the model makes
\* passes the filter of admissionEvents.
Notify(o) == events' = events \cup {o}

\* A root write, refused when the root is not the one that was read; then the pass is retried.
WriteRoot(r, again) ==
    /\ root' = IF root = pass.root THEN r ELSE root
    /\ events' = IF root = pass.root /\ r # root THEN events \cup {"root"} ELSE events
    /\ End(again \/ root # pass.root)
    /\ UNCHANGED <<part, genesis>>

\* report with the phase Failed: the network has to be recreated.
Fail == WriteRoot([pass.root EXCEPT !.failed = TRUE], FALSE)

Go(p) == pass' = p /\ UNCHANGED <<root, part, genesis, events, queue, hist>>

\* The pass ends without having written anything.
Return(again) == End(again) /\ UNCHANGED <<root, part, genesis, events>>

\* The worker takes the key and reads the root.
Take ==
    /\ pass.pc = "idle" /\ queue /\ (root.final \/ ~root.deleting)
    /\ pass' = [Idle EXCEPT !.pc = "begin", !.root = root]
    /\ queue' = FALSE
    /\ hist' = [hist EXCEPT !.held = {<<n, defs[n]>> : n \in Names}]
    /\ UNCHANGED <<root, part, genesis, events>> /\ UNCHANGED others

\* destroy: the participants first, the finalizer when the last has gone.
Destroy ==
    /\ pass.pc = "begin" /\ pass.root.deleting
    /\ IF \E n \in Names : part[n].uid # 0
       THEN /\ part' = [n \in Names |-> IF part[n].uid # 0 THEN [part[n] EXCEPT !.deleting = TRUE] ELSE NoPart]
            /\ Notify("part") /\ End(TRUE) /\ UNCHANGED <<root, genesis>>
       ELSE WriteRoot([pass.root EXCEPT !.final = FALSE], FALSE)
    /\ UNCHANGED others

AddFinalizer ==
    /\ pass.pc = "begin" /\ ~pass.root.deleting /\ ~pass.root.final
    /\ WriteRoot([pass.root EXCEPT !.final = TRUE], TRUE)
    /\ UNCHANGED others

withdrawn(r) == {n \in Names : r.ids[n].uid # 0 /\ n \notin r.entries /\ ~r.ids[n].removing}

Present == pass.pc = "begin" /\ ~pass.root.deleting /\ pass.root.final

\* A removal is on record before anything is destroyed.
RecordRemoval ==
    /\ Present /\ withdrawn(pass.root) # {}
    /\ WriteRoot([pass.root EXCEPT !.ids[Least(withdrawn(pass.root))].removing = TRUE], TRUE)
    /\ UNCHANGED others

\* deleteParticipant for every recorded removal; a failed network is left at that.  A removed
\* name that is declared again is an issue.
DeleteRemoved ==
    /\ Present /\ withdrawn(pass.root) = {}
    /\ LET gone == {n \in Names : pass.root.ids[n].removing /\ part[n].uid = pass.root.ids[n].uid}
       IN  /\ part' = [n \in Names |-> IF n \in gone THEN [part[n] EXCEPT !.deleting = TRUE] ELSE part[n]]
           /\ events' = IF part' = part THEN events ELSE events \cup {"part"}
    /\ IF pass.root.failed THEN End(FALSE)
       ELSE /\ pass' = [pass EXCEPT !.pc = "genesis",
                           !.issue = \E n \in pass.root.entries : pass.root.ids[n].removing]
            /\ UNCHANGED <<queue, hist>>
    /\ UNCHANGED <<root, genesis>> /\ UNCHANGED others

live(r) == {n \in r.entries : ~r.ids[n].removing}

Entries == [pass EXCEPT !.pc = IF live(pass.root) = {} THEN "admit" ELSE "entries", !.todo = live(pass.root)]

\* A capture that was never published is recovered if everything it captured is still there.
RecoverGenesis ==
    /\ pass.pc = "genesis" /\ ~pass.root.ref
    /\ IF genesis.st = "none"
       THEN IF pass.root.op = "Stopped" THEN Return(FALSE) ELSE Go(Entries)
       ELSE IF /\ genesis.st = "live"
               /\ \A n \in Names : genesis.pol[n] # 0 =>
                     part[n].uid = genesis.of[n] /\ part[n].adm = genesis.pol[n]
       THEN WriteRoot([pass.root EXCEPT !.ref = TRUE], TRUE)
       ELSE Fail
    /\ UNCHANGED others

\* The published genesis is still the one in the API server.
ReadGenesis ==
    /\ pass.pc = "genesis" /\ pass.root.ref
    /\ IF genesis.st # "live" THEN Fail
       ELSE IF pass.root.op = "Stopped" THEN Return(FALSE) ELSE Go(Entries)
    /\ UNCHANGED others

Current == Least(pass.todo)

\* The instance of the next entry: created, put on the ledger, controlled, composed.
Create ==
    /\ pass.pc = "entries" /\ part[Current].uid = 0
    /\ IF pass.root.ids[Current].uid # 0 THEN Fail /\ UNCHANGED uid
       ELSE /\ uid < MaxUid /\ uid' = uid + 1
            /\ part' = [part EXCEPT ![Current] = [NoPart EXCEPT !.uid = uid + 1]]
            /\ Notify("part") /\ End(TRUE) /\ UNCHANGED <<root, genesis>>
    /\ UNCHANGED <<defs, cdefs, budget>>

foreign(p, id) == p.deleting \/ (id.uid # 0 /\ id.uid # p.uid) \/ (id.uid = 0 /\ p.adm # 0)

RecordIdentity ==
    /\ pass.pc = "entries" /\ part[Current].uid # 0
    /\ foreign(part[Current], pass.root.ids[Current]) \/ pass.root.ids[Current].uid = 0
    /\ IF foreign(part[Current], pass.root.ids[Current]) THEN Fail
       ELSE WriteRoot([pass.root EXCEPT !.ids[Current].uid = part[Current].uid], TRUE)
    /\ UNCHANGED others

known(n) == part[n].uid # 0 /\ pass.root.ids[n].uid # 0 /\ ~foreign(part[n], pass.root.ids[n])

ProjectControl ==
    /\ pass.pc = "entries" /\ known(Current) /\ part[Current].hold # (Current \in pass.root.hold)
    /\ part' = [part EXCEPT ![Current].hold = ~@]
    /\ Notify("part") /\ End(TRUE)
    /\ UNCHANGED <<root, genesis>> /\ UNCHANGED others

Compose ==
    /\ pass.pc = "entries" /\ known(Current) /\ part[Current].hold = (Current \in pass.root.hold)
    /\ LET found == [pass EXCEPT !.todo = @ \ {Current}, !.cand[Current] = cdefs[Current],
                                 !.inst[Current] = part[Current]]
       IN  Go(IF found.todo = {} THEN [found EXCEPT !.pc = "admit", !.todo = live(pass.root)] ELSE found)
    /\ UNCHANGED others

\* The dependencies of an admission, read again: selected, on the ledger, admitted, defined.
available(r, n) ==
    /\ n \in r.entries /\ part[n].uid # 0 /\ ~part[n].deleting /\ part[n].uid = r.ids[n].uid
    /\ ~r.ids[n].removing /\ part[n].adm # 0 /\ defs[n] # 0

dependenciesValid(r, n) ==
    defs[n] # 0 /\ \A m \in Requires[n] : available(r, m) /\ \A k \in Requires[m] : available(r, k)

held(n) == required(genesis, n) /\ genesis.of[n] = pass.inst[n].uid /\ bootstrapPolicyPending(pass.root, n)

refused(n) ==
    \/ n \in invalid(pass.root, pass.cand)
    \/ pass.inst[n].adm # 0 /\ ~sameProtected(pass.inst[n].adm, pass.cand[n])

\* The captured policy of an unfinished gate is not there any more.
capturedMissing(n) ==
    /\ ~refused(n) /\ pass.root.ref /\ held(n)
    /\ pass.inst[n].adm = 0 \/ ~BootstrapPolicyCompatible(genesis.pol[n], pass.inst[n].adm)

deferral(n) == pass.root.ref /\ held(n) /\ ~BootstrapPolicyCompatible(genesis.pol[n], pass.cand[n])

admitted(n) == [pass.inst[n] EXCEPT !.adm = IF deferral(n) THEN @ ELSE pass.cand[n], !.deferred = deferral(n)]

Admitting == pass.pc = "admit" /\ pass.todo # {}

\* An entry that cannot be admitted keeps its admission, which is deferred no longer; the
\* others go on.  A change of the instance since it was read ends the pass.
Refuse ==
    /\ Admitting
    /\ refused(Current) \/ (~capturedMissing(Current) /\ ~dependenciesValid(pass.root, Current))
    /\ LET told == [pass.inst[Current] EXCEPT !.deferred = FALSE]
           done == [pass EXCEPT !.issue = TRUE, !.todo = @ \ {Current}, !.inst[Current] = told]
       IN  IF told = pass.inst[Current] THEN Go(done)
           ELSE IF part[Current] # pass.inst[Current] THEN Return(TRUE)
           ELSE /\ part' = [part EXCEPT ![Current] = told] /\ pass' = done
                /\ Notify("part") /\ UNCHANGED <<root, genesis, queue, hist>>
    /\ UNCHANGED others

\* The admission is applied to the instance that was read; a change of it ends the pass.
Admit ==
    /\ Admitting /\ ~refused(Current)
    /\ ~capturedMissing(Current) => dependenciesValid(pass.root, Current)
    /\ IF capturedMissing(Current) THEN Fail
       ELSE IF admitted(Current) = pass.inst[Current] THEN Go([pass EXCEPT !.todo = @ \ {Current}])
       ELSE /\ part' = IF part[Current] = pass.inst[Current]
                       THEN [part EXCEPT ![Current] = admitted(Current)] ELSE part
            /\ events' = IF part' = part THEN events ELSE events \cup {"part"}
            /\ End(TRUE) /\ UNCHANGED <<root, genesis>>
    /\ UNCHANGED others

\* Unresolved inputs are retried, a captured network rests, a paused one is not captured.
Resolve ==
    /\ pass.pc = "admit" /\ pass.todo = {}
    /\ IF pass.issue \/ (~pass.root.ref /\ pass.root.entries = {}) THEN Return(TRUE)
       ELSE IF pass.root.ref \/ pass.root.op = "Paused" THEN Return(FALSE)
       ELSE Go([pass EXCEPT !.pc = "fresh", !.todo = live(pass.root)])
    /\ UNCHANGED others

\* Faulty variant: what was composed from the informer is frozen.
FreshFromCache ==
    /\ pass.pc = "fresh"
    /\ Go([pass EXCEPT !.pc = "recheck", !.todo = {}])
    /\ UNCHANGED others

\* Before the capture every entry is resolved again on uncached reads.
Fresh ==
    /\ pass.pc = "fresh"
    /\ LET p == part[Current]
       IN  IF p.uid # pass.inst[Current].uid \/ p.deleting \/ p.adm # pass.cand[Current]
              \/ defs[Current] # pass.cand[Current]
           THEN Return(TRUE)
           ELSE Go([pass EXCEPT !.todo = @ \ {Current},
                                !.pc = IF pass.todo = {Current} THEN "recheck" ELSE @])
    /\ UNCHANGED others

\* Dependencies and the root's revision, immediately before the one-way step.
Recheck ==
    /\ pass.pc = "recheck"
    /\ IF root # pass.root \/ \E n \in live(pass.root) : ~dependenciesValid(pass.root, n) THEN Return(TRUE)
       ELSE Go([pass EXCEPT !.pc = "create"])
    /\ UNCHANGED others

captured == [st |-> "live", pol |-> [n \in Names |-> IF n \in live(pass.root) THEN pass.cand[n] ELSE 0],
             of |-> [n \in Names |-> IF n \in live(pass.root) THEN pass.inst[n].uid ELSE 0]]

\* The capture; one that is already there has to be the same.
Capture ==
    /\ pass.pc = "create"
    /\ IF genesis.st = "none"
       THEN /\ genesis' = captured /\ Notify("genesis")
            /\ pass' = [pass EXCEPT !.pc = "publish"] /\ UNCHANGED <<root, part, queue, hist>>
       ELSE IF genesis = captured THEN Go([pass EXCEPT !.pc = "publish"]) ELSE Fail
    /\ UNCHANGED others

Publish ==
    /\ pass.pc = "publish"
    /\ WriteRoot([pass.root EXCEPT !.ref = TRUE], FALSE)
    /\ UNCHANGED others

\* An error in the middle of a pass: retried.
Abort ==
    /\ pass.pc # "idle"
    /\ Return(TRUE) /\ UNCHANGED others

\* The operator restarts: its queue starts with every network, its caches with a list.
Crash ==
    /\ budget["Crash"] > 0 /\ budget' = [budget EXCEPT !["Crash"] = @ - 1]
    /\ pass' = Idle /\ queue' = TRUE /\ cdefs' = defs /\ events' = {}
    /\ hist' = [hist EXCEPT !.held = {}]
    /\ UNCHANGED <<root, part, genesis, defs, uid>>

Pass == \/ Take \/ Destroy \/ AddFinalizer \/ RecordRemoval \/ DeleteRemoved \/ RecoverGenesis
        \/ ReadGenesis \/ Create \/ RecordIdentity \/ ProjectControl \/ Compose
        \/ Refuse \/ Admit \/ Resolve \/ Fresh \/ Recheck \/ Capture \/ Publish \/ Abort \/ Crash

-----------------------------------------------------------------------------
(* Everyone else *)

Spend(k) == budget[k] > 0 /\ budget' = [budget EXCEPT ![k] = @ - 1]

Edit(r) ==
    /\ root' = [r EXCEPT !.gen = @ + 1] /\ Notify("root")
    /\ UNCHANGED <<part, genesis, defs, cdefs, queue, pass, uid>>

\* A capture is decided, and the root does not refer to it yet.
unpublished == pass.pc \in {"create", "publish"} \/ (genesis.st = "live" /\ ~root.ref)

\* Users edit the network.
EditRoot ==
    \/ /\ Spend("Pause") /\ root.op # "Stopped" /\ UNCHANGED hist
       /\ Edit([root EXCEPT !.op = IF @ = "Running" THEN "Paused" ELSE "Running"])
    \/ /\ Spend("Stop") /\ root.op # "Stopped" /\ UNCHANGED hist
       /\ Edit([root EXCEPT !.op = "Stopped"])
    \/ /\ Spend("Control") /\ UNCHANGED hist
       /\ \E n \in root.entries : Edit([root EXCEPT !.hold = (@ \ {n}) \cup ({n} \ @)])
    \/ /\ Spend("Remove")
       /\ \E n \in root.entries :
             /\ Edit([root EXCEPT !.entries = @ \ {n}, !.hold = @ \ {n}])
             /\ hist' = IF unpublished THEN [hist EXCEPT !.removed = @ \cup {n}] ELSE hist
    \/ /\ Spend("Add") /\ UNCHANGED hist
       /\ \E n \in Names \ root.entries : Edit([root EXCEPT !.entries = @ \cup {n}])
    \/ /\ Spend("Delete") /\ ~root.deleting /\ root.final /\ UNCHANGED hist
       /\ Edit([root EXCEPT !.deleting = TRUE])

\* A definition is edited, removed, or declared again.
Define ==
    /\ Spend("Define")
    /\ \E n \in Names, v \in Edits :
          /\ v # defs[n] /\ defs' = [defs EXCEPT ![n] = v]
          /\ hist' = IF pass.pc = "idle" THEN hist ELSE [hist EXCEPT !.held = @ \cup {<<n, v>>}]
    /\ Notify("def")
    /\ UNCHANGED <<root, part, genesis, cdefs, queue, pass, uid>>

\* A recorded participant or the genesis is deleted by hand.
Lose ==
    /\ Spend("Lose")
    /\ \/ /\ \E n \in Names : part[n].uid # 0 /\ ~part[n].deleting /\ part' = [part EXCEPT ![n].deleting = TRUE]
          /\ Notify("part") /\ UNCHANGED genesis
       \/ /\ genesis.st = "live" /\ genesis' = [genesis EXCEPT !.st = "lost"]
          /\ Notify("genesis") /\ UNCHANGED part
    /\ hist' = [hist EXCEPT !.lost = TRUE]
    /\ UNCHANGED <<root, defs, cdefs, queue, pass, uid>>

\* The controllers of a participant release it.
Vanish ==
    /\ \E n \in Names : part[n].deleting /\ part' = [part EXCEPT ![n] = NoPart]
    /\ Notify("part")
    /\ UNCHANGED <<root, genesis, defs, cdefs, queue, pass, uid, hist, budget>>

\* Faulty variant: the progress of the gates is not an admission event.
CompleteGateSilently ==
    /\ pass.pc = "idle" /\ root.ref /\ ~root.failed /\ ~root.deleting /\ root.index < NGates /\ Spend("Gate")
    /\ root' = [root EXCEPT !.index = @ + 1]
    /\ UNCHANGED <<part, genesis, defs, cdefs, events, queue, pass, uid, hist>>

\* The runtime pass, of the same worker, completes a gate of the published genesis.
CompleteGate ==
    /\ pass.pc = "idle" /\ root.ref /\ ~root.failed /\ ~root.deleting /\ root.index < NGates /\ Spend("Gate")
    /\ root' = [root EXCEPT !.index = @ + 1] /\ Notify("root")
    /\ UNCHANGED <<part, genesis, defs, cdefs, queue, pass, uid, hist>>

\* A notification reaches the handler.  Of an input it is routed by an index over cached roots:
\* while that copy is behind, the notification may find no root.
Deliver ==
    /\ \E o \in events :
          /\ events' = events \ {o}
          /\ cdefs' = IF o = "def" THEN defs ELSE cdefs
          /\ queue' = (queue \/ o = "root" \/ "root" \notin events)
    /\ UNCHANGED <<root, part, genesis, defs, pass, uid, hist, budget>>

Others == EditRoot \/ Define \/ Lose \/ Vanish \/ CompleteGate \/ Deliver

Next == Pass \/ Others

Spec == Init /\ [][Next]_vars

-----------------------------------------------------------------------------
(* Properties *)

Rest == pass.pc = "idle" /\ ~queue /\ events = {} /\ root.final /\ ~root.deleting /\ ~root.failed

\* No wake-up is lost: when nothing is queued, running or on its way, every entry of a network
\* that is not stopped has its instance, its control and the admission its definition asks
\* for, or the captured one that an unfinished gate still needs; the network is captured
\* unless it is paused; and every recorded removal is under way (setupWatches,
\* admissionEvents, report).
RestIsConverged ==
    Rest /\ root.op # "Stopped" =>
        /\ root.ref \/ root.op = "Paused"
        /\ \A n \in root.entries :
              /\ part[n].uid = root.ids[n].uid /\ part[n].uid # 0
              /\ part[n].hold = (n \in root.hold)
              /\ \/ part[n].adm = defs[n] /\ ~part[n].deferred
                 \/ /\ part[n].deferred /\ root.index < Last[n] /\ required(genesis, n)
                    /\ ~BootstrapPolicyCompatible(genesis.pol[n], defs[n])
        /\ \A n \in Names \ root.entries : part[n].uid # 0 /\ part[n].uid = root.ids[n].uid => part[n].deleting

\* What is captured was true: at the capture every captured policy is the admitted one of the
\* captured instance, and was that participant's definition at some time during the pass,
\* however far the informer lagged (reconcileTopology).
CaptureDecision ==
    genesis'.st = "live" /\ genesis.st = "none" =>
        \A n \in Names : genesis'.pol[n] # 0 =>
            /\ part[n].uid \in {0, genesis'.of[n]}
            /\ part[n].uid # 0 => part[n].adm = genesis'.pol[n]
            /\ <<n, genesis'.pol[n]>> \in hist.held

CaptureTrue == [][CaptureDecision]_vars

\* A captured policy is kept: until the last gate that depends on it completes, the instance a
\* genesis captured is admitted under a policy compatible with the captured one, whatever
\* was edited, and whether or not a restart came between the capture and its publication
\* (RecoverGenesis, bootstrapPolicyPending).
CapturedKept ==
    \A n \in Names :
        required(genesis, n) /\ part[n].uid = genesis.of[n] /\ root.index < Last[n] =>
            BootstrapPolicyCompatible(genesis.pol[n], part[n].adm)

\* The network is failed only by the loss of something recorded, at the hand of somebody else,
\* or by one ordinary removal: that of a participant a genesis has captured, edited before the
\* root refers to that genesis.  The foundation carries it out itself (RecordRemoval,
\* DeleteRemoved), and the recovery of the capture then misses the participant (RecoverGenesis).
\* Restarts, lost answers and all other edits never fail it (report, Fail).
FailureJustified ==
    root.failed => hist.lost \/ (~root.ref /\ \E n \in hist.removed : required(genesis, n))
====

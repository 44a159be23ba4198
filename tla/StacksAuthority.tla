--------------------------- MODULE StacksAuthority ---------------------------
(***************************************************************************)
(* What allows a surviving Stacks baseline worker to submit: the reads of  *)
(* Runtime.fresh, the snapshot a pass is decided on, the cached authority  *)
(* that bridges an outage of the Kubernetes API (stacksworker/outage.go),  *)
(* the authorization that immediately precedes a send, the policy adopted  *)
(* by the role (stacksoperation/traffic.go, applied_inputs.go), and the    *)
(* read grants the domain controller maintains for it                      *)
(* (Reconciler.ensureSupport).                                             *)
(*                                                                         *)
(* The process is bound and acknowledged; StacksWorker models how it gets  *)
(* there and how it drains.  Every read may fail for the moment; a         *)
(* definite denial is an answer.                                           *)
(***************************************************************************)
EXTENDS Naturals, FiniteSets

CONSTANTS Policies, \* complete policies that may be admitted, 1..n
          MaxSent,  \* bound: submissions
          Budgets   \* what may happen: one of these in each behaviour

Kinds == {"Pause", "Policy", "Source", "Inputs", "Remove", "Outage", "Deny"}

None == 0

VARIABLES
    root,   \* the StacksNetwork as a send needs it: allowed, and its generation
    part,   \* the participant: removal, admitted policy, published execution report
    source, \* the admitted source definition still is what was admitted
    inputs, \* for each policy: its public dependencies still are what was admitted
    grants, \* policies whose dependencies the worker's Role lets it read
    sup,    \* the domain controller: the participant it computes the grants from
    rt,     \* Runtime: the fields that survive a pass
    role,   \* the role: policy applied, inputs cached, submission pending
    pass,   \* the pass: program counter, what it has read, its snapshot
    seen,   \* history: the last definite answer of each kind that was read
    sent,   \* history: submissions made
    budget  \* how often each kind of decision or fault may still happen

vars == <<root, part, source, inputs, grants, sup, rt, role, pass, seen, sent, budget>>

\* What the constants are.
Bounds == 1 \in Policies /\ None \notin Policies /\ MaxSent \in Nat /\ Budgets \subseteq [Kinds -> Nat]

-----------------------------------------------------------------------------
(* State *)

Report == [applied : Policies \cup {None}, open : 0..1]
NoReport == [applied |-> None, open |-> 0]

Control == [run : BOOLEAN, gen : Nat, del : BOOLEAN, policy : Policies \cup {None}]
NoControl == [run |-> FALSE, gen |-> 0, del |-> FALSE, policy |-> None]

\* why: what the reads serve: a pass, the authorization of a send, or its repetition on the cache;
\* kind: the snapshot; want: the view a send is bound to
IdlePass == [pc |-> "idle", why |-> "pass", kind |-> "none", paused |-> FALSE, now |-> NoControl,
             want |-> NoControl, adm |-> "ok", base |-> None, used |-> FALSE]

\* The fields of Runtime and of the role that survive a pass; a pass; what was read last.
Memory == [applied : Policies \cup {None}, held : BOOLEAN, blocked : BOOLEAN, last : Control,
           pend : Report]
Role == [applied : Policies \cup {None}, cached : Policies \cup {None}, open : 0..1]
Pass == [pc : {"idle", "part", "source", "fresh", "lost", "ready", "resolve", "offer", "prereq",
               "recheck", "again", "send", "report", "exit"},
         why : {"pass", "send", "again"}, kind : {"none", "live", "cached"}, paused : BOOLEAN, now : Control,
         want : Control, adm : {"ok", "transient", "denied"}, base : Policies \cup {None},
         used : BOOLEAN]
Seen == [run : BOOLEAN, del : BOOLEAN, source : BOOLEAN, inputs : [Policies -> BOOLEAN]]

\* The values every variable may take.
TypeOK ==
    /\ root \in [run : BOOLEAN, gen : Nat]
    /\ part \in [del : BOOLEAN, policy : Policies, exec : Report]
    /\ source \in BOOLEAN /\ inputs \in [Policies -> BOOLEAN]
    /\ grants \subseteq Policies /\ sup \subseteq Policies
    /\ rt \in Memory /\ role \in Role /\ pass \in Pass /\ seen \in Seen
    /\ sent \in 0..MaxSent /\ budget \in [Kinds -> Nat]

Init ==
    /\ root = [run |-> TRUE, gen |-> 1]
    /\ part = [del |-> FALSE, policy |-> 1, exec |-> NoReport]
    /\ source = TRUE /\ inputs = [q \in Policies |-> TRUE]
    /\ grants = {1} /\ sup = {}
    /\ rt = [applied |-> None, held |-> FALSE, blocked |-> FALSE, last |-> NoControl, pend |-> NoReport]
    /\ role = [applied |-> None, cached |-> None, open |-> 0]
    /\ pass = IdlePass
    /\ seen = [run |-> TRUE, del |-> FALSE, source |-> TRUE, inputs |-> inputs]
    /\ sent = 0
    /\ budget \in Budgets

-----------------------------------------------------------------------------
(* Users, dependencies and the admission controller *)

Spend(k) == budget[k] > 0 /\ budget' = [budget EXCEPT ![k] = @ - 1]

process == <<rt, role, pass, seen, sent>>

\* Pause and resumption, failure, or the record of a shutdown.
EditRoot ==
    /\ Spend("Pause")
    /\ root' = [run |-> ~root.run, gen |-> root.gen + 1]
    /\ UNCHANGED <<part, source, inputs, grants, sup, process>>

AdmitPolicy ==
    /\ Spend("Policy")
    /\ \E q \in Policies \ {part.policy} : part' = [part EXCEPT !.policy = q]
    /\ UNCHANGED <<root, source, inputs, grants, sup, process>>

RemoveParticipant ==
    /\ Spend("Remove") /\ part' = [part EXCEPT !.del = TRUE]
    /\ UNCHANGED <<root, source, inputs, grants, sup, process>>

EditDependencies ==
    /\ \/ Spend("Source") /\ source' = ~source /\ UNCHANGED inputs
       \/ /\ Spend("Inputs") /\ UNCHANGED source
          /\ \E q \in Policies : inputs' = [inputs EXCEPT ![q] = ~@]
    /\ UNCHANGED <<root, part, grants, sup, process>>

\* ensureSupport: the rules of the admitted policy, and the earlier ones while the
\* published report says that work under another policy may remain.
Rules(p, old) ==
    {p.policy} \cup IF p.exec.open > 0 \/ p.exec.applied # p.policy THEN old ELSE {}

ReadSupport ==
    /\ sup = {} /\ Rules(part, grants) # grants
    /\ sup' = Rules(part, grants)
    /\ UNCHANGED <<root, part, source, inputs, grants, process, budget>>

ensureSupport ==
    /\ sup # {}
    /\ grants' = sup /\ sup' = {}
    /\ UNCHANGED <<root, part, source, inputs, process, budget>>

-----------------------------------------------------------------------------
(* Runtime.fresh *)

cluster == <<root, part, source, inputs, grants, sup>>

\* A read fails for the moment, or is definitely refused.
Transient == Spend("Outage")
Denied == Spend("Deny")

controlAllows(c) == c.run /\ ~c.del

\* Faulty variant: a root that was read is only looked at when the whole pass succeeds.
observeRootLate(m, run) == m

\* observePartialRoot: what the root says counts even if a later read fails.
observePartialRoot(m, run) == IF run THEN m ELSE [m EXCEPT !.held = TRUE]

lose(m) == [m EXCEPT !.held = TRUE, !.blocked = TRUE]

\* A definite refusal ends a pass; a step whose submission it refuses is still reported.
stopped(p) == IF p.why = "pass" THEN IdlePass ELSE [p EXCEPT !.pc = "report"]

ReadRoot ==
    /\ pass.pc \in {"idle", "offer", "again"}
    /\ LET begun == IF pass.pc = "idle" THEN IdlePass
                    ELSE [pass EXCEPT !.why = IF pass.pc = "offer" THEN "send" ELSE "again"]
       IN  \/ /\ rt' = observePartialRoot(rt, root.run)
              /\ seen' = [seen EXCEPT !.run = root.run]
              /\ pass' = [begun EXCEPT !.pc = "part", !.now = [NoControl EXCEPT !.run = root.run,
                                                                            !.gen = root.gen]]
              /\ UNCHANGED budget
           \/ /\ Transient /\ pass' = [begun EXCEPT !.pc = "lost", !.now = NoControl]
              /\ UNCHANGED <<rt, seen>>
           \/ /\ Denied /\ rt' = lose(rt) /\ pass' = stopped(begun) /\ UNCHANGED seen
    /\ UNCHANGED <<cluster, role, sent>>

ReadParticipant ==
    /\ pass.pc = "part"
    /\ \/ /\ rt' = IF part.del THEN [rt EXCEPT !.held = TRUE] ELSE rt
          /\ seen' = [seen EXCEPT !.del = part.del]
          /\ pass' = [pass EXCEPT !.pc = "source", !.now = [@ EXCEPT !.del = part.del, !.policy = part.policy]]
          /\ UNCHANGED budget
       \/ /\ Transient /\ pass' = [pass EXCEPT !.pc = "lost", !.now = NoControl]
          /\ UNCHANGED <<rt, seen>>
       \/ /\ Denied /\ rt' = lose(rt) /\ pass' = stopped(pass) /\ UNCHANGED seen
    /\ UNCHANGED <<cluster, role, sent>>

\* ValidateAdmissionEligibility and the Pod; then the control that was read is remembered.
ReadSource ==
    /\ pass.pc = "source"
    /\ \E answer \in {"ok", "denied", "transient"} :
         /\ answer = "transient" => Transient
         /\ answer # "transient" => (answer = "ok") = source /\ UNCHANGED budget
         /\ seen' = IF answer = "transient" THEN seen ELSE [seen EXCEPT !.source = source]
         /\ rt' = [rt EXCEPT !.held = @ \/ answer = "denied" \/ ~controlAllows(pass.now),
                             !.last = pass.now, !.blocked = FALSE]
         /\ pass' = [pass EXCEPT !.pc = IF pass.why = "pass" THEN "fresh" ELSE "prereq",
                                 !.adm = answer]
    /\ UNCHANGED <<cluster, role, sent>>

-----------------------------------------------------------------------------
(* Cached authority *)

cachedSnapshot(digest) ==
    ~rt.blocked /\ rt.applied # None /\ rt.applied = digest /\ rt.last # NoControl

cachedPaused == ~controlAllows(rt.last) \/ rt.held

cacheEligible(digest) == cachedSnapshot(digest) /\ ~rt.held /\ controlAllows(rt.last)

onCache(p) == [p EXCEPT !.kind = "cached", !.paused = cachedPaused, !.want = rt.last]

-----------------------------------------------------------------------------
(* Runtime.Reconcile up to the role *)

nothing == UNCHANGED <<cluster, rt, role, seen, sent, budget>>

\* The pass goes on with the live snapshot, or without any when the role must not step.
UseFresh ==
    /\ pass.pc = "fresh"
    /\ pass' = IF pass.now.del THEN IdlePass
               ELSE [pass EXCEPT !.pc = "ready", !.kind = "live", !.paused = ~pass.now.run,
                                 !.want = pass.now, !.base = pass.now.policy]
    /\ nothing

\* The API is unavailable: the cached snapshot stands in for the live one, if there is one.
UseCached ==
    /\ pass.pc = "lost" /\ pass.why = "pass"
    /\ pass' = IF ~cachedSnapshot(rt.applied) THEN IdlePass
               ELSE [onCache(pass) EXCEPT !.pc = "ready", !.base = rt.applied]
    /\ nothing

\* The resourceVersion of a report is that of the participant the pass has read; a
\* conflict counts as definite.
current == part.policy = pass.want.policy /\ part.del = pass.want.del
Conflict == ~current /\ UNCHANGED budget

\* An unpublished report goes first; while it cannot be published only the cache serves.
RetryReport ==
    /\ pass.pc = "ready" /\ rt.pend # NoReport
    /\ \/ /\ current /\ part' = [part EXCEPT !.exec = rt.pend] /\ rt' = [rt EXCEPT !.pend = NoReport]
          /\ pass' = IdlePass /\ UNCHANGED budget
       \/ /\ Transient /\ UNCHANGED <<part, rt>>
          /\ pass' = IF cachedSnapshot(rt.pend.applied)
                     THEN [onCache(pass) EXCEPT !.pc = "resolve", !.used = TRUE] ELSE IdlePass
       \/ /\ Denied \/ Conflict
          /\ rt' = lose(rt) /\ pass' = IdlePass /\ UNCHANGED part
    /\ UNCHANGED <<root, source, inputs, grants, sup, role, seen, sent>>

BeginStep ==
    /\ pass.pc = "ready" /\ rt.pend = NoReport
    /\ pass' = [pass EXCEPT !.pc = "resolve", !.used = pass.kind = "cached"]
    /\ nothing

-----------------------------------------------------------------------------
(* TransferRole.Step *)

Stepped(p) == pass' = [p EXCEPT !.pc = "report"]

\* Pending work is observed even while paused.
Observe ==
    /\ pass.pc = "resolve" /\ role.open = 1
    /\ \E left \in 0..1 : role' = [role EXCEPT !.open = left]
    /\ Stepped(pass)
    /\ UNCHANGED <<cluster, rt, seen, sent, budget>>

StepPaused ==
    /\ pass.pc = "resolve" /\ role.open = 0 /\ pass.paused
    /\ Stepped(pass) /\ nothing

\* The dependencies of a policy, read under the grants of the worker's Role.
answers(q) == IF q \in grants /\ inputs[q] THEN "ok" ELSE "denied"

learn(q) == [seen EXCEPT !.inputs = [@ EXCEPT ![q] = answers(q) = "ok"]]

\* appliedInputs.resolve and remember with a live snapshot.
ResolveLive ==
    /\ pass.pc = "resolve" /\ role.open = 0 /\ ~pass.paused /\ pass.kind = "live"
    /\ LET q == pass.want.policy
       IN  \/ /\ answers(q) = "ok" /\ seen' = learn(q)
              /\ role' = [role EXCEPT !.applied = q, !.cached = q]
              /\ rt' = IF pass.adm # "ok" THEN rt
                       ELSE [rt EXCEPT !.applied = q, !.held = ~controlAllows(pass.want)]
              /\ pass' = [pass EXCEPT !.pc = "offer"] /\ UNCHANGED budget
           \/ /\ answers(q) = "denied" /\ seen' = learn(q)
              /\ role' = [role EXCEPT !.cached = None]
              /\ rt' = [rt EXCEPT !.held = TRUE]
              /\ Stepped(pass) /\ UNCHANGED budget
           \/ /\ Transient /\ UNCHANGED <<seen, rt, role>>
              /\ IF cachedSnapshot(role.applied) /\ role.cached = role.applied
                 THEN pass' = [onCache(pass) EXCEPT !.pc = "offer", !.used = TRUE]
                 ELSE Stepped([pass EXCEPT !.used = @ \/ cachedSnapshot(role.applied)])
    /\ UNCHANGED <<cluster, sent>>

ResolveCached ==
    /\ pass.pc = "resolve" /\ role.open = 0 /\ ~pass.paused /\ pass.kind = "cached"
    /\ IF role.cached # None /\ role.cached = role.applied /\ role.cached = rt.applied
       THEN pass' = [pass EXCEPT !.pc = "offer"] ELSE Stepped(pass)
    /\ nothing

\* The cadence, the chain or the account do not call for a transfer now.
NoOffer ==
    /\ pass.pc = "offer" /\ Stepped(pass) /\ nothing

\* The policy a submission carries out.
offered == IF pass.kind = "cached" THEN rt.applied ELSE pass.want.policy

-----------------------------------------------------------------------------
(* Runtime.authorizeInvocation, immediately before the send *)

Refuse == pass' = [pass EXCEPT !.pc = "report"]

\* The role resolves once more before the send, unless this authorization stands in for that.
Confirm == pass' = [pass EXCEPT !.pc = IF pass.why = "again" THEN "send" ELSE "recheck"]

\* The reads failed for the moment: only the cache can still authorize.
AuthorizeLost ==
    /\ pass.pc = "lost" /\ pass.why # "pass"
    /\ IF cacheEligible(offered) THEN Confirm ELSE Refuse
    /\ nothing

sameView == pass.now.gen = pass.want.gen /\ pass.now.policy = pass.want.policy

\* The reads succeeded: they must confirm the view the bytes were prepared under.
AuthorizeChanged ==
    /\ pass.pc = "prereq"
    /\ ~(sameView /\ controlAllows(pass.now)) \/ pass.adm = "denied"
    /\ rt' = [rt EXCEPT !.held = TRUE]
    /\ Refuse
    /\ UNCHANGED <<cluster, role, seen, sent, budget>>

AuthorizeUnsure ==
    /\ pass.pc = "prereq" /\ sameView /\ controlAllows(pass.now) /\ pass.adm = "transient"
    /\ IF cacheEligible(offered)
       THEN Confirm /\ UNCHANGED rt
       ELSE Refuse /\ rt' = [rt EXCEPT !.held = TRUE]
    /\ UNCHANGED <<cluster, role, seen, sent, budget>>

\* Prerequisites of the policy that is carried out; a cached policy is still cached here.
Prerequisites ==
    /\ pass.pc = "prereq" /\ sameView /\ controlAllows(pass.now) /\ pass.adm = "ok"
    /\ pass.kind = "cached" => cachedSnapshot(offered)
    /\ LET q == offered
       IN  \/ /\ answers(q) = "ok" /\ seen' = learn(q)
              /\ Confirm /\ UNCHANGED <<rt, budget>>
           \/ /\ answers(q) = "denied" /\ seen' = learn(q)
              /\ rt' = [rt EXCEPT !.held = TRUE] /\ Refuse /\ UNCHANGED budget
           \/ /\ Transient
              /\ IF cacheEligible(q) THEN Confirm /\ UNCHANGED rt
                 ELSE Refuse /\ rt' = [rt EXCEPT !.held = TRUE]
              /\ UNCHANGED seen
    /\ UNCHANGED <<cluster, role, sent>>

\* TransferRole.authorize resolves once more, unless the dependencies are refused or no longer
\* those that were prepared for.  In an outage the cache authorizes, and nothing else is asked.
Recheck ==
    /\ pass.pc = "recheck"
    /\ LET q == offered
       IN  \/ /\ answers(q) = "ok" /\ seen' = learn(q)
              /\ pass' = [pass EXCEPT !.pc = "send"] /\ UNCHANGED <<rt, role, budget>>
           \/ /\ answers(q) = "denied" /\ seen' = learn(q)
              /\ rt' = [rt EXCEPT !.held = TRUE]
              /\ role' \in {role, [role EXCEPT !.cached = None]}
              /\ Refuse /\ UNCHANGED budget
           \/ /\ Transient /\ UNCHANGED <<seen, rt, role>>
              /\ IF cachedSnapshot(role.applied) /\ ~cachedPaused
                 THEN pass' = [onCache(pass) EXCEPT !.pc = "again", !.used = TRUE]
                 ELSE Stepped([pass EXCEPT !.used = @ \/ cachedSnapshot(role.applied)])
    /\ UNCHANGED <<cluster, sent>>

\* Faulty variant: a call without an answer is repeated at once.
SubmitRepeated ==
    /\ pass.pc = "send" /\ sent < MaxSent
    /\ \E calls \in {1, 2} : sent' = sent + calls /\ role' = [role EXCEPT !.open = calls]
    /\ Stepped(pass)
    /\ UNCHANGED <<cluster, rt, seen, budget>>

\* The only send: pending is recorded first, a definite refusal clears it.
Submit ==
    /\ pass.pc = "send" /\ sent < MaxSent
    /\ sent' = sent + 1
    /\ \E accepted \in {0, 1} : role' = [role EXCEPT !.open = accepted]
    /\ Stepped(pass)
    /\ UNCHANGED <<cluster, rt, seen, budget>>

-----------------------------------------------------------------------------
(* Runtime.Reconcile after the role *)

\* The role reports a policy that the snapshot does not admit: accepted while work under
\* it is pending, or when the step used the cached policy.
unadmitted ==
    /\ role.applied # None /\ role.applied # pass.base
    /\ ~(pass.used /\ rt.applied = role.applied)
    /\ LET previous == IF rt.pend # NoReport THEN rt.pend ELSE part.exec
       IN  previous.applied # role.applied \/ (previous.open = 0 /\ role.open = 0)

\* The report is retained until it is published.
Publish ==
    /\ pass.pc = "report" /\ ~unadmitted
    /\ LET said == [applied |-> role.applied, open |-> role.open]
       IN  \/ /\ current /\ part' = [part EXCEPT !.exec = said] /\ rt' = [rt EXCEPT !.pend = NoReport]
              /\ UNCHANGED budget
           \/ Transient /\ rt' = [rt EXCEPT !.pend = said] /\ UNCHANGED part
           \/ (Denied \/ Conflict) /\ rt' = lose([rt EXCEPT !.pend = said]) /\ UNCHANGED part
    /\ pass' = IdlePass
    /\ UNCHANGED <<root, source, inputs, grants, sup, role, seen, sent>>

\* Reconcile returns Exit: the process ends, and with it the experiment.
ExitUnadmitted ==
    /\ pass.pc = "report" /\ unadmitted
    /\ pass' = [IdlePass EXCEPT !.pc = "exit"]
    /\ nothing

-----------------------------------------------------------------------------
Next ==
    \/ EditRoot \/ AdmitPolicy \/ RemoveParticipant \/ EditDependencies
    \/ ReadSupport \/ ensureSupport
    \/ ReadRoot \/ ReadParticipant \/ ReadSource
    \/ UseFresh \/ UseCached \/ RetryReport \/ BeginStep
    \/ Observe \/ StepPaused \/ ResolveLive \/ ResolveCached \/ NoOffer
    \/ AuthorizeLost \/ AuthorizeChanged \/ AuthorizeUnsure \/ Prerequisites \/ Recheck
    \/ Submit \/ Publish \/ ExitUnadmitted

Spec == Init /\ [][Next]_vars

-----------------------------------------------------------------------------
(* Properties *)

\* Whatever the outage, and also when only the cache authorizes it, a submission is made only
\* when nothing the process has read since the last positive answer forbids it: the last root
\* and participant it read allow it, the source of the policy and the dependencies of the
\* policy that is carried out were not definitely refused when they were last read, and that
\* policy was validated live (cachedSnapshot, cacheEligible and cacheHeld of outage.go).
SubmissionsAuthorised ==
    pass.pc = "send" =>
        /\ seen.run /\ ~seen.del /\ seen.source
        /\ offered # None /\ seen.inputs[offered]
        /\ pass.kind = "cached" => rt.applied = role.applied

\* "Cooperative pause preserves the process": a worker whose last reading of the root is a
\* pause does not end itself (docs/network-operator/public-api-foundation.md; the check of
\* the applied policy in Runtime.Reconcile).
PausePreservesProcess == pass.pc = "exit" => seen.run

=============================================================================

---------------------------- MODULE NetworkProofs ----------------------------
(***************************************************************************)
(* What the parts of a network keep, for every value of their constants,   *)
(* as theorems of the network.  Each part has an inductive invariant of    *)
(* its own; a behaviour of the network is one of a single part, and every  *)
(* step of it is a step of that part or leaves that part alone.            *)
(***************************************************************************)
EXTENDS Network, WellFoundedInduction, TLAPS

-----------------------------------------------------------------------------
(* The authority of a Stacks worker *)


USE DEF Authority!process, Authority!cluster, Authority!nothing

-----------------------------------------------------------------------------
(* The inductive invariant *)

\* Nothing that was read last forbids a submission.
Clear == seen.run /\ ~seen.del /\ seen.source

\* A cache that is not held stands for positive answers, the last ones read.
CacheInv == ~rt.held /\ rt.applied # Authority!None => Clear /\ seen.inputs[rt.applied]

\* What the pass has read so far is what was read last.
ReadInv ==
    /\ pass.pc \in {"part", "source", "fresh", "prereq"} => seen.run = pass.now.run
    /\ pass.pc \in {"source", "fresh", "prereq"} => seen.del = pass.now.del
                                                      /\ pass.now.policy # Authority!None
    /\ pass.pc \in {"fresh", "prereq"} => (pass.adm = "ok" => seen.source)
    /\ pass.pc \in {"ready", "resolve"} /\ pass.kind = "live" =>
         /\ seen.run = pass.want.run /\ seen.del = pass.want.del /\ pass.want.policy # Authority!None
         /\ pass.adm = "ok" => seen.source

\* The pass is about to offer a submission, or to authorize the one it offers.
Offering ==
    \/ pass.pc \in {"offer", "again", "prereq", "recheck", "send"}
    \/ pass.why # "pass" /\ pass.pc \in {"part", "source", "lost"}

\* The view a submission is bound to: the admitted policy, or the one that was validated live.
OfferInv ==
    Offering => /\ pass.kind \in {"live", "cached"}
                /\ pass.kind = "live" => pass.want.policy # Authority!None
                /\ pass.kind = "cached" => rt.applied = role.applied /\ rt.applied # Authority!None

SendInv ==
    /\ pass.pc \in {"recheck", "send"} => Clear
    /\ pass.pc = "send" => seen.inputs[Authority!offered]

AuthorityInv == CacheInv /\ ReadInv /\ OfferInv /\ SendInv

-----------------------------------------------------------------------------
(* Types *)

LEMMA AuthorityConstants ==
  Authority!NoControl \in Authority!Control /\ Authority!NoReport \in Authority!Report
      /\ Authority!IdlePass \in Authority!Pass
  BY DEF Authority!NoControl, Authority!Control, Authority!NoReport, Authority!Report, Authority!IdlePass,
      Authority!Pass

LEMMA SpendType ==
  ASSUME Authority!TypeOK, NEW k \in Authority!Kinds, Authority!Spend(k)
  PROVE  budget' \in [Authority!Kinds -> Nat]
  BY DEF Authority!TypeOK, Authority!Spend

LEMMA FaultKinds ==
  ASSUME Authority!TypeOK, Authority!Transient \/ Authority!Denied \/ Authority!Conflict \/ UNCHANGED budget
  PROVE  budget' \in [Authority!Kinds -> Nat]
  <1>1. "Outage" \in Authority!Kinds /\ "Deny" \in Authority!Kinds BY DEF Authority!Kinds
  <1> QED BY <1>1, SpendType DEF Authority!Transient, Authority!Denied, Authority!Conflict, Authority!TypeOK

LEMMA MemoryType ==
  ASSUME NEW m \in Authority!Memory, NEW b \in BOOLEAN
  PROVE  Authority!lose(m) \in Authority!Memory /\ [m EXCEPT !.held = b] \in Authority!Memory
         /\ Authority!observePartialRoot(m, b) \in Authority!Memory
  BY DEF Authority!lose, Authority!observePartialRoot, Authority!Memory

LEMMA CacheType ==
  ASSUME Authority!TypeOK, NEW p \in Authority!Pass PROVE Authority!onCache(p) \in Authority!Pass
  <1>1. Authority!cachedPaused \in BOOLEAN /\ rt.last \in Authority!Control BY DEF Authority!TypeOK,
      Authority!cachedPaused, Authority!Memory
  <1> QED BY <1>1 DEF Authority!onCache, Authority!Pass

LEMMA LearnType ==
  ASSUME Authority!TypeOK, NEW q PROVE Authority!learn(q) \in Authority!Seen
  BY DEF Authority!TypeOK, Authority!learn, Authority!Seen

\* A definite refusal leaves the pass idle, or about to report.
LEMMA StoppedPass ==
  ASSUME NEW p \in Authority!Pass
  PROVE  /\ Authority!stopped(p) \in Authority!Pass
         /\ Authority!stopped(p) = Authority!IdlePass \/ Authority!stopped(p).pc = "report"
  BY AuthorityConstants DEF Authority!stopped, Authority!Pass

\* Steps outside the process.
Edits ==
    \/ Authority!EditRoot \/ Authority!AdmitPolicy \/ Authority!RemoveParticipant
       \/ Authority!EditDependencies
    \/ Authority!ReadSupport \/ Authority!ensureSupport

LEMMA EditsType ==
  ASSUME Authority!Bounds, Authority!TypeOK, Edits PROVE Authority!TypeOK' /\ UNCHANGED Authority!process
  <1>0. {"Pause", "Policy", "Source", "Inputs", "Remove"} \subseteq Authority!Kinds BY DEF Authority!Kinds
  <1>1. CASE Authority!EditRoot
    <2>1. budget' \in [Authority!Kinds -> Nat] BY <1>0, <1>1, SpendType DEF Authority!EditRoot
    <2>2. root' \in [run : BOOLEAN, gen : Nat] BY <1>1 DEF Authority!EditRoot, Authority!TypeOK
    <2> QED BY <1>1, <2>1, <2>2 DEF Authority!EditRoot, Authority!TypeOK
  <1>2. CASE Authority!AdmitPolicy \/ Authority!RemoveParticipant
    <2>1. budget' \in [Authority!Kinds -> Nat] BY <1>0, <1>2, SpendType DEF Authority!AdmitPolicy,
        Authority!RemoveParticipant
    <2>2. part' \in [del : BOOLEAN, policy : PolicyIds, exec : Authority!Report]
      BY <1>2 DEF Authority!AdmitPolicy, Authority!RemoveParticipant, Authority!TypeOK
    <2> QED BY <1>2, <2>1, <2>2 DEF Authority!AdmitPolicy, Authority!RemoveParticipant, Authority!TypeOK
  <1>3. CASE Authority!EditDependencies
    <2>1. budget' \in [Authority!Kinds -> Nat] BY <1>0, <1>3, SpendType DEF Authority!EditDependencies
    <2>2. inputs' \in [PolicyIds -> BOOLEAN] /\ source' \in BOOLEAN
      BY <1>3 DEF Authority!EditDependencies, Authority!TypeOK
    <2> QED BY <1>3, <2>1, <2>2 DEF Authority!EditDependencies, Authority!TypeOK
  <1>4. CASE Authority!ReadSupport
    <2>1. sup' \subseteq PolicyIds BY <1>4 DEF Authority!ReadSupport, Authority!Rules, Authority!TypeOK
    <2> QED BY <1>4, <2>1 DEF Authority!ReadSupport, Authority!TypeOK
  <1>5. CASE Authority!ensureSupport BY <1>5 DEF Authority!ensureSupport, Authority!TypeOK
  <1> QED BY <1>1, <1>2, <1>3, <1>4, <1>5 DEF Edits

\* Steps of the process that only read, and move the pass on.
Reads == Authority!ReadRoot \/ Authority!ReadParticipant \/ Authority!ReadSource \/ Authority!UseFresh
    \/ Authority!UseCached

LEMMA ReadsType ==
  ASSUME Authority!Bounds, Authority!TypeOK, Reads PROVE Authority!TypeOK'
  <1>t. /\ rt \in Authority!Memory /\ pass \in Authority!Pass /\ seen \in Authority!Seen
           /\ root.run \in BOOLEAN /\ root.gen \in Nat
        /\ part.del \in BOOLEAN /\ part.policy \in PolicyIds /\ source \in BOOLEAN
        /\ pass.now \in Authority!Control /\ rt.last \in Authority!Control /\ rt.held \in BOOLEAN
        /\ rt.applied \in PolicyIds \cup {Authority!None}
    BY DEF Authority!TypeOK, Authority!Pass, Authority!Memory
  <1>1. ASSUME rt' \in Authority!Memory, pass' \in Authority!Pass, seen' \in Authority!Seen,
               budget' \in [Authority!Kinds -> Nat],
               UNCHANGED <<Authority!cluster, role, sent>>
        PROVE  Authority!TypeOK'
    BY <1>1 DEF Authority!TypeOK
  <1>2. CASE Authority!ReadRoot
    <2> DEFINE begun == IF pass.pc = "idle" THEN Authority!IdlePass
                        ELSE [pass EXCEPT !.why = IF pass.pc = "offer" THEN "send" ELSE "again"]
               now == [Authority!NoControl EXCEPT !.run = root.run, !.gen = root.gen]
    <2>1. begun \in Authority!Pass BY <1>t, AuthorityConstants DEF Authority!Pass
    <2>2. now \in Authority!Control BY <1>t, AuthorityConstants DEF Authority!Control
    <2>3. [seen EXCEPT !.run = root.run] \in Authority!Seen BY <1>t DEF Authority!Seen
    <2>4. \/ /\ rt' = Authority!observePartialRoot(rt, root.run)
             /\ seen' = [seen EXCEPT !.run = root.run]
             /\ pass' = [begun EXCEPT !.pc = "part", !.now = now]
          \/ rt' = rt /\ seen' = seen /\ pass' = [begun EXCEPT !.pc = "lost", !.now = Authority!NoControl]
          \/ rt' = Authority!lose(rt) /\ seen' = seen /\ pass' = Authority!stopped(begun)
      BY <1>2 DEF Authority!ReadRoot
    <2>5. UNCHANGED <<Authority!cluster, role, sent>>
          /\ (Authority!Transient \/ Authority!Denied \/ UNCHANGED budget)
      BY <1>2 DEF Authority!ReadRoot
    <2> HIDE DEF begun, now
    <2>6. rt' \in Authority!Memory /\ seen' \in Authority!Seen
      BY <1>t, <2>3, <2>4, MemoryType
    <2>s. Authority!stopped(begun) \in Authority!Pass BY <2>1, StoppedPass
    <2>7. pass' \in Authority!Pass BY <2>1, <2>2, <2>4, <2>s, AuthorityConstants DEF Authority!Pass
    <2> QED BY <1>1, <2>5, <2>6, <2>7, FaultKinds
  <1>3. CASE Authority!ReadParticipant
    <2> DEFINE now == [pass.now EXCEPT !.del = part.del, !.policy = part.policy]
    <2>1. now \in Authority!Control BY <1>t DEF Authority!Control
    <2>2. [seen EXCEPT !.del = part.del] \in Authority!Seen BY <1>t DEF Authority!Seen
    <2>3. \/ /\ rt' = [rt EXCEPT !.held = TRUE] \/ rt' = rt
             /\ seen' = [seen EXCEPT !.del = part.del]
             /\ pass' = [pass EXCEPT !.pc = "source", !.now = now]
          \/ rt' = rt /\ seen' = seen /\ pass' = [pass EXCEPT !.pc = "lost", !.now = Authority!NoControl]
          \/ rt' = Authority!lose(rt) /\ seen' = seen /\ pass' = Authority!stopped(pass)
      BY <1>3 DEF Authority!ReadParticipant
    <2>4. UNCHANGED <<Authority!cluster, role, sent>>
          /\ (Authority!Transient \/ Authority!Denied \/ UNCHANGED budget)
      BY <1>3 DEF Authority!ReadParticipant
    <2> HIDE DEF now
    <2>5. rt' \in Authority!Memory /\ seen' \in Authority!Seen
      BY <1>t, <2>2, <2>3, MemoryType
    <2>s. Authority!stopped(pass) \in Authority!Pass BY <1>t, StoppedPass
    <2>6. pass' \in Authority!Pass BY <1>t, <2>1, <2>3, <2>s, AuthorityConstants DEF Authority!Pass
    <2> QED BY <1>1, <2>4, <2>5, <2>6, FaultKinds
  <1>4. CASE Authority!ReadSource
    <2>1. PICK answer \in {"ok", "denied", "transient"}, h \in BOOLEAN, pc \in {"fresh", "prereq"} :
             /\ seen' = seen \/ seen' = [seen EXCEPT !.source = source]
             /\ rt' = [rt EXCEPT !.held = h, !.last = pass.now, !.blocked = FALSE]
             /\ pass' = [pass EXCEPT !.pc = pc, !.adm = answer]
             /\ Authority!Transient \/ UNCHANGED budget
      BY <1>4, <1>t DEF Authority!ReadSource, Authority!controlAllows, Authority!Control
    <2>2. seen' \in Authority!Seen BY <1>t, <2>1 DEF Authority!Seen
    <2>3. rt' \in Authority!Memory BY <1>t, <2>1 DEF Authority!Memory
    <2>4. pass' \in Authority!Pass BY <1>t, <2>1 DEF Authority!Pass
    <2> QED BY <1>1, <1>4, <2>1, <2>2, <2>3, <2>4, FaultKinds DEF Authority!ReadSource
  <1>5. CASE Authority!UseFresh
    <2>1. /\ Authority!nothing
          /\ \/ pass' = Authority!IdlePass
             \/ pass' = [pass EXCEPT !.pc = "ready", !.kind = "live", !.paused = ~pass.now.run,
                                     !.want = pass.now, !.base = pass.now.policy]
      BY <1>5 DEF Authority!UseFresh
    <2>2. pass.now.policy \in PolicyIds \cup {Authority!None} BY <1>t DEF Authority!Control
    <2>3. pass' \in Authority!Pass BY <1>t, <2>1, <2>2, AuthorityConstants DEF Authority!Pass
    <2> QED BY <1>1, <1>t, <2>1, <2>3 DEF Authority!TypeOK
  <1>6. CASE Authority!UseCached
    <2>1. /\ Authority!nothing
          /\ pass' = Authority!IdlePass \/ pass' = [Authority!onCache(pass) EXCEPT !.pc = "ready",
             !.base = rt.applied]
      BY <1>6 DEF Authority!UseCached
    <2>2. Authority!onCache(pass) \in Authority!Pass BY <1>t, CacheType
    <2>3. pass' \in Authority!Pass BY <1>t, <2>1, <2>2, AuthorityConstants DEF Authority!Pass
    <2> QED BY <1>1, <1>t, <2>1, <2>3 DEF Authority!TypeOK
  <1> QED BY <1>2, <1>3, <1>4, <1>5, <1>6 DEF Reads

\* Steps of the process from the snapshot on.
Steps ==
    \/ Authority!BeginStep \/ Authority!Observe \/ Authority!StepPaused \/ Authority!ResolveLive
       \/ Authority!ResolveCached \/ Authority!NoOffer
    \/ Authority!AuthorizeLost \/ Authority!AuthorizeChanged \/ Authority!AuthorizeUnsure
       \/ Authority!Prerequisites \/ Authority!Recheck
    \/ Authority!Submit \/ Authority!ExitUnadmitted

\* What a step makes of the pass, and of what the process remembers.
LEMMA StepsPass ==
  ASSUME Steps
  PROVE  \/ \E pc \in {"report", "offer", "recheck", "send"} : pass' = [pass EXCEPT !.pc = pc]
         \/ \E b \in BOOLEAN : pass' = [pass EXCEPT !.pc = "resolve", !.used = b]
         \/ pass' = [Authority!onCache(pass) EXCEPT !.pc = "offer", !.used = TRUE]
         \/ pass' = [Authority!onCache(pass) EXCEPT !.pc = "again", !.used = TRUE]
         \/ pass' = [[pass EXCEPT !.used = @
            \/ Authority!cachedSnapshot(role.applied)] EXCEPT !.pc = "report"]
         \/ pass' = [Authority!IdlePass EXCEPT !.pc = "exit"]
  <1>1. CASE Authority!BeginStep BY <1>1 DEF Authority!BeginStep
  <1>2. CASE Authority!Observe \/ Authority!StepPaused \/ Authority!ResolveLive \/ Authority!ResolveCached
        \/ Authority!NoOffer \/ Authority!Submit
    BY <1>2 DEF Authority!Observe, Authority!StepPaused, Authority!ResolveLive, Authority!ResolveCached,
        Authority!NoOffer, Authority!Submit, Authority!Stepped
  <1>3. CASE Authority!AuthorizeLost \/ Authority!AuthorizeChanged \/ Authority!AuthorizeUnsure
        \/ Authority!Prerequisites \/ Authority!Recheck \/ Authority!ExitUnadmitted
    <2>1. CASE Authority!AuthorizeLost \/ Authority!AuthorizeChanged \/ Authority!AuthorizeUnsure
          \/ Authority!Prerequisites
      <3>1. Authority!Refuse \/ Authority!Confirm
        BY <2>1 DEF Authority!AuthorizeLost, Authority!AuthorizeChanged, Authority!AuthorizeUnsure,
            Authority!Prerequisites
      <3> QED BY <3>1 DEF Authority!Refuse, Authority!Confirm
    <2>2. CASE Authority!Recheck \/ Authority!ExitUnadmitted
      BY <2>2 DEF Authority!Recheck, Authority!ExitUnadmitted, Authority!Refuse, Authority!Stepped
    <2> QED BY <1>3, <2>1, <2>2
  <1> QED BY <1>1, <1>2, <1>3 DEF Steps

LEMMA StepsMemory ==
  ASSUME Steps
  PROVE  /\ \/ rt' = rt \/ rt' = [rt EXCEPT !.held = TRUE]
            \/ rt' = [rt EXCEPT !.applied = pass.want.policy, !.held = ~Authority!controlAllows(pass.want)]
         /\ \/ role' = role \/ \E left \in {0, 1} : role' = [role EXCEPT !.open = left]
            \/ role' = [role EXCEPT !.cached = Authority!None]
            \/ role' = [role EXCEPT !.applied = pass.want.policy, !.cached = pass.want.policy]
         /\ seen' = seen \/ \E q : seen' = Authority!learn(q)
         /\ UNCHANGED Authority!cluster /\ (Authority!Transient \/ UNCHANGED budget)
         /\ sent' = sent \/ (sent < AuthoritySent /\ sent' = sent + 1)
  <1>0. 0..1 = {0, 1} OBVIOUS
  <1>1. CASE Authority!BeginStep \/ Authority!StepPaused \/ Authority!ResolveCached \/ Authority!NoOffer
        \/ Authority!AuthorizeLost \/ Authority!ExitUnadmitted
    BY <1>1 DEF Authority!BeginStep, Authority!StepPaused, Authority!ResolveCached, Authority!NoOffer,
        Authority!AuthorizeLost, Authority!ExitUnadmitted
  <1>2. CASE Authority!Observe \/ Authority!Submit BY <1>0, <1>2 DEF Authority!Observe, Authority!Submit
  <1>3. CASE Authority!ResolveLive BY <1>3 DEF Authority!ResolveLive
  <1>4. CASE Authority!AuthorizeChanged \/ Authority!AuthorizeUnsure BY <1>4 DEF Authority!AuthorizeChanged,
      Authority!AuthorizeUnsure
  <1>5. CASE Authority!Prerequisites \/ Authority!Recheck BY <1>5 DEF Authority!Prerequisites,
      Authority!Recheck
  <1> QED BY <1>1, <1>2, <1>3, <1>4, <1>5 DEF Steps

LEMMA StepsType ==
  ASSUME Authority!Bounds, Authority!TypeOK, Steps PROVE Authority!TypeOK'
  <1>t. /\ rt \in Authority!Memory /\ pass \in Authority!Pass /\ role \in Authority!Role
           /\ sent \in 0..AuthoritySent /\ AuthoritySent \in Nat
        /\ pass.want.policy \in PolicyIds \cup {Authority!None}
    BY DEF Authority!TypeOK, Authority!Pass, Authority!Control, Authority!Bounds
  <1>1. pass' \in Authority!Pass
    <2>1. CASE \E pc \in {"report", "offer", "recheck", "send"} : pass' = [pass EXCEPT !.pc = pc]
      BY <1>t, <2>1 DEF Authority!Pass
    <2>2. CASE \E b \in BOOLEAN : pass' = [pass EXCEPT !.pc = "resolve", !.used = b]
      BY <1>t, <2>2 DEF Authority!Pass
    <2>3. CASE \/ pass' = [Authority!onCache(pass) EXCEPT !.pc = "offer", !.used = TRUE]
               \/ pass' = [Authority!onCache(pass) EXCEPT !.pc = "again", !.used = TRUE]
      <3>1. Authority!onCache(pass) \in Authority!Pass BY <1>t, CacheType
      <3> QED BY <2>3, <3>1 DEF Authority!Pass
    <2>4. CASE pass' = [[pass EXCEPT !.used = @
          \/ Authority!cachedSnapshot(role.applied)] EXCEPT !.pc = "report"]
      <3>1. PICK b \in BOOLEAN : b = (pass.used \/ Authority!cachedSnapshot(role.applied)) OBVIOUS
      <3>2. pass' = [[pass EXCEPT !.used = b] EXCEPT !.pc = "report"] BY <2>4, <3>1
      <3> QED BY <1>t, <3>2 DEF Authority!Pass
    <2>5. CASE pass' = [Authority!IdlePass EXCEPT !.pc = "exit"] BY <2>5, AuthorityConstants
        DEF Authority!Pass
    <2> QED BY <2>1, <2>2, <2>3, <2>4, <2>5, StepsPass
  <1>2. rt' \in Authority!Memory
    <2>1. CASE rt' = [rt EXCEPT !.applied = pass.want.policy, !.held = ~Authority!controlAllows(pass.want)]
      BY <1>t, <2>1 DEF Authority!Memory
    <2>2. CASE rt' = [rt EXCEPT !.held = TRUE] BY <1>t, <2>2 DEF Authority!Memory
    <2> QED BY <1>t, <2>1, <2>2, StepsMemory
  <1>3. role' \in Authority!Role
    <2>1. CASE \E left \in {0, 1} : role' = [role EXCEPT !.open = left] BY <1>t, <2>1 DEF Authority!Role
    <2>2. CASE role' = [role EXCEPT !.cached = Authority!None] BY <1>t, <2>2 DEF Authority!Role
    <2>3. CASE role' = [role EXCEPT !.applied = pass.want.policy, !.cached = pass.want.policy]
      BY <1>t, <2>3 DEF Authority!Role
    <2> QED BY <1>t, <2>1, <2>2, <2>3, StepsMemory
  <1>4. seen' \in Authority!Seen BY StepsMemory, LearnType DEF Authority!TypeOK
  <1>5. budget' \in [Authority!Kinds -> Nat] BY StepsMemory, FaultKinds
  <1>6. sent' \in 0..AuthoritySent BY <1>t, StepsMemory
  <1>7. UNCHANGED Authority!cluster BY StepsMemory
  <1> QED BY <1>1, <1>2, <1>3, <1>4, <1>5, <1>6, <1>7 DEF Authority!TypeOK

\* Reports, published or retained.
Reports == Authority!RetryReport \/ Authority!Publish

LEMMA ReportsType ==
  ASSUME Authority!Bounds, Authority!TypeOK, Reports PROVE Authority!TypeOK'
  <1>t. /\ rt \in Authority!Memory /\ pass \in Authority!Pass /\ role \in Authority!Role
           /\ rt.pend \in Authority!Report
        /\ part \in [del : BOOLEAN, policy : PolicyIds, exec : Authority!Report]
    BY DEF Authority!TypeOK, Authority!Memory
  <1>1. ASSUME part' \in [del : BOOLEAN, policy : PolicyIds, exec : Authority!Report],
               rt' \in Authority!Memory, pass' \in Authority!Pass,
               Authority!Transient \/ Authority!Denied \/ Authority!Conflict \/ UNCHANGED budget,
               UNCHANGED <<root, source, inputs, grants, sup, role, seen, sent>>
        PROVE  Authority!TypeOK'
    BY <1>1, FaultKinds DEF Authority!TypeOK
  <1>2. CASE Authority!RetryReport
    <2>1. UNCHANGED <<root, source, inputs, grants, sup, role, seen, sent>>
          /\ (Authority!Transient \/ Authority!Denied \/ Authority!Conflict \/ UNCHANGED budget)
      BY <1>2 DEF Authority!RetryReport
    <2>2. part' = part \/ part' = [part EXCEPT !.exec = rt.pend] BY <1>2 DEF Authority!RetryReport
    <2>3. part' \in [del : BOOLEAN, policy : PolicyIds, exec : Authority!Report] BY <1>t, <2>2
    <2>4. rt' = rt \/ rt' = [rt EXCEPT !.pend = Authority!NoReport] \/ rt' = Authority!lose(rt) BY <1>2
        DEF Authority!RetryReport
    <2>5. rt' \in Authority!Memory BY <1>t, <2>4, MemoryType, AuthorityConstants DEF Authority!Memory
    <2>6. pass' = Authority!IdlePass \/ pass' = [Authority!onCache(pass) EXCEPT !.pc = "resolve",
          !.used = TRUE]
      BY <1>2 DEF Authority!RetryReport
    <2>7. Authority!onCache(pass) \in Authority!Pass BY <1>t, CacheType
    <2>8. pass' \in Authority!Pass BY <2>6, <2>7, AuthorityConstants DEF Authority!Pass
    <2> QED BY <1>1, <2>1, <2>3, <2>5, <2>8
  <1>3. CASE Authority!Publish
    <2> DEFINE said == [applied |-> role.applied, open |-> role.open]
    <2>1. UNCHANGED <<root, source, inputs, grants, sup, role, seen, sent>>
          /\ (Authority!Transient \/ Authority!Denied \/ Authority!Conflict \/ UNCHANGED budget)
             /\ pass' = Authority!IdlePass
      BY <1>3 DEF Authority!Publish
    <2>2. said \in Authority!Report BY <1>t DEF Authority!Role, Authority!Report
    <2>3. part' = part \/ part' = [part EXCEPT !.exec = said] BY <1>3 DEF Authority!Publish
    <2>4. \/ rt' = [rt EXCEPT !.pend = said] \/ rt' = [rt EXCEPT !.pend = Authority!NoReport]
          \/ rt' = Authority!lose([rt EXCEPT !.pend = said])
      BY <1>3 DEF Authority!Publish
    <2> HIDE DEF said
    <2>5. part' \in [del : BOOLEAN, policy : PolicyIds, exec : Authority!Report] BY <1>t, <2>2, <2>3
    <2>6. [rt EXCEPT !.pend = said] \in Authority!Memory
          /\ [rt EXCEPT !.pend = Authority!NoReport] \in Authority!Memory
      BY <1>t, <2>2, AuthorityConstants DEF Authority!Memory
    <2>7. rt' \in Authority!Memory BY <2>4, <2>6, MemoryType
    <2> QED BY <1>1, <2>1, <2>5, <2>7, AuthorityConstants
  <1> QED BY <1>2, <1>3 DEF Reports

LEMMA AuthorityTypeStep ==
  ASSUME Authority!Bounds, Authority!TypeOK, [Authority!Next]_(Authority!vars) PROVE Authority!TypeOK'
  <1>1. CASE UNCHANGED Authority!vars BY <1>1 DEF Authority!vars, Authority!TypeOK
  <1> QED BY <1>1, EditsType, ReadsType, StepsType, ReportsType DEF Authority!Next, Edits, Reads, Steps,
      Reports

-----------------------------------------------------------------------------
(* The steps keep the invariant *)

LEMMA EditsInv ==
  ASSUME Authority!TypeOK, AuthorityInv, UNCHANGED Authority!process PROVE AuthorityInv'
  BY DEF AuthorityInv, CacheInv, ReadInv, OfferInv, SendInv, Offering, Clear, Authority!offered

\* An idle pass promises nothing.
LEMMA IdleInv ==
  ASSUME CacheInv', pass' = Authority!IdlePass PROVE AuthorityInv'
  <1>1. pass'.pc = "idle" /\ pass'.why = "pass" BY DEF Authority!IdlePass
  <1> QED BY <1>1 DEF AuthorityInv, ReadInv, OfferInv, SendInv, Offering

\* Nor does a cache that is held.
LEMMA HeldInv ==
  ASSUME rt'.held PROVE CacheInv'
  BY DEF CacheInv

\* A pass that only reports any more promises nothing either.
LEMMA ReportInv ==
  ASSUME CacheInv', pass'.pc \in {"report", "exit"} PROVE AuthorityInv'
  BY DEF AuthorityInv, ReadInv, OfferInv, SendInv, Offering

LEMMA StoppedInv ==
  ASSUME CacheInv', NEW p \in Authority!Pass, pass' = Authority!stopped(p) PROVE AuthorityInv'
  BY StoppedPass, IdleInv, ReportInv

LEMMA ReadRootInv ==
  ASSUME Authority!TypeOK, Authority!TypeOK', AuthorityInv, Authority!ReadRoot PROVE AuthorityInv'
  <1>t. /\ rt \in Authority!Memory /\ pass \in Authority!Pass /\ seen \in Authority!Seen
      BY DEF Authority!TypeOK
  <1> DEFINE begun == IF pass.pc = "idle" THEN Authority!IdlePass
                      ELSE [pass EXCEPT !.why = IF pass.pc = "offer" THEN "send" ELSE "again"]
             now == [Authority!NoControl EXCEPT !.run = root.run, !.gen = root.gen]
  <1>1. begun \in Authority!Pass BY <1>t, AuthorityConstants DEF Authority!Pass
  <1>2. \/ begun.why = "pass"
        \/ pass.pc \in {"offer", "again"} /\ begun.kind = pass.kind /\ begun.want = pass.want
    BY <1>t DEF Authority!ReadRoot, Authority!IdlePass, Authority!Pass
  <1>3. now.run = root.run BY DEF Authority!NoControl
  <1>4. role' = role BY DEF Authority!ReadRoot
  <1>5. \/ /\ rt' = Authority!observePartialRoot(rt, root.run)
           /\ seen' = [seen EXCEPT !.run = root.run]
           /\ pass' = [begun EXCEPT !.pc = "part", !.now = now]
        \/ rt' = rt /\ seen' = seen /\ pass' = [begun EXCEPT !.pc = "lost", !.now = Authority!NoControl]
        \/ rt' = Authority!lose(rt) /\ seen' = seen /\ pass' = Authority!stopped(begun)
    BY DEF Authority!ReadRoot
  <1> HIDE DEF begun, now
  <1>6. CASE /\ rt' = Authority!observePartialRoot(rt, root.run)
             /\ seen' = [seen EXCEPT !.run = root.run]
             /\ pass' = [begun EXCEPT !.pc = "part", !.now = now]
    <2>1. /\ pass'.pc = "part" /\ pass'.now = now /\ pass'.why = begun.why /\ pass'.kind = begun.kind
          /\ pass'.want = begun.want
      BY <1>1, <1>6 DEF Authority!Pass
    <2>2. /\ seen'.run = root.run /\ seen'.del = seen.del /\ seen'.source = seen.source
          /\ seen'.inputs = seen.inputs
      BY <1>t, <1>6 DEF Authority!Seen
    <2>3. rt'.applied = rt.applied /\ (rt'.held \/ (rt'.held = rt.held /\ root.run))
      BY <1>t, <1>6 DEF Authority!observePartialRoot, Authority!Memory
    <2>4. CacheInv' BY <2>2, <2>3 DEF AuthorityInv, CacheInv, Clear
    <2>5. OfferInv' BY <1>2, <1>4, <2>1, <2>3 DEF AuthorityInv, OfferInv, Offering
    <2> QED BY <1>3, <2>1, <2>2, <2>4, <2>5 DEF AuthorityInv, ReadInv, SendInv
  <1>7. CASE rt' = rt /\ seen' = seen /\ pass' = [begun EXCEPT !.pc = "lost", !.now = Authority!NoControl]
    <2>1. /\ pass'.pc = "lost" /\ pass'.why = begun.why /\ pass'.kind = begun.kind
          /\ pass'.want = begun.want
      BY <1>1, <1>7 DEF Authority!Pass
    <2>4. CacheInv' BY <1>7 DEF AuthorityInv, CacheInv, Clear
    <2>5. OfferInv' BY <1>2, <1>4, <1>7, <2>1 DEF AuthorityInv, OfferInv, Offering
    <2> QED BY <2>1, <2>4, <2>5 DEF AuthorityInv, ReadInv, SendInv
  <1>8. CASE rt' = Authority!lose(rt) /\ seen' = seen /\ pass' = Authority!stopped(begun)
    <2>1. rt'.held BY <1>t, <1>8 DEF Authority!lose, Authority!Memory
    <2> QED BY <1>1, <1>8, <2>1, HeldInv, StoppedInv
  <1> QED BY <1>5, <1>6, <1>7, <1>8

LEMMA ReadParticipantInv ==
  ASSUME Authority!Bounds, Authority!TypeOK, Authority!TypeOK', AuthorityInv, Authority!ReadParticipant
  PROVE  AuthorityInv'
  <1>t. /\ rt \in Authority!Memory /\ pass \in Authority!Pass /\ seen \in Authority!Seen
           /\ pass.now \in Authority!Control
        /\ part.policy \in PolicyIds
    BY DEF Authority!TypeOK, Authority!Pass
  <1> DEFINE now == [pass.now EXCEPT !.del = part.del, !.policy = part.policy]
  <1>1. now.run = pass.now.run /\ now.del = part.del /\ now.policy # Authority!None
    BY <1>t DEF Authority!Control, Authority!Bounds
  <1>2. pass.pc = "part" /\ role' = role BY DEF Authority!ReadParticipant
  <1>3. \/ /\ (part.del /\ rt' = [rt EXCEPT !.held = TRUE]) \/ (~part.del /\ rt' = rt)
           /\ seen' = [seen EXCEPT !.del = part.del]
           /\ pass' = [pass EXCEPT !.pc = "source", !.now = now]
        \/ rt' = rt /\ seen' = seen /\ pass' = [pass EXCEPT !.pc = "lost", !.now = Authority!NoControl]
        \/ rt' = Authority!lose(rt) /\ seen' = seen /\ pass' = Authority!stopped(pass)
    BY DEF Authority!ReadParticipant
  <1> HIDE DEF now
  <1>4. CASE /\ (part.del /\ rt' = [rt EXCEPT !.held = TRUE]) \/ (~part.del /\ rt' = rt)
             /\ seen' = [seen EXCEPT !.del = part.del]
             /\ pass' = [pass EXCEPT !.pc = "source", !.now = now]
    <2>1. /\ pass'.pc = "source" /\ pass'.now = now /\ pass'.why = pass.why /\ pass'.kind = pass.kind
          /\ pass'.want = pass.want
      BY <1>t, <1>4 DEF Authority!Pass
    <2>2. /\ seen'.run = seen.run /\ seen'.del = part.del /\ seen'.source = seen.source
          /\ seen'.inputs = seen.inputs
      BY <1>t, <1>4 DEF Authority!Seen
    <2>3. rt'.applied = rt.applied /\ (rt'.held \/ (rt'.held = rt.held /\ ~part.del))
      BY <1>t, <1>4 DEF Authority!Memory
    <2>4. CacheInv' BY <2>2, <2>3 DEF AuthorityInv, CacheInv, Clear
    <2>5. OfferInv' BY <1>2, <2>1, <2>3 DEF AuthorityInv, OfferInv, Offering
    <2>6. ReadInv' BY <1>1, <1>2, <2>1, <2>2 DEF AuthorityInv, ReadInv
    <2> QED BY <2>1, <2>4, <2>5, <2>6 DEF AuthorityInv, SendInv
  <1>5. CASE rt' = rt /\ seen' = seen /\ pass' = [pass EXCEPT !.pc = "lost", !.now = Authority!NoControl]
    <2>1. /\ pass'.pc = "lost" /\ pass'.why = pass.why /\ pass'.kind = pass.kind
          /\ pass'.want = pass.want
      BY <1>t, <1>5 DEF Authority!Pass
    <2>4. CacheInv' BY <1>5 DEF AuthorityInv, CacheInv, Clear
    <2>5. OfferInv' BY <1>2, <1>5, <2>1 DEF AuthorityInv, OfferInv, Offering
    <2> QED BY <2>1, <2>4, <2>5 DEF AuthorityInv, ReadInv, SendInv
  <1>6. CASE rt' = Authority!lose(rt) /\ seen' = seen /\ pass' = Authority!stopped(pass)
    <2>1. rt'.held BY <1>t, <1>6 DEF Authority!lose, Authority!Memory
    <2> QED BY <1>t, <1>6, <2>1, HeldInv, StoppedInv
  <1> QED BY <1>3, <1>4, <1>5, <1>6

LEMMA ReadSourceInv ==
  ASSUME Authority!TypeOK, Authority!TypeOK', AuthorityInv, Authority!ReadSource PROVE AuthorityInv'
  <1>t. /\ rt \in Authority!Memory /\ pass \in Authority!Pass /\ seen \in Authority!Seen
      BY DEF Authority!TypeOK
  <1>1. pass.pc = "source" /\ role' = role BY DEF Authority!ReadSource
  <1>2. PICK answer \in {"ok", "denied", "transient"} :
           /\ answer # "transient" => (answer = "ok") = source
           /\ seen' = IF answer = "transient" THEN seen ELSE [seen EXCEPT !.source = source]
           /\ rt' = [rt EXCEPT !.held = @ \/ answer = "denied" \/ ~Authority!controlAllows(pass.now),
                               !.last = pass.now, !.blocked = FALSE]
           /\ pass' = [pass EXCEPT !.pc = IF pass.why = "pass" THEN "fresh" ELSE "prereq",
                                   !.adm = answer]
    BY DEF Authority!ReadSource
  <1>3. /\ pass'.pc = IF pass.why = "pass" THEN "fresh" ELSE "prereq"
        /\ pass'.now = pass.now /\ pass'.why = pass.why /\ pass'.kind = pass.kind
        /\ pass'.want = pass.want /\ pass'.adm = answer /\ pass.why \in {"pass", "send", "again"}
    BY <1>t, <1>2 DEF Authority!Pass
  <1>4. /\ seen'.run = seen.run /\ seen'.del = seen.del /\ seen'.inputs = seen.inputs
        /\ answer = "ok" => seen'.source
        /\ seen'.source = seen.source \/ answer = "ok" \/ answer = "denied"
    BY <1>t, <1>2 DEF Authority!Seen
  <1>5. rt'.applied = rt.applied /\ (rt'.held \/ (~rt.held /\ answer # "denied"))
    BY <1>t, <1>2 DEF Authority!Memory
  <1>6. CacheInv' BY <1>4, <1>5 DEF AuthorityInv, CacheInv, Clear
  <1>7. OfferInv' BY <1>1, <1>3, <1>5 DEF AuthorityInv, OfferInv, Offering
  <1>8. ReadInv' BY <1>1, <1>3, <1>4 DEF AuthorityInv, ReadInv
  <1> QED BY <1>3, <1>6, <1>7, <1>8 DEF AuthorityInv, SendInv

LEMMA CacheKept ==
  ASSUME AuthorityInv, rt'.applied = rt.applied, rt'.held = rt.held, UNCHANGED seen PROVE CacheInv'
  BY DEF AuthorityInv, CacheInv, Clear

LEMMA UseInv ==
  ASSUME Authority!TypeOK, Authority!TypeOK', AuthorityInv, Authority!UseFresh \/ Authority!UseCached
         \/ Authority!BeginStep
  PROVE  AuthorityInv'
  <1>t. pass \in Authority!Pass /\ rt \in Authority!Memory BY DEF Authority!TypeOK
  <1>1. Authority!nothing BY DEF Authority!UseFresh, Authority!UseCached, Authority!BeginStep
  <1>2. CacheInv' BY <1>1, CacheKept
  <1>3. CASE pass' = Authority!IdlePass BY <1>2, <1>3, IdleInv
  <1>4. CASE Authority!UseFresh /\ pass' # Authority!IdlePass
    <2>1. /\ pass.pc = "fresh"
          /\ pass' = [pass EXCEPT !.pc = "ready", !.kind = "live", !.paused = ~pass.now.run,
                                  !.want = pass.now, !.base = pass.now.policy]
      BY <1>4 DEF Authority!UseFresh
    <2>2. pass'.pc = "ready" /\ pass'.want = pass.now /\ pass'.adm = pass.adm
      BY <1>t, <2>1 DEF Authority!Pass
    <2>3. ReadInv' BY <1>1, <2>1, <2>2 DEF AuthorityInv, ReadInv
    <2> QED BY <1>2, <2>2, <2>3 DEF AuthorityInv, OfferInv, Offering, SendInv
  <1>5. CASE Authority!UseCached /\ pass' # Authority!IdlePass
    <2>1. pass' = [Authority!onCache(pass) EXCEPT !.pc = "ready", !.base = rt.applied] BY <1>5
        DEF Authority!UseCached
    <2>2. Authority!onCache(pass) \in Authority!Pass /\ Authority!onCache(pass).kind = "cached" BY <1>t,
        CacheType DEF Authority!onCache, Authority!Pass
    <2>3. pass'.pc = "ready" /\ pass'.kind = "cached" BY <2>1, <2>2 DEF Authority!Pass
    <2> QED BY <1>2, <2>3 DEF AuthorityInv, ReadInv, OfferInv, Offering, SendInv
  <1>6. CASE Authority!BeginStep
    <2>1. pass.pc = "ready" /\ pass' = [pass EXCEPT !.pc = "resolve", !.used = pass.kind = "cached"]
      BY <1>6 DEF Authority!BeginStep
    <2>2. pass'.pc = "resolve" /\ pass'.want = pass.want /\ pass'.kind = pass.kind /\ pass'.adm = pass.adm
      BY <1>t, <2>1 DEF Authority!Pass
    <2>3. ReadInv' BY <1>1, <2>1, <2>2 DEF AuthorityInv, ReadInv
    <2> QED BY <1>2, <2>2, <2>3 DEF AuthorityInv, OfferInv, Offering, SendInv
  <1> QED BY <1>3, <1>4, <1>5, <1>6

LEMMA ReportsInv ==
  ASSUME Authority!TypeOK, Authority!TypeOK', AuthorityInv, Reports PROVE AuthorityInv'
  <1>t. pass \in Authority!Pass /\ rt \in Authority!Memory BY DEF Authority!TypeOK
  <1>1. CASE Authority!RetryReport
    <2>1. UNCHANGED seen BY <1>1 DEF Authority!RetryReport
    <2>2. \/ rt' = rt \/ rt' = [rt EXCEPT !.pend = Authority!NoReport] \/ rt' = Authority!lose(rt)
      BY <1>1 DEF Authority!RetryReport
    <2>3. rt'.held \/ (rt'.held = rt.held /\ rt'.applied = rt.applied)
      BY <1>t, <2>2 DEF Authority!lose, Authority!Memory
    <2>4. CacheInv' BY <2>1, <2>3, CacheKept, HeldInv
    <2>5. CASE pass' = [Authority!onCache(pass) EXCEPT !.pc = "resolve", !.used = TRUE]
      <3>1. Authority!onCache(pass) \in Authority!Pass /\ Authority!onCache(pass).kind = "cached" BY <1>t,
          CacheType DEF Authority!onCache, Authority!Pass
      <3>2. pass'.pc = "resolve" /\ pass'.kind = "cached" BY <2>5, <3>1 DEF Authority!Pass
      <3> QED BY <2>4, <3>2 DEF AuthorityInv, ReadInv, OfferInv, Offering, SendInv
    <2>6. pass' = Authority!IdlePass \/ pass' = [Authority!onCache(pass) EXCEPT !.pc = "resolve",
          !.used = TRUE]
      BY <1>1 DEF Authority!RetryReport
    <2> QED BY <2>4, <2>5, <2>6, IdleInv
  <1>2. CASE Authority!Publish
    <2> DEFINE said == [applied |-> role.applied, open |-> role.open]
    <2>1. UNCHANGED seen /\ pass' = Authority!IdlePass BY <1>2 DEF Authority!Publish
    <2>2. \/ rt' = [rt EXCEPT !.pend = said] \/ rt' = [rt EXCEPT !.pend = Authority!NoReport]
          \/ rt' = Authority!lose([rt EXCEPT !.pend = said])
      BY <1>2 DEF Authority!Publish
    <2> HIDE DEF said
    <2>3. rt'.held \/ (rt'.held = rt.held /\ rt'.applied = rt.applied)
      BY <1>t, <2>2 DEF Authority!lose, Authority!Memory
    <2>4. CacheInv' BY <2>1, <2>3, CacheKept, HeldInv
    <2> QED BY <2>1, <2>4, IdleInv
  <1> QED BY <1>1, <1>2 DEF Reports

\* Steps that end in a report, or in an exit.
LEMMA EndsInv ==
  ASSUME Authority!TypeOK, Authority!TypeOK', AuthorityInv,
         Authority!Observe \/ Authority!StepPaused \/ Authority!NoOffer \/ Authority!Submit
             \/ Authority!ExitUnadmitted
  PROVE  AuthorityInv'
  <1>t. pass \in Authority!Pass BY DEF Authority!TypeOK
  <1>1. UNCHANGED <<rt, seen>> BY DEF Authority!Observe, Authority!StepPaused, Authority!NoOffer,
      Authority!Submit, Authority!ExitUnadmitted
  <1>2. CacheInv' BY <1>1, CacheKept
  <1>3. pass' = [pass EXCEPT !.pc = "report"] \/ pass' = [Authority!IdlePass EXCEPT !.pc = "exit"]
    BY DEF Authority!Observe, Authority!StepPaused, Authority!NoOffer, Authority!Submit,
        Authority!ExitUnadmitted, Authority!Stepped
  <1>4. pass'.pc \in {"report", "exit"} BY <1>t, <1>3, AuthorityConstants DEF Authority!Pass
  <1> QED BY <1>2, <1>4, ReportInv

\* A pass that offers under the cache, or asks it once more.
LEMMA OnCacheInv ==
  ASSUME Authority!TypeOK, AuthorityInv, UNCHANGED <<rt, seen, role>>, Authority!cachedSnapshot(role.applied),
         NEW pc \in {"offer", "again"},
         pass' = [Authority!onCache(pass) EXCEPT !.pc = pc, !.used = TRUE]
  PROVE  AuthorityInv'
  <1>1. pass \in Authority!Pass BY DEF Authority!TypeOK
  <1>2. Authority!onCache(pass) \in Authority!Pass /\ Authority!onCache(pass).kind = "cached" BY <1>1,
      CacheType DEF Authority!onCache, Authority!Pass
  <1>3. pass'.pc = pc /\ pass'.kind = "cached" BY <1>2 DEF Authority!Pass
  <1>4. CacheInv' BY CacheKept
  <1> QED BY <1>3, <1>4 DEF AuthorityInv, ReadInv, OfferInv, Offering, SendInv, Authority!cachedSnapshot

\* What a read of dependencies changes.
LEMMA LearnFields ==
  ASSUME Authority!TypeOK, NEW q \in PolicyIds, seen' = Authority!learn(q)
  PROVE  /\ seen'.run = seen.run /\ seen'.del = seen.del /\ seen'.source = seen.source
         /\ seen'.inputs[q] = (Authority!answers(q) = "ok")
         /\ \A p \in PolicyIds : p # q => seen'.inputs[p] = seen.inputs[p]
  BY DEF Authority!TypeOK, Authority!learn, Authority!Seen

LEMMA ResolveInv ==
  ASSUME Authority!Bounds, Authority!TypeOK, Authority!TypeOK', AuthorityInv, Authority!ResolveLive
         \/ Authority!ResolveCached
  PROVE  AuthorityInv'
  <1>t. /\ pass \in Authority!Pass /\ rt \in Authority!Memory /\ role \in Authority!Role
           /\ rt.applied \in PolicyIds \cup {Authority!None}
        /\ pass.want.policy \in PolicyIds \cup {Authority!None} /\ pass.used \in BOOLEAN
    BY DEF Authority!TypeOK, Authority!Memory, Authority!Pass, Authority!Control
  <1>1. CASE Authority!ResolveCached
    <2>1. UNCHANGED <<rt, seen, role>> /\ pass.kind = "cached" BY <1>1 DEF Authority!ResolveCached
    <2>2. CacheInv' BY <2>1, CacheKept
    <2>3. \/ /\ pass' = [pass EXCEPT !.pc = "offer"] /\ rt.applied = role.applied
                /\ rt.applied # Authority!None
          \/ pass' = [pass EXCEPT !.pc = "report"]
      BY <1>1 DEF Authority!ResolveCached, Authority!Stepped
    <2>4. CASE pass' = [pass EXCEPT !.pc = "offer"] /\ rt.applied = role.applied
          /\ rt.applied # Authority!None
      <3>1. pass'.pc = "offer" /\ pass'.kind = "cached" BY <1>t, <2>1, <2>4 DEF Authority!Pass
      <3> QED BY <2>1, <2>2, <2>4, <3>1 DEF AuthorityInv, ReadInv, OfferInv, Offering, SendInv
    <2>5. CASE pass' = [pass EXCEPT !.pc = "report"]
      <3>1. pass'.pc = "report" BY <1>t, <2>5 DEF Authority!Pass
      <3> QED BY <2>2, <3>1, ReportInv
    <2> QED BY <2>3, <2>4, <2>5
  <1>2. CASE Authority!ResolveLive
    <2> DEFINE q == pass.want.policy
    <2>1. /\ pass.pc = "resolve" /\ pass.kind = "live"
          /\ \/ /\ Authority!answers(q) = "ok" /\ seen' = Authority!learn(q)
                /\ role' = [role EXCEPT !.applied = q, !.cached = q]
                /\ \/ pass.adm # "ok" /\ rt' = rt
                   \/ pass.adm = "ok" /\ rt' = [rt EXCEPT !.applied = q,
                      !.held = ~Authority!controlAllows(pass.want)]
                /\ pass' = [pass EXCEPT !.pc = "offer"]
             \/ /\ Authority!answers(q) = "denied" /\ seen' = Authority!learn(q)
                /\ rt' = [rt EXCEPT !.held = TRUE] /\ pass' = [pass EXCEPT !.pc = "report"]
             \/ /\ UNCHANGED <<seen, rt, role>>
                /\ \/ /\ Authority!cachedSnapshot(role.applied)
                      /\ pass' = [Authority!onCache(pass) EXCEPT !.pc = "offer", !.used = TRUE]
                   \/ pass' = [[pass EXCEPT !.used = @
                      \/ Authority!cachedSnapshot(role.applied)] EXCEPT !.pc = "report"]
      BY <1>2 DEF Authority!ResolveLive, Authority!Stepped
    <2>2. /\ q # Authority!None /\ seen.run = pass.want.run /\ seen.del = pass.want.del
          /\ pass.adm = "ok" => seen.source
      BY <2>1 DEF AuthorityInv, ReadInv
    <2>3. q \in PolicyIds BY <1>t, <2>2
    <2> HIDE DEF q
    <2>4. CASE /\ Authority!answers(q) = "ok" /\ seen' = Authority!learn(q)
               /\ role' = [role EXCEPT !.applied = q, !.cached = q]
               /\ \/ pass.adm # "ok" /\ rt' = rt
                  \/ pass.adm = "ok" /\ rt' = [rt EXCEPT !.applied = q,
                     !.held = ~Authority!controlAllows(pass.want)]
               /\ pass' = [pass EXCEPT !.pc = "offer"]
      <3>1. pass'.pc = "offer" /\ pass'.kind = "live" /\ pass'.want = pass.want BY <1>t, <2>1, <2>4
          DEF Authority!Pass
      <3>2. /\ seen'.run = seen.run /\ seen'.del = seen.del /\ seen'.source = seen.source
            /\ seen'.inputs[q] /\ \A p \in PolicyIds : p # q => seen'.inputs[p] = seen.inputs[p]
        BY <2>3, <2>4, LearnFields
      <3>3. CacheInv'
        <4>1. CASE rt' = rt BY <1>t, <3>2, <4>1 DEF AuthorityInv, CacheInv, Clear
        <4>2. CASE /\ pass.adm = "ok"
                   /\ rt' = [rt EXCEPT !.applied = q, !.held = ~Authority!controlAllows(pass.want)]
          <5>1. rt'.applied = q /\ (rt'.held \/ (pass.want.run /\ ~pass.want.del))
            BY <1>t, <4>2 DEF Authority!Memory, Authority!controlAllows
          <5> QED BY <2>2, <3>2, <4>2, <5>1 DEF CacheInv, Clear
        <4> QED BY <2>4, <4>1, <4>2
      <3>4. pass'.want.policy # Authority!None BY <2>2, <3>1 DEF q
      <3> QED BY <3>1, <3>3, <3>4 DEF AuthorityInv, ReadInv, OfferInv, Offering, SendInv
    <2>5. CASE rt' = [rt EXCEPT !.held = TRUE] /\ pass' = [pass EXCEPT !.pc = "report"]
      <3>1. rt'.held /\ pass'.pc = "report" BY <1>t, <2>5 DEF Authority!Memory, Authority!Pass
      <3> QED BY <3>1, HeldInv, ReportInv
    <2>6. CASE UNCHANGED <<seen, rt, role>> /\ Authority!cachedSnapshot(role.applied)
               /\ pass' = [Authority!onCache(pass) EXCEPT !.pc = "offer", !.used = TRUE]
      BY <2>6, OnCacheInv
    <2>7. CASE UNCHANGED <<seen, rt, role>>
               /\ pass' = [[pass EXCEPT !.used = @
                  \/ Authority!cachedSnapshot(role.applied)] EXCEPT !.pc = "report"]
      <3>1. PICK b \in BOOLEAN : b = (pass.used \/ Authority!cachedSnapshot(role.applied)) OBVIOUS
      <3>2. pass' = [[pass EXCEPT !.used = b] EXCEPT !.pc = "report"] BY <2>7, <3>1
      <3>3. pass'.pc = "report" BY <1>t, <3>2 DEF Authority!Pass
      <3> QED BY <2>7, <3>3, CacheKept, ReportInv
    <2> QED BY <2>1, <2>4, <2>5, <2>6, <2>7
  <1> QED BY <1>1, <1>2

LEMMA OfferedType ==
  ASSUME Authority!TypeOK, OfferInv, Offering PROVE Authority!offered \in PolicyIds
  BY DEF Authority!TypeOK, OfferInv, Authority!offered, Authority!Memory, Authority!Pass, Authority!Control

\* The cache authorizes: nothing that was read last forbids the submission, and the
\* dependencies of its policy answered when they were read last.
LEMMA EligibleIsClear ==
  ASSUME AuthorityInv, NEW q, Authority!cacheEligible(q) PROVE Clear /\ seen.inputs[q]
  BY DEF AuthorityInv, CacheInv, Authority!cacheEligible, Authority!cachedSnapshot

\* The submission is refused, and the cache is as it was or held.
LEMMA RefuseInv ==
  ASSUME Authority!TypeOK, AuthorityInv, pass'.pc = "report",
         rt' = [rt EXCEPT !.held = TRUE] \/ (rt' = rt /\ UNCHANGED seen)
  PROVE  AuthorityInv'
  <1>1. rt \in Authority!Memory BY DEF Authority!TypeOK
  <1>2. CacheInv'
    <2>1. CASE rt' = [rt EXCEPT !.held = TRUE]
      <3>1. rt'.held BY <1>1, <2>1 DEF Authority!Memory
      <3> QED BY <3>1, HeldInv
    <2> QED BY <2>1, CacheKept
  <1> QED BY <1>2, ReportInv

LEMMA Refused ==
  ASSUME Authority!TypeOK, Authority!Refuse PROVE pass'.pc = "report"
  BY DEF Authority!TypeOK, Authority!Refuse, Authority!Pass

\* The submission is confirmed: it may be checked once more, or sent.
LEMMA ConfirmInv ==
  ASSUME Authority!TypeOK, AuthorityInv, Offering, UNCHANGED <<rt, role>>, CacheInv', Clear',
         seen'.inputs[Authority!offered],
         \E pc \in {"recheck", "send"} : pass' = [pass EXCEPT !.pc = pc]
  PROVE  AuthorityInv'
  <1>1. pass \in Authority!Pass BY DEF Authority!TypeOK
  <1>2. pass'.pc \in {"recheck", "send"} /\ pass'.kind = pass.kind /\ pass'.want = pass.want
    BY <1>1 DEF Authority!Pass
  <1>3. OfferInv' BY <1>2 DEF AuthorityInv, OfferInv
  <1>4. Authority!offered' = Authority!offered BY <1>2 DEF Authority!offered
  <1> QED BY <1>2, <1>3, <1>4 DEF AuthorityInv, ReadInv, SendInv

LEMMA Confirmed ==
  ASSUME Authority!Confirm PROVE \E pc \in {"recheck", "send"} : pass' = [pass EXCEPT !.pc = pc]
  BY DEF Authority!Confirm

\* The cache confirms it.
LEMMA EligibleInv ==
  ASSUME Authority!TypeOK, AuthorityInv, Offering, UNCHANGED <<rt, seen, role>>,
         Authority!cacheEligible(Authority!offered), Authority!Confirm
  PROVE  AuthorityInv'
  <1>1. Clear /\ seen.inputs[Authority!offered] BY EligibleIsClear
  <1>2. Clear' /\ CacheInv' BY <1>1, CacheKept DEF Clear
  <1> QED BY <1>1, <1>2, Confirmed, ConfirmInv

\* The dependencies of the policy answer.
LEMMA AnsweredInv ==
  ASSUME Authority!TypeOK, AuthorityInv, Offering, Clear, UNCHANGED <<rt, role>>,
         Authority!answers(Authority!offered) = "ok", seen' = Authority!learn(Authority!offered),
         \E pc \in {"recheck", "send"} : pass' = [pass EXCEPT !.pc = pc]
  PROVE  AuthorityInv'
  <1>t. rt.applied \in PolicyIds \cup {Authority!None} BY DEF Authority!TypeOK, Authority!Memory
  <1>1. PICK q \in PolicyIds : q = Authority!offered BY OfferedType DEF AuthorityInv
  <1>2. /\ seen'.run = seen.run /\ seen'.del = seen.del /\ seen'.source = seen.source
        /\ seen'.inputs[q] /\ \A p \in PolicyIds : p # q => seen'.inputs[p] = seen.inputs[p]
    BY <1>1, LearnFields
  <1>3. Clear' BY <1>2 DEF Clear
  <1>4. CacheInv' BY <1>t, <1>2, <1>3 DEF AuthorityInv, CacheInv
  <1> QED BY <1>1, <1>2, <1>3, <1>4, ConfirmInv

LEMMA AuthorizeInv ==
  ASSUME Authority!TypeOK, Authority!TypeOK', AuthorityInv, Authority!AuthorizeLost
         \/ Authority!AuthorizeChanged \/ Authority!AuthorizeUnsure
  PROVE  AuthorityInv'
  <1>1. Offering BY DEF Authority!AuthorizeLost, Authority!AuthorizeChanged, Authority!AuthorizeUnsure,
      Offering
  <1>2. UNCHANGED <<seen, role>> BY DEF Authority!AuthorizeLost, Authority!AuthorizeChanged,
      Authority!AuthorizeUnsure
  <1>3. \/ rt' = rt /\ Authority!cacheEligible(Authority!offered) /\ Authority!Confirm
        \/ Authority!Refuse /\ (rt' = rt \/ rt' = [rt EXCEPT !.held = TRUE])
    BY DEF Authority!AuthorizeLost, Authority!AuthorizeChanged, Authority!AuthorizeUnsure
  <1> QED BY <1>1, <1>2, <1>3, EligibleInv, Refused, RefuseInv

LEMMA PrerequisitesInv ==
  ASSUME Authority!TypeOK, Authority!TypeOK', AuthorityInv, Authority!Prerequisites PROVE AuthorityInv'
  <1>1. pass.pc = "prereq" /\ Authority!controlAllows(pass.now) /\ pass.adm = "ok" /\ UNCHANGED role
    BY DEF Authority!Prerequisites
  <1>2. Offering BY <1>1 DEF Offering
  <1>3. Clear BY <1>1 DEF AuthorityInv, ReadInv, Clear, Authority!controlAllows
  <1>4. \/ /\ Authority!answers(Authority!offered) = "ok" /\ seen' = Authority!learn(Authority!offered)
           /\ rt' = rt /\ Authority!Confirm
        \/ rt' = [rt EXCEPT !.held = TRUE] /\ Authority!Refuse
        \/ UNCHANGED <<rt, seen>> /\ Authority!cacheEligible(Authority!offered) /\ Authority!Confirm
    BY DEF Authority!Prerequisites
  <1> QED BY <1>1, <1>2, <1>3, <1>4, AnsweredInv, Confirmed, EligibleInv, Refused, RefuseInv

LEMMA RecheckInv ==
  ASSUME Authority!TypeOK, Authority!TypeOK', AuthorityInv, Authority!Recheck PROVE AuthorityInv'
  <1>t. pass \in Authority!Pass BY DEF Authority!TypeOK
  <1>1. Offering /\ Clear BY DEF Authority!Recheck, Offering, AuthorityInv, SendInv
  <1>2. \/ /\ Authority!answers(Authority!offered) = "ok" /\ seen' = Authority!learn(Authority!offered)
           /\ UNCHANGED <<rt, role>> /\ pass' = [pass EXCEPT !.pc = "send"]
        \/ rt' = [rt EXCEPT !.held = TRUE] /\ Authority!Refuse
        \/ /\ UNCHANGED <<rt, seen, role>> /\ Authority!cachedSnapshot(role.applied)
           /\ pass' = [Authority!onCache(pass) EXCEPT !.pc = "again", !.used = TRUE]
        \/ /\ UNCHANGED <<rt, seen>>
           /\ pass' = [[pass EXCEPT !.used = @ \/ Authority!cachedSnapshot(role.applied)]
                      EXCEPT !.pc = "report"]
    BY DEF Authority!Recheck, Authority!Stepped
  <1>3. CASE /\ UNCHANGED <<rt, seen>>
             /\ pass' = [[pass EXCEPT !.used = @ \/ Authority!cachedSnapshot(role.applied)]
                      EXCEPT !.pc = "report"]
    <2>1. PICK b \in BOOLEAN : b = (pass.used \/ Authority!cachedSnapshot(role.applied)) OBVIOUS
    <2>2. pass' = [[pass EXCEPT !.used = b] EXCEPT !.pc = "report"] BY <1>3, <2>1
    <2>3. pass'.pc = "report" BY <1>t, <2>2 DEF Authority!Pass
    <2> QED BY <1>3, <2>3, RefuseInv
  <1> QED BY <1>1, <1>2, <1>3, AnsweredInv, OnCacheInv, Refused, RefuseInv

LEMMA AuthorityStep ==
  ASSUME Authority!Bounds, Authority!TypeOK, Authority!TypeOK', AuthorityInv,
         [Authority!Next]_(Authority!vars)
  PROVE  AuthorityInv'
  <1>1. CASE UNCHANGED Authority!vars BY <1>1, EditsInv DEF Authority!vars
  <1>2. CASE Edits BY <1>2, EditsType, EditsInv
  <1> QED BY <1>1, <1>2, ReadRootInv, ReadParticipantInv, ReadSourceInv, UseInv, ReportsInv, EndsInv,
             ResolveInv, AuthorizeInv, PrerequisitesInv, RecheckInv DEF Authority!Next, Edits, Reports

-----------------------------------------------------------------------------
(* The theorems *)

LEMMA AuthorityInitially ==
  ASSUME Authority!Bounds, Authority!Init PROVE Authority!TypeOK /\ AuthorityInv
  <1>0. Authority!Init /\ Authority!Bounds /\ budget \in AuthorityCases
        /\ (\A b \in AuthorityCases : b \in [Authority!Kinds -> Nat])
    BY DEF Authority!Init, Authority!Bounds
  <1>1. Authority!TypeOK
    <2>1. /\ root \in [run : BOOLEAN, gen : Nat] /\ source \in BOOLEAN
          /\ part \in [del : BOOLEAN, policy : PolicyIds, exec : Authority!Report]
      BY <1>0, AuthorityConstants DEF Authority!Init, Authority!Bounds
    <2>2. inputs \in [PolicyIds -> BOOLEAN] BY DEF Authority!Init
    <2>3. grants \subseteq PolicyIds /\ sup \subseteq PolicyIds BY <1>0 DEF Authority!Init, Authority!Bounds
    <2>4. rt \in Authority!Memory /\ role \in Authority!Role BY AuthorityConstants DEF Authority!Init,
        Authority!Memory, Authority!Role
    <2>5. pass \in Authority!Pass BY AuthorityConstants DEF Authority!Init
    <2>6. seen \in Authority!Seen BY <2>2 DEF Authority!Init, Authority!Seen
    <2>7. sent \in 0..AuthoritySent BY <1>0 DEF Authority!Init, Authority!Bounds
    <2>8. budget \in [Authority!Kinds -> Nat] BY <1>0, Zenon
    <2> QED BY <2>1, <2>2, <2>3, <2>4, <2>5, <2>6, <2>7, <2>8 DEF Authority!TypeOK
  <1>2. pass.pc = "idle" /\ rt.applied = Authority!None BY DEF Authority!Init, Authority!IdlePass
  <1> QED BY <1>1, <1>2 DEF AuthorityInv, CacheInv, ReadInv, OfferInv, Offering, SendInv

\* The invariant says that nothing read last forbids what is about to be sent.
LEMMA SubmissionAuthorised ==
  ASSUME Authority!TypeOK, AuthorityInv PROVE Authority!SubmissionsAuthorised
  <1> SUFFICES ASSUME pass.pc = "send" PROVE Authority!SubmissionsAuthorised
    BY DEF Authority!SubmissionsAuthorised
  <1>1. Offering BY DEF Offering
  <1>2. Authority!offered # Authority!None BY <1>1 DEF AuthorityInv, OfferInv, Authority!offered
  <1> QED BY <1>1, <1>2 DEF AuthorityInv, OfferInv, SendInv, Clear, Authority!SubmissionsAuthorised

\* Root, participant, grants, the memory of the process and its pass keep their types, for
\* any set of policies and any budget of faults.
THEOREM AuthorityTypes == Authority!Spec => []Authority!TypeOK
  <1>1. Authority!Init => Authority!TypeOK BY NetworkAssumption, AuthorityInitially
  <1>2. Authority!TypeOK /\ [Authority!Next]_(Authority!vars) => Authority!TypeOK' BY NetworkAssumption,
      AuthorityTypeStep
  <1> QED BY <1>1, <1>2, PTL DEF Authority!Spec

\* Whatever reads fail, and whatever is edited, denied or removed meanwhile, nothing that the
\* process has read last forbids the submission it makes: neither root nor participant nor
\* source nor the dependencies of the policy that is carried out, which was validated live.
\* That holds as well of a submission authorized on the cache alone, in an outage that began
\* after its bytes were prepared (cachedSnapshot, cacheEligible and cacheHeld of outage.go,
\* authorizeInvocation, TransferRole.authorize).
THEOREM AuthorityTheorem == Authority!Spec => []Authority!SubmissionsAuthorised
  <1>1. Authority!Init => Authority!TypeOK /\ AuthorityInv BY NetworkAssumption, AuthorityInitially
  <1>2. Authority!TypeOK /\ AuthorityInv /\ [Authority!Next]_(Authority!vars)
        => (Authority!TypeOK /\ AuthorityInv)'
    BY NetworkAssumption, AuthorityTypeStep, AuthorityStep
  <1>3. Authority!TypeOK /\ AuthorityInv => Authority!SubmissionsAuthorised BY SubmissionAuthorised
  <1> QED BY <1>1, <1>2, <1>3, PTL DEF Authority!Spec

-----------------------------------------------------------------------------
(* The health of a network *)


USE DEF Health!world

-----------------------------------------------------------------------------
(* The inductive invariant *)

\* What the actors of a copy report was observed, and is no higher than the chain.
Observed(p) ==
    \A s \in Health!Sources : /\ <<p.actor[s].of, p.actor[s].height, p.actor[s].at>> \in seen
                              /\ p.actor[s].height <= chain

Attributed(e) == e.at # 0 => <<e.of, e.height, e.at>> \in seen

ObservedInv ==
    /\ Observed(srv.parts) /\ Attributed(srv.exe)
    /\ Observed(cache.parts) /\ Attributed(cache.exe)
    /\ pass.pc \in {"project", "validate"} => Observed(pass.got)

Sampled(r) == r.bitcoin \in seen \cup {Health!NoSample} /\ r.miner \in seen \cup {Health!NoSample}

SampleInv == Sampled(root) /\ (pass.pc # "idle" => Sampled(pass.root))

\* A copy is no later than the original, and the transfers only go up.
TransferInv ==
    /\ srv.parts.tx.submitted <= chain
    /\ cache.parts.tx.submitted <= srv.parts.tx.submitted
    /\ pass.pc \in {"project", "validate"} => pass.got.tx.submitted <= srv.parts.tx.submitted

\* What the pass is about to publish of Initialized.
InitializedInv ==
    /\ pass.pc = "project" => pass.root = pass.base
    /\ pass.pc # "idle" =>
         /\ pass.base.initialized => pass.root.initialized
         /\ pass.root.initialized /\ ~pass.base.initialized => srv.parts.tx.submitted >= Boundary

\* A root that may be called operational.
Operable(r) ==
    /\ r.op = "Running" /\ ~r.failed /\ r.initialized
    /\ r.control \cap {Health!Prod, Health!Tx} = {} /\ ~(Miners \subseteq r.control)

\* What the pass is about to publish of Operational.
OperationInv ==
    /\ pass.pc \in {"project", "validate"} => srv.over \in pass.timing
    /\ pass.pc \in {"validate", "write"} /\ pass.root.oper = "True" => Operable(pass.root)
    /\ pass.pc = "write" /\ pass.root.oper = "True" => pass.got.over \in pass.timing

HealthInv == Health!TypeOK /\ ObservedInv /\ SampleInv /\ TransferInv /\ InitializedInv /\ OperationInv

-----------------------------------------------------------------------------
(* Samples *)

LEMMA Least ==
  ASSUME NEW S, S \subseteq Nat, S # {}
  PROVE  \E n \in S : \A k \in S : n <= k
  <1>1. PICK n \in S : \A k \in S : ~(<<k, n>> \in OpToRel(<, Nat))
    BY NatLessThanWellFounded, WFMin
  <1>2. \A k \in S : ~(k < n) BY <1>1 DEF OpToRel
  <1> QED BY <1>2

\* Heights that the chain bounds have a greatest one, and its least UID.
LEMMA Greatest ==
  ASSUME NEW S, S \subseteq Nat \X Nat \X Nat, S # {}, NEW h \in Nat, \A s \in S : s[2] <= h
  PROVE  \E s \in S : \A t \in S : s[2] > t[2] \/ (s[2] = t[2] /\ s[1] <= t[1])
  <1> DEFINE D == {h - s[2] : s \in S}
  <1>1. D \subseteq Nat /\ D # {} OBVIOUS
  <1>2. PICK d \in D : \A k \in D : d <= k BY <1>1, Least
  <1>3. PICK u \in S : d = h - u[2] BY <1>2
  <1>4. ASSUME NEW t \in S PROVE t[2] <= u[2]
    <2>1. h - t[2] \in D OBVIOUS
    <2>2. d <= h - t[2] BY <2>1, <1>2
    <2>3. t[2] \in Nat /\ u[2] \in Nat OBVIOUS
    <2> HIDE DEF D
    <2> QED BY <2>2, <2>3, <1>3
  <1> DEFINE P == {s[1] : s \in {t \in S : t[2] = u[2]}}
  <1>5. P \subseteq Nat /\ P # {} OBVIOUS
  <1>6. PICK p \in P : \A k \in P : p <= k BY <1>5, Least
  <1>7. PICK s \in S : s[2] = u[2] /\ s[1] = p BY <1>6
  <1>8. \A t \in S : t[2] = u[2] => s[1] <= t[1] BY <1>6, <1>7
  <1> QED BY <1>4, <1>7, <1>8

LEMMA GreatestSample ==
  ASSUME NEW S, S \subseteq Nat \X Nat \X Nat, NEW h \in Nat, \A s \in S : s[2] <= h
  PROVE  Health!greatestSample(S) \in S \cup {Health!NoSample}
  <1>1. CASE S = {} BY <1>1 DEF Health!greatestSample
  <1>2. CASE S # {}
    <2>1. \E s \in S : \A t \in S : s[2] > t[2] \/ (s[2] = t[2] /\ s[1] <= t[1]) BY <1>2, Greatest
    <2>2. (CHOOSE s \in S : \A t \in S : s[2] > t[2] \/ (s[2] = t[2] /\ s[1] <= t[1])) \in S BY <2>1
    <2> QED BY <1>2, <2>2 DEF Health!greatestSample
  <1> QED BY <1>1, <1>2

LEMMA SampleType == Health!NoSample \in Health!Sample
    /\ \A S \in SUBSET (Nat \X Nat \X Nat) : S \cup {Health!NoSample} \subseteq Health!Sample
  BY DEF Health!Sample

LEMMA MinerSample ==
  ASSUME Health!TypeOK, NEW r \in Health!Root, NEW p \in Health!Parts, Observed(p)
  PROVE  Health!currentMinerSample(r, p) \in seen \cup {Health!NoSample}
  <1> DEFINE S == {<<p.actor[m].of, p.actor[m].height, p.actor[m].at>> :
                     m \in {m \in Miners : Health!current(p.actor[m]) /\ ~Health!controlled(r, p, m)}}
  <1>1. \A m \in Miners : m \in Health!Sources BY DEF Health!Sources
  <1>2. S \subseteq seen BY <1>1 DEF Observed
  <1>3. S \subseteq Nat \X Nat \X Nat BY <1>2 DEF Health!TypeOK
  <1>4. \A s \in S : s[2] <= chain BY <1>1 DEF Observed
  <1>5. chain \in Nat BY DEF Health!TypeOK
  <1>6. Health!currentMinerSample(r, p) = Health!greatestSample(S) BY DEF Health!currentMinerSample
  <1> HIDE DEF S
  <1> QED BY <1>2, <1>3, <1>4, <1>5, <1>6, GreatestSample

LEMMA BitcoinSample ==
  ASSUME Health!TypeOK, NEW p \in Health!Parts, NEW e \in Health!Exe, Attributed(e)
  PROVE  Health!currentBitcoinSample(p, e) \in seen \cup {Health!NoSample}
  BY DEF Health!currentBitcoinSample, Attributed, Health!fresh

LEMMA Retained ==
  ASSUME NEW S, NEW a \in S, NEW b \in S
  PROVE  Health!retainHeightSample(a, b) \in S
  BY DEF Health!retainHeightSample

-----------------------------------------------------------------------------
(* What a pass makes of its copies *)

LEMMA Predicates ==
  ASSUME NEW S
  PROVE  /\ Health!combinePredicates(S) \in {"True", "False", "Unknown"}
         /\ Health!combinePredicates(S) = "True" => "False" \notin S /\ "Unknown" \notin S
  BY DEF Health!combinePredicates

LEMMA BitcoinTrue ==
  ASSUME NEW r, NEW p, Health!bitcoinOperational(r, p) \notin {"False", "Unknown"}
  PROVE  Health!bitcoinOperational(r, p) = "True" /\ Health!Prod \notin r.control
  BY DEF Health!bitcoinOperational, Health!controlled

LEMMA MinerTrue ==
  ASSUME NEW r, NEW p, Health!minerOperational(r, p) \notin {"False", "Unknown"}
  PROVE  \E m \in Miners : m \notin r.control
  BY DEF Health!minerOperational, Health!controlled

LEMMA TrafficTrue ==
  ASSUME NEW r, NEW p, Health!trafficOperational(r, p) \notin {"False", "Unknown"}
  PROVE  Health!Tx \notin r.control
  BY DEF Health!trafficOperational, Health!controlled

LEMMA Projected ==
  ASSUME Health!TypeOK, NEW q \in Health!Root, NEW p \in Health!Parts, NEW e \in Health!Exe,
         Observed(p), Attributed(e), Sampled(q), NEW r, r = Health!projected(q, p, e)
  PROVE  /\ r \in Health!Root /\ Sampled(r) /\ r.op = q.op /\ r.failed = q.failed /\ r.control = q.control
         /\ q.initialized => r.initialized
         /\ r.initialized /\ ~q.initialized => p.tx.submitted >= Boundary
         /\ r.oper = "True" => /\ Health!assessed(r) /\ Health!bitcoinOperational(q, p) = "True"
                               /\ r.control \cap {Health!Prod, Health!Tx} = {}
                               /\ ~(Miners \subseteq r.control)
  <1>1. PICK b : b = Health!retainHeightSample(q.bitcoin, Health!currentBitcoinSample(p, e)) OBVIOUS
  <1>2. PICK m : m = Health!retainHeightSample(q.miner, Health!currentMinerSample(q, p)) OBVIOUS
  <1>3. b \in seen \cup {Health!NoSample} /\ m \in seen \cup {Health!NoSample}
    BY <1>1, <1>2, BitcoinSample, MinerSample, Retained DEF Sampled
  <1>4. b \in Health!Sample /\ m \in Health!Sample BY <1>3, SampleType DEF Health!TypeOK
  <1>5. PICK ph : ph = Health!knownPhase(q) OBVIOUS
  <1>6. ph \in {"Initializing", "Running", "Pausing"} BY <1>5 DEF Health!knownPhase
  <1>7. PICK s : s = [q EXCEPT !.phase = ph, !.oper = "False", !.bitcoin = b, !.miner = m] OBVIOUS
  <1>8. /\ s \in Health!Root /\ s.bitcoin = b /\ s.miner = m /\ s.oper = "False" /\ s.op = q.op
        /\ s.failed = q.failed /\ s.control = q.control /\ s.initialized = q.initialized
    BY <1>4, <1>6, <1>7 DEF Health!Root
  <1>9. PICK o : o = Health!combinePredicates({Health!bitcoinOperational(q, p), Health!minerOperational(q, p),
                                        Health!trafficOperational(q, p), Health!contractsOperational(q, p)})
    OBVIOUS
  <1>10. o \in {"True", "False", "Unknown"} BY <1>9, Predicates
  <1>11. o = "True" => /\ Health!bitcoinOperational(q, p) = "True"
                       /\ q.control \cap {Health!Prod, Health!Tx} = {} /\ ~(Miners \subseteq q.control)
    <2> SUFFICES ASSUME o = "True"
                 PROVE  /\ Health!bitcoinOperational(q, p) = "True"
                        /\ q.control \cap {Health!Prod, Health!Tx} = {} /\ ~(Miners \subseteq q.control)
      OBVIOUS
    <2>1. /\ Health!bitcoinOperational(q, p) \notin {"False", "Unknown"}
          /\ Health!minerOperational(q, p) \notin {"False", "Unknown"}
          /\ Health!trafficOperational(q, p) \notin {"False", "Unknown"}
      BY <1>9, Predicates
    <2> QED BY <2>1, BitcoinTrue, MinerTrue, TrafficTrue
  <1>12. CASE ~q.initialized /\ ~(Health!trafficOperational(q, p) = "True" /\ Health!postWaterfallObserved(p))
    <2>1. r = s BY <1>1, <1>2, <1>5, <1>7, <1>12 DEF Health!projected
    <2> QED BY <2>1, <1>3, <1>8, <1>12 DEF Sampled
  <1>13. CASE q.initialized \/ (Health!trafficOperational(q, p) = "True" /\ Health!postWaterfallObserved(p))
    <2>1. ~q.initialized => p.tx.submitted >= Boundary BY <1>13 DEF Health!postWaterfallObserved
    <2>2. CASE q.op # "Running"
      <3>1. r = [s EXCEPT !.initialized = TRUE] BY <1>1, <1>2, <1>5, <1>7, <1>13, <2>2 DEF Health!projected
      <3>2. /\ r \in Health!Root /\ r.bitcoin = b /\ r.miner = m /\ r.oper = "False" /\ r.op = q.op
            /\ r.failed = q.failed /\ r.control = q.control /\ r.initialized
        BY <3>1, <1>8 DEF Health!Root
      <3> QED BY <3>2, <1>3, <2>1 DEF Sampled
    <2>3. CASE q.op = "Running"
      <3>1. r = [s EXCEPT !.initialized = TRUE, !.phase = "Running", !.oper = o]
        BY <1>1, <1>2, <1>5, <1>7, <1>9, <1>13, <2>3 DEF Health!projected
      <3>2. /\ r \in Health!Root /\ r.bitcoin = b /\ r.miner = m /\ r.oper = o /\ r.op = q.op
            /\ r.failed = q.failed /\ r.control = q.control /\ r.initialized
        BY <3>1, <1>8, <1>10 DEF Health!Root
      <3> QED BY <3>2, <1>3, <1>11, <2>1, <2>3 DEF Sampled, Health!assessed
    <2> QED BY <2>2, <2>3
  <1> QED BY <1>12, <1>13

-----------------------------------------------------------------------------
(* Steps of a pass *)

LEMMA IdleFacts ==
  /\ Health!Idle.pc = "idle"
  /\ \A q \in Health!Projecting : q # Health!Idle /\ q.pc \in {"project", "validate"}
  /\ \A q \in Health!Writing : q # Health!Idle /\ q.pc = "write"
  BY DEF Health!Idle, Health!Projecting, Health!Writing

LEMMA Phases ==
  ASSUME Health!TypeOK
  PROVE  /\ pass.pc \in {"project", "validate"} => pass \in Health!Projecting
         /\ pass.pc = "write" => pass \in Health!Writing
         /\ pass.pc = "idle" => pass = Health!Idle
         /\ pass.pc # "idle" => pass.base \in Health!Root /\ pass.root \in Health!Root
  <1>1. pass = Health!Idle \/ pass \in Health!Projecting \/ pass \in Health!Writing BY DEF Health!TypeOK
  <1>2. CASE pass = Health!Idle BY <1>2, IdleFacts
  <1>3. CASE pass \in Health!Projecting BY <1>3, IdleFacts DEF Health!Projecting
  <1>4. CASE pass \in Health!Writing BY <1>4, IdleFacts DEF Health!Writing
  <1> QED BY <1>1, <1>2, <1>3, <1>4

\* A pass that ends leaves the rest as it is.
LEMMA IdleStep ==
  ASSUME HealthInv, UNCHANGED <<clock, chain, srv, cache, seen, budget>>, pass' = Health!Idle,
         root' \in Health!Root, Sampled(root')
  PROVE  HealthInv'
  <1> USE DEF HealthInv
  <1>1. pass'.pc = "idle" BY IdleFacts
  <1>2. Health!TypeOK' BY DEF Health!TypeOK
  <1>3. ObservedInv' BY <1>1 DEF ObservedInv, Observed, Attributed
  <1>4. SampleInv' BY <1>1 DEF SampleInv, Sampled
  <1>5. TransferInv' /\ InitializedInv' /\ OperationInv'
    BY <1>1 DEF TransferInv, InitializedInv, OperationInv
  <1> QED BY <1>2, <1>3, <1>4, <1>5

LEMMA FinishStep ==
  ASSUME HealthInv, UNCHANGED Health!world, pass.pc \in {"project", "validate"}, NEW r \in Health!Root,
         Health!Finish(r),
         Sampled(r), pass.base.initialized => r.initialized,
         r.initialized /\ ~pass.base.initialized => srv.parts.tx.submitted >= Boundary,
         r.oper = "True" => Operable(r) /\ pass.got.prod.over \in pass.timing
  PROVE  HealthInv'
  <1>1. CASE pass' = Health!Idle
    <2>1. root' \in Health!Root /\ root' = root BY DEF HealthInv, Health!TypeOK
    <2>2. Sampled(root) BY DEF HealthInv, SampleInv
    <2>3. Sampled(root') BY <2>1, <2>2 DEF Sampled
    <2> QED BY <1>1, <2>1, <2>3, IdleStep
  <1>2. CASE pass' = [pass EXCEPT !.pc = "write", !.root = r, !.got = [over |-> pass.got.prod.over],
                                  !.timing = IF r.oper = "True" THEN @ ELSE {}]
    <2> USE DEF HealthInv
    <2>1. pass \in Health!Projecting BY Phases
    <2>2. pass.got.prod.over \in BOOLEAN /\ pass.timing \in SUBSET BOOLEAN
      BY <2>1 DEF Health!Projecting, Health!Parts, Health!Production
    <2>3. PICK g : g = [over |-> pass.got.prod.over] OBVIOUS
    <2>4. g \in [over : BOOLEAN] /\ g.over = pass.got.prod.over BY <2>2, <2>3
    <2>5. PICK t : t = IF r.oper = "True" THEN pass.timing ELSE {} OBVIOUS
    <2>6. t \in SUBSET BOOLEAN BY <2>2, <2>5
    <2>7. pass' = [pass EXCEPT !.pc = "write", !.root = r, !.got = g, !.timing = t] BY <1>2, <2>3, <2>5
    <2>8. pass' \in Health!Writing BY <2>1, <2>4, <2>6, <2>7 DEF Health!Projecting, Health!Writing
    <2>9. /\ pass'.pc = "write" /\ pass'.base = pass.base /\ pass'.root = r /\ pass'.got = g
          /\ pass'.timing = t
      BY <2>1, <2>7 DEF Health!Projecting
    <2>10. Health!TypeOK' BY <2>8 DEF Health!TypeOK
    <2>11. ObservedInv' BY <2>9 DEF ObservedInv, Observed, Attributed
    <2>12. SampleInv' BY <2>9 DEF SampleInv, Sampled
    <2>13. TransferInv' BY <2>9 DEF TransferInv
    <2>14. InitializedInv' BY <2>9 DEF InitializedInv
    <2>15. OperationInv' BY <2>4, <2>5, <2>9 DEF OperationInv, Operable
    <2> QED BY <2>10, <2>11, <2>12, <2>13, <2>14, <2>15
  <1> QED BY <1>1, <1>2 DEF Health!Finish

LEMMA StartStep ==
  ASSUME HealthInv, Health!Start
  PROVE  HealthInv'
  <1> USE DEF HealthInv
  <1>1. UNCHANGED Health!world /\ pass' = [pc |-> "project", base |-> root, root |-> root,
        got |-> cache.parts,
                                           timing |-> {srv.over}]
    BY DEF Health!Start
  <1>2. root \in Health!Root /\ cache.parts \in Health!Parts /\ srv.over \in BOOLEAN BY DEF Health!TypeOK,
      Health!Server, Health!Cache
  <1>3. /\ pass'.pc = "project" /\ pass'.base = root /\ pass'.root = root /\ pass'.got = cache.parts
        /\ pass'.timing = {srv.over}
    BY <1>1
  <1>4. pass' \in Health!Projecting BY <1>1, <1>2 DEF Health!Projecting
  <1>5. Health!TypeOK' BY <1>1, <1>4 DEF Health!TypeOK
  <1>6. ObservedInv' BY <1>1, <1>3 DEF ObservedInv, Observed, Attributed
  <1>7. SampleInv' BY <1>1, <1>3 DEF SampleInv, Sampled
  <1>8. TransferInv' BY <1>1, <1>3 DEF TransferInv
  <1>9. InitializedInv' BY <1>1, <1>3 DEF InitializedInv
  <1>10. OperationInv' BY <1>1, <1>3 DEF OperationInv
  <1> QED BY <1>5, <1>6, <1>7, <1>8, <1>9, <1>10

LEMMA ProjectEndStep ==
  ASSUME HealthInv, Health!ProjectEnd
  PROVE  HealthInv'
  <1>1. pass.pc = "project" /\ UNCHANGED Health!world BY DEF Health!ProjectEnd
  <1>2. pass.root \in Health!Root /\ pass.root = pass.base BY <1>1, Phases DEF HealthInv, InitializedInv
  <1>3. PICK ph \in {"Stopping", "Failed"} :
          Health!Finish([Health!Withdrawn(pass.root) EXCEPT !.oper = "False", !.phase = ph])
    BY DEF Health!ProjectEnd
  <1>4. PICK q : q = Health!Withdrawn(pass.root) OBVIOUS
  <1>5. /\ q \in Health!Root /\ q.bitcoin = Health!NoSample /\ q.miner = Health!NoSample
           /\ q.initialized = pass.root.initialized
    BY <1>2, <1>4, SampleType DEF Health!Withdrawn, Health!Root
  <1>6. PICK r : r = [q EXCEPT !.oper = "False", !.phase = ph] OBVIOUS
  <1>7. /\ r \in Health!Root /\ r.bitcoin = Health!NoSample /\ r.miner = Health!NoSample
        /\ r.initialized = pass.base.initialized /\ r.oper = "False"
    BY <1>2, <1>5, <1>6 DEF Health!Root
  <1>8. Sampled(r) BY <1>7 DEF Sampled
  <1>9. Health!Finish(r) BY <1>3, <1>4, <1>6
  <1> QED BY <1>1, <1>7, <1>8, <1>9, FinishStep

LEMMA UnavailableStep ==
  ASSUME HealthInv, Health!Unavailable
  PROVE  HealthInv'
  <1>1. pass.pc = "project" /\ UNCHANGED Health!world BY DEF Health!Unavailable
  <1>2. pass.root \in Health!Root /\ pass.root = pass.base BY <1>1, Phases DEF HealthInv, InitializedInv
  <1>3. PICK phase \in {pass.root.phase, Health!knownPhase(pass.root)} :
          Health!Finish(Health!observationUnavailable(pass.root, phase))
    BY DEF Health!Unavailable
  <1>4. PICK Ph : Ph = {"Initializing", "Running", "Pausing", "Stopping", "Failed"} OBVIOUS
  <1>5. phase \in Ph BY <1>2, <1>4 DEF Health!Root, Health!knownPhase
  <1>6. PICK q : q = Health!Withdrawn(pass.root) OBVIOUS
  <1>7. /\ q \in Health!Root /\ q.bitcoin = Health!NoSample /\ q.miner = Health!NoSample
           /\ q.initialized = pass.root.initialized
        /\ q.phase \in Ph
    BY <1>2, <1>4, <1>6, SampleType DEF Health!Withdrawn, Health!Root
  <1>8. PICK r : r = Health!observationUnavailable(pass.root, phase) OBVIOUS
  <1>9. PICK ph \in Ph, op \in {"False", "Unknown"} : r = [q EXCEPT !.phase = ph, !.oper = op]
    <2>1. PICK ph \in Ph : ph = IF pass.root.op = "Stopped" THEN q.phase ELSE IF pass.root.failed THEN "Failed"
                  ELSE IF pass.root.op = "Running" /\ pass.root.initialized THEN "Running" ELSE phase
      BY <1>4, <1>5, <1>7
    <2>2. PICK op \in {"False", "Unknown"} :
            op = IF pass.root.op = "Running" /\ pass.root.initialized /\ ~pass.root.failed
                 THEN "Unknown" ELSE "False"
      OBVIOUS
    <2>3. r = [q EXCEPT !.phase = ph, !.oper = op] BY <1>6, <1>8, <2>1, <2>2 DEF Health!observationUnavailable
    <2> QED BY <2>3
  <1>10. /\ r \in Health!Root /\ r.bitcoin = Health!NoSample /\ r.miner = Health!NoSample
         /\ r.initialized = pass.base.initialized /\ r.oper # "True"
    BY <1>2, <1>4, <1>7, <1>9 DEF Health!Root
  <1>11. Sampled(r) BY <1>10 DEF Sampled
  <1> QED BY <1>1, <1>3, <1>8, <1>10, <1>11, FinishStep

LEMMA ProjectOperationStep ==
  ASSUME Health!Bounds, HealthInv, Health!ProjectOperation
  PROVE  HealthInv'
  <1>1. pass.pc = "project" /\ ~pass.root.failed /\ UNCHANGED Health!world BY DEF Health!ProjectOperation
  <1>2. pass \in Health!Projecting /\ pass.root \in Health!Root /\ pass.root = pass.base /\ Health!TypeOK
    BY <1>1, Phases DEF HealthInv, InitializedInv
  <1>3. PICK e \in {cache.exe, Health!NoExe} :
          LET r == Health!projected(pass.root, pass.got, e)
          IN  IF Health!assessed(r) /\ Health!bitcoinOperational(pass.root, pass.got) = "True"
              THEN pass' = [pass EXCEPT !.pc = "validate", !.root = r]
              ELSE Health!Finish(r)
    BY DEF Health!ProjectOperation
  <1>4. PICK r : r = Health!projected(pass.root, pass.got, e) OBVIOUS
  <1>5. e \in Health!Exe /\ Attributed(e)
    <2>1. Health!NoExe \in Health!Exe /\ Health!NoExe.at = 0 BY DEF Health!NoExe, Health!Exe
    <2>2. cache.exe \in Health!Exe BY <1>2 DEF Health!TypeOK, Health!Cache
    <2> QED BY <2>1, <2>2 DEF HealthInv, ObservedInv, Attributed
  <1>6. pass.got \in Health!Parts /\ Observed(pass.got) BY <1>1, <1>2 DEF Health!Projecting, HealthInv,
      ObservedInv
  <1>7. Sampled(pass.root) BY <1>1 DEF HealthInv, SampleInv
  <1>8. /\ r \in Health!Root /\ Sampled(r) /\ r.op = pass.root.op /\ r.failed = pass.root.failed
        /\ r.control = pass.root.control
        /\ pass.root.initialized => r.initialized
        /\ r.initialized /\ ~pass.root.initialized => pass.got.tx.submitted >= Boundary
        /\ r.oper = "True" => /\ Health!assessed(r) /\ Health!bitcoinOperational(pass.root, pass.got) = "True"
                              /\ r.control \cap {Health!Prod, Health!Tx} = {} /\ ~(Miners \subseteq r.control)
    BY <1>2, <1>4, <1>5, <1>6, <1>7, Projected
  <1>9. r.initialized /\ ~pass.base.initialized => srv.parts.tx.submitted >= Boundary
    <2>1. pass.got.tx.submitted <= srv.parts.tx.submitted BY <1>1 DEF HealthInv, TransferInv
    <2>2. pass.got.tx.submitted \in Nat /\ srv.parts.tx.submitted \in Nat
      BY <1>2, <1>6 DEF Health!TypeOK, Health!Server, Health!Parts, Health!Traffic
    <2> QED BY <2>1, <2>2, <1>2, <1>8 DEF Health!Bounds
  <1>10. CASE ~(Health!assessed(r) /\ Health!bitcoinOperational(pass.root, pass.got) = "True")
    <2>1. Health!Finish(r) BY <1>3, <1>4, <1>10
    <2>2. r.oper # "True" BY <1>8, <1>10
    <2> QED BY <2>1, <2>2, <1>1, <1>2, <1>8, <1>9, FinishStep
  <1>11. CASE Health!assessed(r) /\ Health!bitcoinOperational(pass.root, pass.got) = "True"
    <2> USE DEF HealthInv
    <2>1. pass' = [pass EXCEPT !.pc = "validate", !.root = r] BY <1>3, <1>4, <1>11
    <2>2. /\ pass' \in Health!Projecting /\ pass'.pc = "validate" /\ pass'.root = r /\ pass'.base = pass.base
          /\ pass'.got = pass.got /\ pass'.timing = pass.timing
      BY <2>1, <1>2, <1>8 DEF Health!Projecting
    <2>3. Health!TypeOK' BY <2>2, <1>1 DEF Health!TypeOK
    <2>4. ObservedInv' BY <2>2, <1>1 DEF ObservedInv, Observed, Attributed
    <2>5. SampleInv' BY <2>2, <1>1, <1>8 DEF SampleInv, Sampled
    <2>6. TransferInv' BY <2>2, <1>1 DEF TransferInv
    <2>7. InitializedInv' BY <2>2, <1>1, <1>2, <1>8, <1>9 DEF InitializedInv
    <2>8. r.oper = "True" => Operable(r) BY <1>1, <1>8 DEF Operable, Health!assessed
    <2>9. OperationInv' BY <2>2, <2>8, <1>1 DEF OperationInv, Operable
    <2> QED BY <2>3, <2>4, <2>5, <2>6, <2>7, <2>9
  <1> QED BY <1>10, <1>11

LEMMA ValidateStep ==
  ASSUME HealthInv, Health!Validate
  PROVE  HealthInv'
  <1>1. pass.pc = "validate" /\ UNCHANGED Health!world BY DEF Health!Validate
  <1>2. pass.root \in Health!Root /\ Sampled(pass.root) BY <1>1, Phases DEF HealthInv, SampleInv
  <1>3. /\ pass.base.initialized => pass.root.initialized
        /\ pass.root.initialized /\ ~pass.base.initialized => srv.parts.tx.submitted >= Boundary
    BY <1>1 DEF HealthInv, InitializedInv
  <1>4. CASE srv.over = pass.got.prod.over
    <2>1. Health!Finish(pass.root) BY <1>4 DEF Health!Validate
    <2>2. pass.root.oper = "True" => Operable(pass.root) /\ pass.got.prod.over \in pass.timing
      BY <1>1, <1>4 DEF HealthInv, OperationInv
    <2> QED BY <2>1, <2>2, <1>1, <1>2, <1>3, FinishStep
  <1>5. CASE srv.over # pass.got.prod.over
    <2>1. PICK o : o = Health!combinePredicates({pass.root.oper, "Unknown"}) OBVIOUS
    <2>2. o \in {"False", "Unknown"} BY <2>1 DEF Health!combinePredicates
    <2>3. PICK r : r = [pass.root EXCEPT !.oper = o] OBVIOUS
    <2>4. Health!Finish(r) BY <1>5, <2>1, <2>3 DEF Health!Validate
    <2>5. /\ r \in Health!Root /\ r.bitcoin = pass.root.bitcoin /\ r.miner = pass.root.miner
             /\ r.oper # "True"
          /\ r.initialized = pass.root.initialized
      BY <2>2, <2>3, <1>2 DEF Health!Root
    <2>6. Sampled(r) BY <2>5, <1>2 DEF Sampled
    <2> QED BY <2>4, <2>5, <2>6, <1>1, <1>3, FinishStep
  <1> QED BY <1>4, <1>5

LEMMA WriteStep ==
  ASSUME HealthInv, Health!Write \/ Health!Conflict
  PROVE  HealthInv'
  <1>1. /\ UNCHANGED <<clock, chain, srv, cache, seen, budget>> /\ pass' = Health!Idle /\ pass.pc = "write"
        /\ root' = root \/ root' = pass.root
    BY DEF Health!Write, Health!Conflict
  <1>2. /\ root \in Health!Root /\ Sampled(root) /\ pass.root \in Health!Root /\ Sampled(pass.root)
    BY <1>1, Phases DEF HealthInv, Health!TypeOK, SampleInv
  <1>3. root' \in Health!Root /\ Sampled(root') BY <1>1, <1>2
  <1> QED BY <1>1, <1>3, IdleStep

-----------------------------------------------------------------------------
(* Everyone else's steps *)

LEMMA HealthSpend ==
  ASSUME Health!TypeOK, NEW k \in Health!Kinds, Health!Spend(k)
  PROVE  budget' \in [Health!Kinds -> Nat]
  BY DEF Health!TypeOK, Health!Spend

LEMMA KindNames ==
  /\ "Pause" \in Health!Kinds /\ "Control" \in Health!Kinds /\ "Suspend" \in Health!Kinds
     /\ "Stop" \in Health!Kinds /\ "Fail" \in Health!Kinds
  /\ "Override" \in Health!Kinds /\ "Rebind" \in Health!Kinds /\ "Unready" \in Health!Kinds
     /\ "Diverge" \in Health!Kinds
  /\ "Block" \in Health!Kinds /\ "Transfer" \in Health!Kinds /\ "Report" \in Health!Kinds
     /\ "Tick" \in Health!Kinds
  BY DEF Health!Kinds

\* An edit of the root changes nothing a pass publishes.
LEMMA RootStep ==
  ASSUME HealthInv, Health!Operate \/ Health!Control \/ Health!Fail
  PROVE  /\ HealthInv' /\ UNCHANGED <<clock, chain, srv, cache, pass, seen>>
         /\ root'.initialized = root.initialized
  <1> USE DEF HealthInv
  <1>1. UNCHANGED <<clock, chain, srv, cache, pass, seen>> BY DEF Health!Operate, Health!Control, Health!Fail,
      Health!Edit
  <1>2. budget' \in [Health!Kinds -> Nat] BY HealthSpend, KindNames DEF Health!Operate, Health!Control,
      Health!Fail
  <1>3. root \in Health!Root /\ root.gen + 1 \in Nat BY DEF Health!TypeOK, Health!Root
  <1>4. PICK n \in Nat : n = root.gen + 1 BY <1>3
  <1>5. /\ root' \in Health!Root /\ root'.bitcoin = root.bitcoin /\ root'.miner = root.miner
        /\ root'.initialized = root.initialized
    <2>1. CASE Health!Operate
      <3>1. PICK op \in {"Running", "Paused", "Stopped"} :
              root' = [[root EXCEPT !.op = op] EXCEPT !.gen = @ + 1]
        BY <2>1 DEF Health!Operate, Health!Edit
      <3>2. root' = [root EXCEPT !.op = op, !.gen = n] BY <3>1, <1>3, <1>4 DEF Health!Root
      <3> QED BY <3>2, <1>3 DEF Health!Root
    <2>2. CASE Health!Control
      <3>1. PICK c \in {Health!Prod, Health!Tx} \cup Miners :
              root' = [[root EXCEPT !.control = Health!toggled(@, c)] EXCEPT !.gen = @ + 1]
        BY <2>2 DEF Health!Control, Health!Edit
      <3>2. PICK C : C = Health!toggled(root.control, c) OBVIOUS
      <3>3. C \in Health!Controls BY <3>2, <1>3 DEF Health!toggled, Health!Root, Health!Controls
      <3>4. root' = [root EXCEPT !.control = C, !.gen = n] BY <3>1, <3>2, <1>3, <1>4 DEF Health!Root
      <3> QED BY <3>3, <3>4, <1>3 DEF Health!Root
    <2>3. CASE Health!Fail
      <3>1. root' = [root EXCEPT !.failed = TRUE, !.phase = "Failed"] BY <2>3 DEF Health!Fail
      <3> QED BY <3>1, <1>3 DEF Health!Root
    <2> QED BY <2>1, <2>2, <2>3
  <1>6. Health!TypeOK' BY <1>1, <1>2, <1>5 DEF Health!TypeOK
  <1>7. ObservedInv' BY <1>1 DEF ObservedInv, Observed, Attributed
  <1>8. SampleInv' BY <1>1, <1>5 DEF SampleInv, Sampled
  <1>9. TransferInv' /\ InitializedInv' /\ OperationInv'
    BY <1>1 DEF TransferInv, InitializedInv, OperationInv, Operable
  <1> QED BY <1>1, <1>5, <1>6, <1>7, <1>8, <1>9

LEMMA TickStep ==
  ASSUME HealthInv, Health!Tick
  PROVE  HealthInv'
  <1> USE DEF HealthInv
  <1>1. clock' = clock + 1 /\ UNCHANGED <<chain, root, srv, cache, pass, seen>> BY DEF Health!Tick
  <1>2. budget' \in [Health!Kinds -> Nat] BY HealthSpend, KindNames DEF Health!Tick
  <1>3. Health!TypeOK' BY <1>1, <1>2 DEF Health!TypeOK
  <1>4. ObservedInv' BY <1>1 DEF ObservedInv, Observed, Attributed
  <1>5. SampleInv' BY <1>1 DEF SampleInv, Sampled
  <1>6. TransferInv' /\ InitializedInv' /\ OperationInv'
    BY <1>1 DEF TransferInv, InitializedInv, OperationInv, Operable
  <1> QED BY <1>3, <1>4, <1>5, <1>6

LEMMA SyncStep ==
  ASSUME HealthInv, Health!Sync
  PROVE  HealthInv'
  <1> USE DEF HealthInv
  <1>1. /\ UNCHANGED <<clock, chain, root, srv, pass, seen, budget>>
        /\ cache' = [cache EXCEPT !.parts = srv.parts] \/ cache' = [cache EXCEPT !.exe = srv.exe]
    BY DEF Health!Sync
  <1>2. srv.parts \in Health!Parts /\ srv.exe \in Health!Exe /\ cache \in Health!Cache BY DEF Health!TypeOK,
      Health!Server
  <1>3. /\ cache' \in Health!Cache /\ cache'.parts \in {cache.parts, srv.parts}
           /\ cache'.exe \in {cache.exe, srv.exe}
    BY <1>1, <1>2 DEF Health!Cache
  <1>4. Health!TypeOK' BY <1>1, <1>3 DEF Health!TypeOK
  <1>5. Observed(cache'.parts) /\ Attributed(cache'.exe) BY <1>3 DEF ObservedInv
  <1>6. ObservedInv' BY <1>1, <1>5 DEF ObservedInv, Observed, Attributed
  <1>7. SampleInv' BY <1>1 DEF SampleInv, Sampled
  <1>8. srv.parts.tx.submitted \in Nat BY <1>2 DEF Health!Parts, Health!Traffic
  <1>9. TransferInv' BY <1>1, <1>3, <1>8 DEF TransferInv
  <1>10. InitializedInv' /\ OperationInv' BY <1>1 DEF InitializedInv, OperationInv, Operable
  <1> QED BY <1>4, <1>6, <1>7, <1>9, <1>10

\* A report: observations are only added, the chain and the transfers only go up.
LEMMA ReportStep ==
  ASSUME Health!Bounds, HealthInv, UNCHANGED <<clock, root, cache, pass>>, budget' \in [Health!Kinds -> Nat],
         chain' \in Nat, chain' >= chain, seen \subseteq seen', seen' \subseteq Nat \X Nat \X Nat,
         srv' \in Health!Server, srv'.over = srv.over,
         Observed(srv.parts)', Attributed(srv.exe)',
         srv'.parts.tx.submitted <= chain', srv'.parts.tx.submitted >= srv.parts.tx.submitted
  PROVE  HealthInv'
  <1> USE DEF HealthInv
  <1>1. Health!TypeOK' BY DEF Health!TypeOK
  <1>2. chain \in Nat /\ srv \in Health!Server /\ cache \in Health!Cache BY DEF Health!TypeOK
  <1>3. ASSUME NEW p \in Health!Parts, Observed(p) PROVE Observed(p)'
    <2>1. \A s \in Health!Sources : p.actor[s].height \in Nat BY DEF Health!Parts, Health!Actor
    <2> QED BY <1>2, <1>3, <2>1 DEF Observed
  <1>4. cache.parts \in Health!Parts BY <1>2 DEF Health!Cache
  <1>5. pass.pc \in {"project", "validate"} => pass.got \in Health!Parts BY Phases DEF Health!Projecting
  <1>6. Observed(cache.parts)'
    <2>1. PICK p \in Health!Parts : p = cache.parts BY <1>4
    <2> QED BY <2>1, <1>3 DEF ObservedInv
  <1>7. pass.pc \in {"project", "validate"} => Observed(pass.got)'
    <2> SUFFICES ASSUME pass.pc \in {"project", "validate"} PROVE Observed(pass.got)'
      OBVIOUS
    <2>1. PICK p \in Health!Parts : p = pass.got BY <1>5
    <2> QED BY <2>1, <1>3 DEF ObservedInv
  <1>8. Attributed(cache.exe)' BY DEF ObservedInv, Attributed
  <1>9. ObservedInv' BY <1>6, <1>7, <1>8 DEF ObservedInv
  <1>10. SampleInv' BY DEF SampleInv, Sampled
  <1>11. /\ srv.parts.tx.submitted \in Nat /\ srv'.parts.tx.submitted \in Nat
         /\ cache.parts.tx.submitted \in Nat
    BY <1>2 DEF Health!Server, Health!Cache, Health!Parts, Health!Traffic
  <1>12. pass.pc \in {"project", "validate"} => pass.got.tx.submitted \in Nat BY <1>5 DEF Health!Parts,
      Health!Traffic
  <1>13. TransferInv' BY <1>11, <1>12 DEF TransferInv
  <1>14. InitializedInv' BY <1>11 DEF InitializedInv, Health!Bounds
  <1>15. OperationInv' BY DEF OperationInv, Operable
  <1> QED BY <1>1, <1>9, <1>10, <1>13, <1>14, <1>15

LEMMA ServerFacts ==
  ASSUME Health!TypeOK
  PROVE  /\ srv \in Health!Server /\ srv.parts \in Health!Parts /\ srv.exe \in Health!Exe
            /\ srv.over \in BOOLEAN
         /\ srv.parts.actor \in [Health!Sources -> Health!Actor] /\ srv.parts.prod \in Health!Production
         /\ srv.parts.tx \in Health!Traffic /\ srv.parts.con \in Health!Contracts
            /\ srv.parts.tx.submitted \in Nat
         /\ clock \in Nat /\ chain \in Nat /\ \A s \in Health!Sources : Health!actor(s) \in Health!Actor
  <1>1. srv \in Health!Server /\ clock \in Nat /\ chain \in Nat BY DEF Health!TypeOK
  <1>2. srv.parts \in Health!Parts /\ srv.exe \in Health!Exe /\ srv.over \in BOOLEAN BY <1>1 DEF Health!Server
  <1>3. /\ srv.parts.actor \in [Health!Sources -> Health!Actor] /\ srv.parts.prod \in Health!Production
        /\ srv.parts.tx \in Health!Traffic /\ srv.parts.con \in Health!Contracts
    BY <1>2 DEF Health!Parts
  <1>4. srv.parts.tx.submitted \in Nat BY <1>3 DEF Health!Traffic
  <1> QED BY <1>1, <1>2, <1>3, <1>4 DEF Health!actor

LEMMA ServerWith ==
  ASSUME Health!TypeOK, NEW v \in Health!Parts, srv' = [srv EXCEPT !.parts = v]
  PROVE  srv' \in Health!Server /\ srv'.parts = v /\ srv'.exe = srv.exe /\ srv'.over = srv.over
  <1>1. srv \in Health!Server BY DEF Health!TypeOK
  <1> QED BY <1>1 DEF Health!Server

\* A report of a capability: the actors stay, a transfer is of the present height.
LEMMA PartsStep ==
  ASSUME Health!Bounds, HealthInv, UNCHANGED <<clock, root, cache, pass, seen>>,
         budget' \in [Health!Kinds -> Nat],
         chain' \in {chain, chain + 1}, NEW v \in Health!Parts, srv' = [srv EXCEPT !.parts = v],
         \A s \in Health!Sources : /\ v.actor[s].of = Health!actor(s).of
                                   /\ v.actor[s].height = Health!actor(s).height
                                   /\ v.actor[s].at = Health!actor(s).at,
         v.tx.submitted \in {srv.parts.tx.submitted, chain}
  PROVE  HealthInv'
  <1>1. Health!TypeOK /\ ObservedInv BY DEF HealthInv
  <1>2. srv' \in Health!Server /\ srv'.parts = v /\ srv'.exe = srv.exe /\ srv'.over = srv.over BY <1>1,
      ServerWith
  <1>3. chain \in Nat /\ srv.parts.tx.submitted \in Nat /\ srv.parts.tx.submitted <= chain
    BY <1>1, ServerFacts DEF HealthInv, TransferInv
  <1>4. chain' \in Nat /\ chain' >= chain BY <1>3
  <1>5. srv'.parts.tx.submitted <= chain' /\ srv'.parts.tx.submitted >= srv.parts.tx.submitted
    BY <1>2, <1>3, <1>4
  <1>6. Observed(srv.parts)'
    <2>1. \A s \in Health!Sources : Health!actor(s).height \in Nat BY <1>1, ServerFacts DEF Health!Actor
    <2>2. \A s \in Health!Sources : <<Health!actor(s).of, Health!actor(s).height,
          Health!actor(s).at>> \in seen /\ Health!actor(s).height <= chain
      BY <1>1 DEF ObservedInv, Observed, Health!actor
    <2>3. \A s \in Health!Sources : <<v.actor[s].of, v.actor[s].height, v.actor[s].at>> \in seen
      BY <2>2
    <2>4. ASSUME NEW s \in Health!Sources PROVE v.actor[s].height <= chain'
      <3>1. v.actor[s].height = Health!actor(s).height OBVIOUS
      <3>2. Health!actor(s).height \in Nat /\ Health!actor(s).height <= chain BY <2>1, <2>2
      <3> QED BY <3>1, <3>2, <1>3, <1>4
    <2> QED BY <2>3, <2>4, <1>2 DEF Observed
  <1>7. Attributed(srv.exe)' BY <1>1, <1>2 DEF ObservedInv, Attributed
  <1>8. seen \subseteq seen' /\ seen' \subseteq Nat \X Nat \X Nat BY <1>1 DEF Health!TypeOK
  <1> QED BY <1>2, <1>4, <1>5, <1>6, <1>7, <1>8, ReportStep

LEMMA CapabilityStep ==
  ASSUME Health!Bounds, HealthInv, Health!ReportScheduling \/ Health!Block \/ Health!ReportWorker
         \/ Health!Diverge \/ \E m \in Miners : Health!Transfer(m)
  PROVE  HealthInv'
  <1>1. Health!TypeOK BY DEF HealthInv
  <1>2. UNCHANGED <<clock, root, cache, pass, seen>>
    BY DEF Health!ReportScheduling, Health!Block, Health!ReportWorker, Health!Diverge, Health!Transfer,
        Health!participants
  <1>3. budget' \in [Health!Kinds -> Nat]
    BY <1>1, HealthSpend, KindNames DEF Health!ReportScheduling, Health!Block, Health!ReportWorker,
        Health!Diverge, Health!Transfer
  <1>4. chain' \in {chain, chain + 1}
    BY DEF Health!ReportScheduling, Health!Block, Health!ReportWorker, Health!Diverge, Health!Transfer,
        Health!participants
  <1>5. /\ srv.parts \in Health!Parts /\ srv.parts.prod \in Health!Production
           /\ srv.parts.tx \in Health!Traffic
        /\ srv.parts.con \in Health!Contracts /\ srv.over \in BOOLEAN /\ clock \in Nat /\ chain \in Nat
        /\ \A s \in Health!Sources : Health!actor(s) \in Health!Actor
    BY <1>1, ServerFacts
  <1>6. root.gen \in Nat BY <1>1 DEF Health!TypeOK, Health!Root
  <1>7. ASSUME NEW x \in Health!Production, srv' = [srv EXCEPT !.parts = Health!withProd(x)] PROVE HealthInv'
    <2>1. PICK v : v = Health!withProd(x) OBVIOUS
    <2>2. v \in Health!Parts /\ v.actor = srv.parts.actor /\ v.tx = srv.parts.tx BY <2>1, <1>5
        DEF Health!withProd, Health!Parts
    <2> QED BY <2>1, <2>2, <1>2, <1>3, <1>4, <1>7, PartsStep DEF Health!actor
  <1>8. ASSUME NEW x \in Health!Contracts, srv' = [srv EXCEPT !.parts = Health!withCon(x)] PROVE HealthInv'
    <2>1. PICK v : v = Health!withCon(x) OBVIOUS
    <2>2. v \in Health!Parts /\ v.actor = srv.parts.actor /\ v.tx = srv.parts.tx BY <2>1, <1>5
        DEF Health!withCon, Health!Parts
    <2> QED BY <2>1, <2>2, <1>2, <1>3, <1>4, <1>8, PartsStep DEF Health!actor
  <1>9. ASSUME NEW x \in Health!Traffic, srv' = [srv EXCEPT !.parts = Health!withTx(x)],
               x.submitted \in {srv.parts.tx.submitted, chain}
        PROVE  HealthInv'
    <2>1. PICK v : v = Health!withTx(x) OBVIOUS
    <2>2. v \in Health!Parts /\ v.actor = srv.parts.actor /\ v.tx = x BY <2>1, <1>5 DEF Health!withTx,
        Health!Parts
    <2> QED BY <2>1, <2>2, <1>2, <1>3, <1>4, <1>9, PartsStep DEF Health!actor
  <1>10. CASE Health!ReportScheduling
    <2>1. PICK x : x = [srv.parts.prod EXCEPT !.at = clock, !.over = srv.over] OBVIOUS
    <2>2. x \in Health!Production BY <2>1, <1>5 DEF Health!Production
    <2> QED BY <2>1, <2>2, <1>7, <1>10 DEF Health!ReportScheduling, Health!participants
  <1>11. CASE Health!Block
    <2>1. PICK x : x = [srv.parts.prod EXCEPT !.acked = clock] OBVIOUS
    <2>2. x \in Health!Production BY <2>1, <1>5 DEF Health!Production
    <2> QED BY <2>1, <2>2, <1>7, <1>11 DEF Health!Block
  <1>12. CASE Health!ReportWorker
    <2>1. PICK x, y : /\ x = [srv.parts.tx EXCEPT !.at = clock, !.gen = root.gen]
                      /\ y = [srv.parts.con EXCEPT !.at = clock, !.gen = root.gen]
      OBVIOUS
    <2>2. x \in Health!Traffic /\ x.submitted = srv.parts.tx.submitted /\ y \in Health!Contracts
      BY <2>1, <1>5, <1>6 DEF Health!Traffic, Health!Contracts
    <2> QED BY <2>1, <2>2, <1>8, <1>9, <1>12 DEF Health!ReportWorker, Health!participants
  <1>13. CASE Health!Diverge
    <2>1. PICK x, y, z : /\ x = [srv.parts.tx EXCEPT !.included = 0]
                         /\ y = [srv.parts.con EXCEPT !.match = FALSE]
                         /\ z = [srv.parts.prod EXCEPT !.targets = 0]
      OBVIOUS
    <2>2. x \in Health!Traffic /\ x.submitted = srv.parts.tx.submitted /\ y \in Health!Contracts
          /\ z \in Health!Production
      BY <2>1, <1>5 DEF Health!Traffic, Health!Contracts, Health!Production
    <2> QED BY <2>1, <2>2, <1>7, <1>8, <1>9, <1>13 DEF Health!Diverge, Health!participants
  <1>14. CASE \E m \in Miners : Health!Transfer(m)
    <2>1. PICK m \in Miners : Health!Transfer(m) BY <1>14
    <2>2. Health!actor(m).proc \in Nat BY <1>5 DEF Health!Sources, Health!Actor
    <2>3. PICK x : x = [srv.parts.tx EXCEPT !.at = clock, !.target = Health!actor(m).proc,
          !.submitted = chain,
                                            !.included = clock]
      OBVIOUS
    <2>4. x \in Health!Traffic /\ x.submitted = chain BY <2>2, <2>3, <1>5 DEF Health!Traffic
    <2> QED BY <2>1, <2>3, <2>4, <1>9 DEF Health!Transfer, Health!participants
  <1> QED BY <1>10, <1>11, <1>12, <1>13, <1>14

LEMMA ActorWith ==
  ASSUME Health!TypeOK, NEW m \in Health!Sources, NEW a \in Health!Actor
  PROVE  /\ Health!withActor(m, a) \in Health!Parts /\ Health!withActor(m, a).tx = srv.parts.tx
         /\ \A s \in Health!Sources : Health!withActor(m, a).actor[s] = IF s = m THEN a ELSE Health!actor(s)
  <1>1. srv.parts \in Health!Parts /\ srv.parts.actor \in [Health!Sources -> Health!Actor] BY ServerFacts
  <1>2. PICK f : f = [srv.parts.actor EXCEPT ![m] = a] OBVIOUS
  <1>3. f \in [Health!Sources -> Health!Actor]
        /\ \A s \in Health!Sources : f[s] = IF s = m THEN a ELSE srv.parts.actor[s]
    BY <1>1, <1>2
  <1>4. Health!withActor(m, a) = [srv.parts EXCEPT !.actor = f] BY <1>2 DEF Health!withActor
  <1>5. Health!withActor(m, a) \in Health!Parts /\ Health!withActor(m, a).tx = srv.parts.tx
        /\ Health!withActor(m, a).actor = f
    BY <1>1, <1>3, <1>4 DEF Health!Parts
  <1> QED BY <1>3, <1>5 DEF Health!actor

LEMMA ConditionStep ==
  ASSUME Health!Bounds, HealthInv, Health!ProjectControl \/ \E s \in Health!Sources : Health!Rebind(s)
         \/ Health!Unready(s)
  PROVE  HealthInv'
  <1>1. Health!TypeOK BY DEF HealthInv
  <1>2. UNCHANGED <<clock, root, cache, pass, seen, chain>> BY DEF Health!ProjectControl, Health!Rebind,
      Health!Unready, Health!participants
  <1>3. budget' \in [Health!Kinds -> Nat]
    <2>1. CASE Health!ProjectControl BY <2>1, <1>1 DEF Health!ProjectControl, Health!TypeOK
    <2>2. CASE \E s \in Health!Sources : Health!Rebind(s) \/ Health!Unready(s)
      BY <2>2, <1>1, HealthSpend, KindNames DEF Health!Rebind, Health!Unready
    <2> QED BY <2>1, <2>2
  <1>4. /\ srv.parts \in Health!Parts /\ srv.parts.tx \in Health!Traffic
           /\ \A s \in Health!Sources : Health!actor(s) \in Health!Actor
    BY <1>1, ServerFacts
  <1>5. CASE \E s \in Health!Sources : Health!Rebind(s) \/ Health!Unready(s)
    <2>1. PICK s \in Health!Sources : Health!Rebind(s) \/ Health!Unready(s) BY <1>5
    <2>2. PICK a : /\ a = [Health!actor(s) EXCEPT !.ready = "False", !.proc = @ + 1]
                      \/ a = [Health!actor(s) EXCEPT !.ready = "False"]
                   /\ srv' = [srv EXCEPT !.parts = Health!withActor(s, a)]
      BY <2>1 DEF Health!Rebind, Health!Unready, Health!participants
    <2>3. a \in Health!Actor /\ a.of = Health!actor(s).of /\ a.height = Health!actor(s).height
          /\ a.at = Health!actor(s).at
      <3>1. PICK y \in Health!Actor : y = Health!actor(s) BY <1>4
      <3>2. y.proc + 1 \in Nat BY <3>1 DEF Health!Actor
      <3>3. CASE a = [y EXCEPT !.ready = "False", !.proc = y.proc + 1] BY <3>1, <3>2, <3>3 DEF Health!Actor
      <3>4. CASE a = [y EXCEPT !.ready = "False"] BY <3>1, <3>4 DEF Health!Actor
      <3> QED BY <2>2, <3>1, <3>3, <3>4
    <2>4. PICK v : v = Health!withActor(s, a) OBVIOUS
    <2>5. /\ v \in Health!Parts /\ v.tx = srv.parts.tx
          /\ \A t \in Health!Sources : v.actor[t] = IF t = s THEN a ELSE Health!actor(t)
      BY <2>3, <2>4, <1>1, ActorWith
    <2>6. \A t \in Health!Sources : /\ v.actor[t].of = Health!actor(t).of
                                    /\ v.actor[t].height = Health!actor(t).height
                                    /\ v.actor[t].at = Health!actor(t).at
      BY <2>3, <2>5
    <2> QED BY <2>2, <2>4, <2>5, <2>6, <1>2, <1>3, PartsStep
  <1>6. CASE Health!ProjectControl
    <2>1. PICK C : C = {c \in root.control \cup srv.parts.control : ~(c \in root.control
          /\ c \in srv.parts.control)}
      OBVIOUS
    <2>2. PICK f : f = [s \in Health!Sources |->
                          IF s \in C THEN [Health!actor(s) EXCEPT !.ready = "Unknown"] ELSE Health!actor(s)]
      OBVIOUS
    <2>3. PICK x : x = IF Health!Tx \in C THEN [srv.parts.tx EXCEPT !.gen = 0] ELSE srv.parts.tx OBVIOUS
    <2>4. x \in Health!Traffic /\ x.submitted = srv.parts.tx.submitted BY <2>3, <1>4 DEF Health!Traffic
    <2>5. ASSUME NEW s \in Health!Sources
          PROVE  f[s] \in Health!Actor /\ f[s].of = Health!actor(s).of /\ f[s].height = Health!actor(s).height
                 /\ f[s].at = Health!actor(s).at
      <3>1. f[s] = [Health!actor(s) EXCEPT !.ready = "Unknown"] \/ f[s] = Health!actor(s) BY <2>2
      <3> QED BY <3>1, <1>4 DEF Health!Actor
    <2>6. f \in [Health!Sources -> Health!Actor] BY <2>2, <2>5
    <2>7. root.control \in Health!Controls BY <1>1 DEF Health!TypeOK, Health!Root
    <2>8. PICK v : v = [srv.parts EXCEPT !.control = root.control, !.actor = f, !.tx = x] OBVIOUS
    <2>9. v \in Health!Parts /\ v.actor = f /\ v.tx = x BY <2>4, <2>6, <2>7, <2>8, <1>4 DEF Health!Parts
    <2>10. srv' = [srv EXCEPT !.parts = v]
      BY <1>6, <2>1, <2>2, <2>3, <2>8 DEF Health!ProjectControl, Health!participants
    <2> QED BY <2>4, <2>5, <2>9, <2>10, <1>2, <1>3, PartsStep
  <1> QED BY <1>5, <1>6

\* A new observation of source m: the actor's own report of it, or the execution's.
LEMMA ObserveStep ==
  ASSUME Health!Bounds, HealthInv, UNCHANGED <<clock, root, cache, pass, chain>>,
         budget' \in [Health!Kinds -> Nat],
         NEW m \in Health!Sources, NEW a \in Health!Actor, NEW e \in Health!Exe, NEW o \in Nat \X Nat \X Nat,
         o[2] = chain, srv' = [srv EXCEPT !.parts = Health!withActor(m, a), !.exe = e], seen' = seen \cup {o},
         \/ <<a.of, a.height, a.at>> = o /\ a.height = chain
         \/ a.of = Health!actor(m).of /\ a.height = Health!actor(m).height /\ a.at = Health!actor(m).at,
         e = srv.exe \/ <<e.of, e.height, e.at>> = o
  PROVE  HealthInv'
  <1>1. Health!TypeOK /\ ObservedInv BY DEF HealthInv
  <1>2. PICK v : v = Health!withActor(m, a) OBVIOUS
  <1>3. /\ v \in Health!Parts /\ v.tx = srv.parts.tx
        /\ \A t \in Health!Sources : v.actor[t] = IF t = m THEN a ELSE Health!actor(t)
    BY <1>1, <1>2, ActorWith
  <1>4. srv \in Health!Server BY <1>1 DEF Health!TypeOK
  <1>5. srv' \in Health!Server /\ srv'.parts = v /\ srv'.exe = e /\ srv'.over = srv.over
    BY <1>2, <1>3, <1>4 DEF Health!Server
  <1>6. seen \subseteq seen' /\ seen' \subseteq Nat \X Nat \X Nat BY <1>1 DEF Health!TypeOK
  <1>7. chain \in Nat /\ chain' = chain /\ srv.parts.tx.submitted \in Nat /\ srv.parts.tx.submitted <= chain
    BY <1>1, ServerFacts DEF HealthInv, TransferInv
  <1>8. \A s \in Health!Sources : <<Health!actor(s).of, Health!actor(s).height, Health!actor(s).at>> \in seen
        /\ Health!actor(s).height <= chain
    BY <1>1 DEF ObservedInv, Observed, Health!actor
  <1>9. <<a.of, a.height, a.at>> \in seen' /\ a.height <= chain
    <2>1. CASE <<a.of, a.height, a.at>> = o /\ a.height = chain BY <2>1, <1>7
    <2>2. CASE a.of = Health!actor(m).of /\ a.height = Health!actor(m).height /\ a.at = Health!actor(m).at
        BY <2>2, <1>8
    <2> QED BY <2>1, <2>2
  <1>10. ASSUME NEW s \in Health!Sources
         PROVE  <<v.actor[s].of, v.actor[s].height, v.actor[s].at>> \in seen' /\ v.actor[s].height <= chain
    <2>1. v.actor[s] = a \/ v.actor[s] = Health!actor(s) BY <1>3
    <2> QED BY <2>1, <1>8, <1>9
  <1>11. Observed(srv.parts)' BY <1>5, <1>7, <1>10 DEF Observed
  <1>12. Attributed(srv.exe)' BY <1>1, <1>5 DEF ObservedInv, Attributed
  <1>13. srv'.parts.tx.submitted <= chain' /\ srv'.parts.tx.submitted >= srv.parts.tx.submitted
    BY <1>3, <1>5, <1>7
  <1>14. chain' \in Nat /\ chain' >= chain BY <1>7
  <1> QED BY <1>5, <1>6, <1>11, <1>12, <1>13, <1>14, ReportStep

LEMMA ObserverStep ==
  ASSUME Health!Bounds, HealthInv, Health!ObserveBitcoin \/ \E m \in Miners : Health!ObserveMiner(m)
  PROVE  HealthInv'
  <1>1. Health!TypeOK BY DEF HealthInv
  <1>2. /\ srv \in Health!Server /\ srv.exe \in Health!Exe /\ clock \in Nat /\ chain \in Nat
        /\ \A s \in Health!Sources : Health!actor(s) \in Health!Actor /\ Health!actor(s).proc \in Nat
    BY <1>1, ServerFacts DEF Health!Actor
  <1>3. CASE Health!ObserveBitcoin
    <2>1. UNCHANGED <<clock, root, cache, pass, chain>> BY <1>3 DEF Health!ObserveBitcoin
    <2>2. budget' \in [Health!Kinds -> Nat] BY <1>1, <1>3, HealthSpend, KindNames DEF Health!ObserveBitcoin
    <2>3. 0 \in Health!Sources BY DEF Health!Sources
    <2>4. PICK a : a = [Health!actor(0) EXCEPT !.ready = "True"] OBVIOUS
    <2>5. a \in Health!Actor /\ a.of = Health!actor(0).of /\ a.height = Health!actor(0).height
          /\ a.at = Health!actor(0).at
      BY <2>3, <2>4, <1>2 DEF Health!Actor
    <2>6. PICK e : e = [height |-> chain, at |-> clock, of |-> Health!actor(0).proc] OBVIOUS
    <2>7. e \in Health!Exe /\ <<e.of, e.height, e.at>> = <<Health!actor(0).proc, chain, clock>>
      BY <2>3, <2>6, <1>2 DEF Health!Exe
    <2>8. PICK o : o = <<Health!actor(0).proc, chain, clock>> OBVIOUS
    <2>9. o \in Nat \X Nat \X Nat /\ o[2] = chain BY <2>3, <2>8, <1>2
    <2>10. srv' = [srv EXCEPT !.parts = Health!withActor(0, a), !.exe = e] /\ seen' = seen \cup {o}
      BY <1>3, <2>4, <2>6, <2>8 DEF Health!ObserveBitcoin
    <2> QED BY <2>1, <2>2, <2>3, <2>5, <2>7, <2>8, <2>9, <2>10, ObserveStep
  <1>4. CASE \E m \in Miners : Health!ObserveMiner(m)
    <2>1. PICK m \in Miners : Health!ObserveMiner(m) BY <1>4
    <2>2. UNCHANGED <<clock, root, cache, pass, chain>> BY <2>1 DEF Health!ObserveMiner, Health!participants
    <2>3. budget' \in [Health!Kinds -> Nat] BY <1>1, <2>1, HealthSpend, KindNames DEF Health!ObserveMiner
    <2>4. m \in Health!Sources BY DEF Health!Sources
    <2>5. PICK a : a = [proc |-> Health!actor(m).proc, ready |-> "True", height |-> chain, at |-> clock,
                        of |-> Health!actor(m).proc]
      OBVIOUS
    <2>6. PICK o : o = <<Health!actor(m).proc, chain, clock>> OBVIOUS
    <2>7. a \in Health!Actor /\ <<a.of, a.height, a.at>> = o /\ a.height = chain
      BY <2>4, <2>5, <2>6, <1>2 DEF Health!Actor
    <2>8. o \in Nat \X Nat \X Nat /\ o[2] = chain BY <2>4, <2>6, <1>2
    <2>9. PICK e \in Health!Exe : e = srv.exe BY <1>2
    <2>10. srv' = [srv EXCEPT !.parts = Health!withActor(m, a)] /\ seen' = seen \cup {o}
      BY <2>1, <2>5, <2>6 DEF Health!ObserveMiner, Health!participants
    <2>11. srv' = [srv EXCEPT !.parts = Health!withActor(m, a), !.exe = e] BY <2>9, <2>10, <1>2
        DEF Health!Server
    <2>12. /\ a \in Health!Actor /\ o \in Nat \X Nat \X Nat /\ o[2] = chain /\ seen' = seen \cup {o}
           /\ <<a.of, a.height, a.at>> = o /\ a.height = chain /\ e = srv.exe
      BY <2>7, <2>8, <2>9, <2>10
    <2> HIDE DEF Health!world
    <2> QED BY <2>2, <2>3, <2>4, <2>11, <2>12, ObserveStep
  <1> QED BY <1>3, <1>4

LEMMA OverrideStep ==
  ASSUME HealthInv, Health!Override
  PROVE  HealthInv'
  <1> USE DEF HealthInv
  <1>1. UNCHANGED <<clock, chain, root, cache, seen>> BY DEF Health!Override
  <1>2. budget' \in [Health!Kinds -> Nat] BY HealthSpend, KindNames DEF Health!Override
  <1>3. srv \in Health!Server /\ srv.over \in BOOLEAN BY ServerFacts
  <1>4. PICK b \in BOOLEAN : b = ~srv.over OBVIOUS
  <1>5. srv' = [srv EXCEPT !.over = b] BY <1>4 DEF Health!Override
  <1>6. srv' \in Health!Server /\ srv'.parts = srv.parts /\ srv'.exe = srv.exe /\ srv'.over = b
    BY <1>3, <1>5 DEF Health!Server
  <1>7. CASE pass.timing = {}
    <2>1. pass' = pass BY <1>7 DEF Health!Override
    <2>2. ~(pass.pc \in {"project", "validate"}) BY <1>7 DEF OperationInv
    <2>3. Health!TypeOK' BY <1>1, <1>2, <1>6, <2>1 DEF Health!TypeOK
    <2>4. ObservedInv' BY <1>1, <1>6, <2>1 DEF ObservedInv, Observed, Attributed
    <2>5. SampleInv' BY <1>1, <2>1 DEF SampleInv, Sampled
    <2>6. TransferInv' BY <1>1, <1>6, <2>1 DEF TransferInv
    <2>7. InitializedInv' BY <1>6, <2>1 DEF InitializedInv
    <2>8. OperationInv' BY <2>1, <2>2 DEF OperationInv, Operable
    <2> QED BY <2>3, <2>4, <2>5, <2>6, <2>7, <2>8
  <1>8. CASE pass.timing # {}
    <2>1. PICK t : t = pass.timing \cup {b} OBVIOUS
    <2>2. pass' = [pass EXCEPT !.timing = t] BY <1>4, <1>8, <2>1 DEF Health!Override
    <2>3. pass # Health!Idle BY <1>8 DEF Health!Idle
    <2>4. pass \in Health!Projecting \/ pass \in Health!Writing BY <2>3 DEF Health!TypeOK
    <2>5. pass.timing \in SUBSET BOOLEAN BY <2>4 DEF Health!Projecting, Health!Writing
    <2>6. t \in SUBSET BOOLEAN /\ b \in t /\ pass.timing \subseteq t BY <2>1, <2>5
    <2>7. (pass \in Health!Projecting => pass' \in Health!Projecting)
          /\ (pass \in Health!Writing => pass' \in Health!Writing)
      BY <2>2, <2>6 DEF Health!Projecting, Health!Writing
    <2>8. /\ pass'.pc = pass.pc /\ pass'.base = pass.base /\ pass'.root = pass.root /\ pass'.got = pass.got
          /\ pass'.timing = t
      BY <2>2, <2>4 DEF Health!Projecting, Health!Writing
    <2>9. Health!TypeOK' BY <1>1, <1>2, <1>6, <2>4, <2>7 DEF Health!TypeOK
    <2>10. ObservedInv' BY <1>1, <1>6, <2>8 DEF ObservedInv, Observed, Attributed
    <2>11. SampleInv' BY <1>1, <2>8 DEF SampleInv, Sampled
    <2>12. TransferInv' BY <1>1, <1>6, <2>8 DEF TransferInv
    <2>13. InitializedInv' BY <1>6, <2>8 DEF InitializedInv
    <2>14. OperationInv' BY <1>6, <2>6, <2>8 DEF OperationInv, Operable
    <2> QED BY <2>9, <2>10, <2>11, <2>12, <2>13, <2>14
  <1> QED BY <1>7, <1>8

-----------------------------------------------------------------------------
(* The initial states *)

LEMMA HealthInitially ==
  ASSUME Health!Bounds, Health!Init
  PROVE  HealthInv
  <1>1. clock = 1 /\ budget \in HealthCases /\ pass = Health!Idle /\ pass.pc = "idle" BY IdleFacts
      DEF Health!Init
  <1>2. budget \in [Health!Kinds -> Nat] BY <1>1 DEF Health!Bounds
  <1>3. PICK h \in {Boundary, Boundary - 1}, st \in BOOLEAN, ph \in {"Running", "Initializing"} :
          /\ chain = h
          /\ root = [gen |-> 1, op |-> "Running", control |-> {}, failed |-> FALSE,
                     initialized |-> st, phase |-> ph,
                     oper |-> "False", bitcoin |-> Health!NoSample, miner |-> Health!NoSample]
          /\ srv = [parts |-> [control |-> {},
                               actor |-> [s \in Health!Sources |-> [proc |-> Health!Process(s, 1),
                                   ready |-> "True",
                                             height |-> h, at |-> 1, of |-> Health!Process(s, 1)]],
                               prod |-> [at |-> 1, targets |-> 1, acked |-> 1, over |-> FALSE],
                               tx |-> [at |-> 1, gen |-> 1,
                                   target |-> Health!Process(CHOOSE s \in Miners : TRUE, 1),
                                       submitted |-> h, included |-> 1],
                               con |-> [at |-> 1, gen |-> 1, match |-> TRUE]],
                    exe |-> [height |-> h, at |-> 1, of |-> Health!Process(0, 1)],
                    over |-> FALSE]
          /\ seen = {<<Health!Process(s, 1), h, 1>> : s \in Health!Sources}
    <2>1. PICK st \in BOOLEAN : st = (budget["Started"] > 0)
      <3>1. budget["Started"] \in Nat BY <1>2 DEF Health!Kinds
      <3>2. CASE budget["Started"] > 0 BY <3>2
      <3>3. CASE ~(budget["Started"] > 0)
        <4>1. PICK n \in Nat : n = budget["Started"] BY <3>1
        <4>2. FALSE = (n > 0) BY <3>3, <4>1
        <4> QED BY <4>1, <4>2, Zenon
      <3> QED BY <3>1, <3>2, <3>3
    <2>2. PICK h \in {Boundary, Boundary - 1} : h = IF st THEN Boundary ELSE Boundary - 1 OBVIOUS
    <2>3. PICK ph \in {"Running", "Initializing"} : ph = IF st THEN "Running" ELSE "Initializing" OBVIOUS
    <2> QED BY <2>1, <2>2, <2>3 DEF Health!Init
  <1>4. h \in Nat BY <1>3 DEF Health!Bounds
  <1>5. Health!Sources \subseteq Nat /\ (CHOOSE s \in Miners : TRUE) \in Nat
    <2>1. Miners \subseteq Nat /\ \E s \in Miners : TRUE BY DEF Health!Bounds
    <2>2. (CHOOSE s \in Miners : TRUE) \in Miners BY <2>1, Zenon
    <2>3. Health!Sources \subseteq Nat BY <2>1 DEF Health!Sources
    <2>4. (CHOOSE s \in Miners : TRUE) \in Nat BY <2>1, <2>2, Zenon
    <2> QED BY <2>3, <2>4, Zenon
  <1>6. \A s \in Nat : Health!Process(s, 1) \in Nat BY DEF Health!Process
  <1>7. PICK f : f = [s \in Health!Sources |-> [proc |-> Health!Process(s, 1), ready |-> "True",
                                         height |-> h, at |-> 1, of |-> Health!Process(s, 1)]]
    OBVIOUS
  <1>8. ASSUME NEW s \in Health!Sources
        PROVE  /\ f[s] \in Health!Actor /\ f[s].of = Health!Process(s, 1) /\ f[s].height = h /\ f[s].at = 1
    <2>1. Health!Process(s, 1) \in Nat BY <1>5, <1>6
    <2>2. f[s] = [proc |-> Health!Process(s, 1), ready |-> "True", height |-> h, at |-> 1,
          of |-> Health!Process(s, 1)]
      BY <1>7
    <2> QED BY <2>1, <2>2, <1>4 DEF Health!Actor
  <1>9. f \in [Health!Sources -> Health!Actor] BY <1>7, <1>8
  <1>10. PICK x : x = [at |-> 1, targets |-> 1, acked |-> 1, over |-> FALSE] OBVIOUS
  <1>11. x \in Health!Production BY <1>10 DEF Health!Production
  <1>12. PICK y : y = [at |-> 1, gen |-> 1, target |-> Health!Process(CHOOSE s \in Miners : TRUE, 1),
                       submitted |-> h, included |-> 1]
    OBVIOUS
  <1>13. Health!Process(CHOOSE s \in Miners : TRUE, 1) \in Nat BY <1>5, <1>6
  <1>14. y \in Health!Traffic /\ y.submitted = h BY <1>4, <1>12, <1>13 DEF Health!Traffic
  <1>15. PICK z : z = [at |-> 1, gen |-> 1, match |-> TRUE] OBVIOUS
  <1>16. z \in Health!Contracts BY <1>15 DEF Health!Contracts
  <1>17. PICK p : p = [control |-> {}, actor |-> f, prod |-> x, tx |-> y, con |-> z] OBVIOUS
  <1>18. p \in Health!Parts /\ p.actor = f /\ p.tx = y
    BY <1>9, <1>11, <1>14, <1>16, <1>17 DEF Health!Parts, Health!Controls
  <1>19. PICK e : e = [height |-> h, at |-> 1, of |-> Health!Process(0, 1)] OBVIOUS
  <1>20. Health!Process(0, 1) \in Nat BY <1>6
  <1>21. e \in Health!Exe /\ e.of = Health!Process(0, 1) /\ e.height = h /\ e.at = 1 BY <1>4, <1>19, <1>20
      DEF Health!Exe
  <1>22. srv = [parts |-> p, exe |-> e, over |-> FALSE]
    BY <1>3, <1>7, <1>10, <1>12, <1>15, <1>17, <1>19
  <1>23. srv \in Health!Server /\ srv.parts = p /\ srv.exe = e BY <1>18, <1>21, <1>22 DEF Health!Server
  <1>24. cache = [parts |-> p, exe |-> e] BY <1>23 DEF Health!Init
  <1>25. cache \in Health!Cache /\ cache.parts = p /\ cache.exe = e BY <1>18, <1>21, <1>24 DEF Health!Cache
  <1>26. root \in Health!Root /\ root.bitcoin = Health!NoSample /\ root.miner = Health!NoSample
    <2>1. {} \in Health!Controls /\ Health!NoSample \in Health!Sample BY SampleType DEF Health!Controls
    <2> QED BY <1>3, <2>1 DEF Health!Root
  <1>27. seen \subseteq Nat \X Nat \X Nat BY <1>3, <1>4, <1>5, <1>6
  <1>28. Health!TypeOK BY <1>1, <1>2, <1>3, <1>4, <1>23, <1>25, <1>26, <1>27 DEF Health!TypeOK
  <1>29. \A s \in Health!Sources : <<f[s].of, f[s].height, f[s].at>> \in seen /\ f[s].height <= chain
    <2> SUFFICES ASSUME NEW s \in Health!Sources
                 PROVE  <<f[s].of, f[s].height, f[s].at>> \in seen /\ f[s].height <= chain
      OBVIOUS
    <2>1. f[s].of = Health!Process(s, 1) /\ f[s].height = h /\ f[s].at = 1 BY <1>8
    <2>2. <<Health!Process(s, 1), h, 1>> \in seen BY <1>3
    <2>3. f[s].height <= chain BY <2>1, <1>3, <1>4
    <2> QED BY <2>1, <2>2, <2>3
  <1>30. Observed(p) BY <1>18, <1>29 DEF Observed
  <1>31. Attributed(e) BY <1>3, <1>21 DEF Attributed, Health!Sources
  <1>32. ObservedInv BY <1>1, <1>23, <1>25, <1>30, <1>31 DEF ObservedInv
  <1>33. SampleInv BY <1>1, <1>26 DEF SampleInv, Sampled
  <1>34. TransferInv BY <1>1, <1>3, <1>4, <1>14, <1>18, <1>23, <1>25 DEF TransferInv
  <1>35. InitializedInv /\ OperationInv BY <1>1 DEF InitializedInv, OperationInv
  <1> QED BY <1>28, <1>32, <1>33, <1>34, <1>35 DEF HealthInv

-----------------------------------------------------------------------------
(* The steps *)

LEMMA HealthStep ==
  ASSUME Health!Bounds, HealthInv, [Health!Next]_(Health!vars)
  PROVE  HealthInv'
  <1>1. CASE Health!Pass
    BY <1>1, StartStep, ProjectEndStep, ProjectOperationStep, ValidateStep, UnavailableStep, WriteStep
        DEF Health!Pass
  <1>2. CASE Health!Operate \/ Health!Control \/ Health!Fail BY <1>2, RootStep
  <1>3. CASE Health!Tick BY <1>3, TickStep
  <1>4. CASE Health!Sync BY <1>4, SyncStep
  <1>5. CASE Health!ProjectControl \/ \E s \in Health!Sources : Health!Rebind(s) \/ Health!Unready(s) BY <1>5,
      ConditionStep
  <1>6. CASE Health!ObserveBitcoin \/ \E m \in Miners : Health!ObserveMiner(m) BY <1>6, ObserverStep
  <1>7. CASE Health!ReportScheduling \/ Health!Block \/ Health!ReportWorker \/ Health!Diverge
        \/ \E m \in Miners : Health!Transfer(m)
    BY <1>7, CapabilityStep
  <1>8. CASE Health!Override BY <1>8, OverrideStep
  <1>9. CASE UNCHANGED Health!vars
    BY <1>9 DEF Health!vars, HealthInv, Health!TypeOK, ObservedInv, Observed, Attributed, SampleInv, Sampled,
        TransferInv,
                InitializedInv, OperationInv, Operable
  <1> QED BY <1>1, <1>2, <1>3, <1>4, <1>5, <1>6, <1>7, <1>8, <1>9 DEF Health!Next, Health!Others

\* No step but the write of a pass publishes Initialized, and no other ends a pass that writes.
LEMMA OtherSteps ==
  ASSUME HealthInv, [Health!Next]_(Health!vars), ~Health!Write
  PROVE  root'.initialized = root.initialized /\ (root' = root \/ pass' = pass)
  <1>1. CASE Health!Start \/ Health!ProjectEnd \/ Health!ProjectOperation \/ Health!Validate
        \/ Health!Unavailable \/ Health!Conflict
    BY <1>1 DEF Health!Start, Health!ProjectEnd, Health!ProjectOperation, Health!Validate, Health!Unavailable,
        Health!Conflict
  <1>2. CASE Health!Operate \/ Health!Control \/ Health!Fail BY <1>2, RootStep
  <1>3. CASE Health!Tick \/ Health!Sync \/ Health!ProjectControl \/ Health!ObserveBitcoin
        \/ Health!ReportScheduling \/ Health!Block \/ Health!ReportWorker
             \/ Health!Diverge \/ Health!Override \/ UNCHANGED Health!vars
    BY <1>3 DEF Health!Tick, Health!Sync, Health!ProjectControl, Health!ObserveBitcoin,
        Health!ReportScheduling, Health!Block, Health!ReportWorker, Health!Diverge,
                Health!Override, Health!participants, Health!vars
  <1>4. CASE \/ \E s \in Health!Sources : Health!Rebind(s) \/ Health!Unready(s)
             \/ \E m \in Miners : Health!ObserveMiner(m) \/ Health!Transfer(m)
    BY <1>4 DEF Health!Rebind, Health!Unready, Health!ObserveMiner, Health!Transfer, Health!participants
  <1> QED BY <1>1, <1>2, <1>3, <1>4 DEF Health!Next, Health!Others, Health!Pass

LEMMA DecisionStep ==
  ASSUME HealthInv, [Health!Next]_(Health!vars)
  PROVE  Health!OperationalDecision /\ Health!InitializedDecision
  <1>1. CASE ~Health!Write
    <2>1. root'.initialized = root.initialized /\ (root' = root \/ pass' = pass) BY <1>1, OtherSteps
    <2>2. pass.pc = "write" => pass # Health!Idle BY IdleFacts
    <2>3. Health!OperationalDecision BY <2>1, <2>2 DEF Health!OperationalDecision
    <2>4. root.initialized \in BOOLEAN BY DEF HealthInv, Health!TypeOK, Health!Root
    <2>5. Health!InitializedDecision BY <2>1, <2>4 DEF Health!InitializedDecision
    <2> QED BY <2>3, <2>5
  <1>2. CASE Health!Write
    <2>1. pass.pc = "write" /\ root = pass.base /\ root' = pass.root BY <1>2 DEF Health!Write
    <2>2. pass.pc # "idle" BY <2>1
    <2>3. Health!InitializedDecision BY <2>1, <2>2 DEF Health!InitializedDecision, HealthInv, InitializedInv
    <2>4. pass.root.oper = "True" => Operable(pass.root) /\ pass.got.over \in pass.timing
      BY <2>1 DEF HealthInv, OperationInv
    <2>5. Health!OperationalDecision BY <2>1, <2>4 DEF Health!OperationalDecision, Operable
    <2> QED BY <2>3, <2>5
  <1> QED BY <1>1, <1>2

\* Root, participants and their copies keep their types, for any miners and any ceiling: a
\* pass holds copies of participants until it writes, and what it writes is a root status.
THEOREM HealthTypes == Health!Spec => []Health!TypeOK
  <1>1. Health!Init => HealthInv BY NetworkAssumption, HealthInitially
  <1>2. HealthInv /\ [Health!Next]_(Health!vars) => HealthInv' BY NetworkAssumption, HealthStep
  <1>3. HealthInv => Health!TypeOK BY DEF HealthInv
  <1> QED BY <1>1, <1>2, <1>3, PTL DEF Health!Spec

-----------------------------------------------------------------------------
(* The foundation of a network *)

-----------------------------------------------------------------------------
(* The inductive invariant *)

Reading == pass.pc # "idle"

Histories == [lost : BOOLEAN, removed : SUBSET Members, held : SUBSET (Members \X Base!Policies)]

\* What the history holds against a network is as it was.
LossesKept == hist'.lost = hist.lost /\ hist'.removed = hist.removed

USE DEF Histories, LossesKept

\* A pass has read a root in which only what users edit is not as it is.
RootInv ==
    Reading =>
      /\ pass.root \in Base!Root /\ (pass.root.deleting => root.deleting)
      /\ pass.root.ids = root.ids /\ pass.root.ref = root.ref /\ pass.root.index = root.index
      /\ pass.root.failed = root.failed /\ pass.root.final = root.final
      /\ pass.pc # "begin" => ~pass.root.deleting /\ pass.root.final /\ ~pass.root.failed

\* How far a pass has come.
StageInv ==
    /\ pass.pc \in {"entries", "admit", "fresh", "recheck", "create", "publish"} =>
         pass.todo \subseteq Base!live(pass.root)
    /\ pass.pc \in {"entries", "admit", "fresh", "recheck", "create"} /\ ~pass.root.ref => genesis.st = "none"
    /\ pass.pc \in {"fresh", "recheck", "create", "publish"} => ~pass.root.ref
    /\ pass.pc = "publish" => genesis.st # "none"
    /\ pass.pc \in {"entries", "fresh"} => pass.todo # {}
    /\ pass.pc \in {"recheck", "create", "publish"} => pass.todo = {}
    /\ pass.pc \notin {"idle", "begin"} /\ ~pass.issue => Base!live(pass.root) = pass.root.entries

\* The instance of a name is the one on the ledger, and goes only for a reason.
LedgerInv ==
    \A n \in Members :
      /\ part[n].uid # 0 /\ root.ids[n].uid # 0 => part[n].uid = root.ids[n].uid
      /\ part[n].adm # 0 => part[n].uid # 0 /\ root.ids[n].uid # 0
      /\ part[n].uid = 0 /\ root.ids[n].uid # 0 => hist.lost \/ root.ids[n].removing \/ root.deleting
      /\ part[n].deleting => hist.lost \/ root.ids[n].removing \/ root.deleting

\* What a genesis captured is on the ledger, and as it was captured while that is needed.
GenesisInv ==
    /\ genesis.st = "none" => ~root.ref
    /\ genesis.st = "lost" => hist.lost
    /\ root.failed => hist.lost \/ (~root.ref /\ \E n \in hist.removed : Base!required(genesis, n))
    /\ \A n \in Members : Base!required(genesis, n) =>
         /\ genesis.st # "none" /\ genesis.of[n] # 0 /\ genesis.of[n] = root.ids[n].uid
         /\ part[n].uid # 0 /\ root.index < Last[n] =>
              part[n].adm # 0 /\ Base!BootstrapPolicyCompatible(genesis.pol[n], part[n].adm)
         /\ ~root.ref => /\ part[n].uid # 0 => part[n].adm = genesis.pol[n]
                         /\ hist.lost \/ n \in hist.removed \/ (n \in root.entries /\ ~root.ids[n].removing)

composed == IF pass.pc = "entries" THEN Base!live(pass.root) \ pass.todo
            ELSE IF pass.pc \in {"admit", "fresh", "recheck", "create"} THEN Base!live(pass.root) ELSE {}

\* What a pass found of an instance is what that is, unless it goes.
InstanceInv ==
    \A n \in composed :
      LET p == pass.inst[n] IN
      /\ p.uid # 0 /\ p.uid = root.ids[n].uid /\ ~p.deleting
      /\ part[n].uid # 0 => part[n] \in {p, [p EXCEPT !.deleting = TRUE]}
      /\ Base!required(genesis, n) /\ root.index < Last[n] =>
           p.adm # 0 /\ Base!BootstrapPolicyCompatible(genesis.pol[n], p.adm)

fresh == IF pass.pc = "fresh" THEN Base!live(pass.root) \ pass.todo
         ELSE IF pass.pc \in {"recheck", "create"} THEN Base!live(pass.root) ELSE {}

\* What a pass is about to capture is admitted, and was defined since it began.
FreshInv ==
    /\ Reading => \A n \in Members : <<n, defs[n]>> \in hist.held
    /\ \A n \in fresh : pass.inst[n].adm = pass.cand[n] /\ <<n, pass.cand[n]>> \in hist.held
    /\ pass.pc = "create" => \A n \in Base!live(pass.root) : n \in hist.removed \cup root.entries

Pending == queue \/ events # {}

Cached == "def" \notin events => cdefs = defs

Withdrawn(r) ==
    \A n \in Members \ r.entries :
      /\ r.ids[n].uid # 0 => r.ids[n].removing
      /\ part[n].uid # 0 /\ part[n].uid = r.ids[n].uid => part[n].deleting

\* A pass that nothing has disturbed since it began has done what it is past.
Done ==
    /\ root = pass.root
    /\ pass.pc # "begin" => Withdrawn(root)
    /\ \A n \in composed : /\ part[n] = pass.inst[n] /\ part[n].hold = (n \in root.hold)
                           /\ pass.cand[n] = defs[n]
    /\ pass.pc = "admit" /\ ~pass.issue =>
         \A n \in composed \ pass.todo : Base!admitted(n) = pass.inst[n]

ProgressInv == Cached /\ (Reading /\ ~Pending => Done)

ObjectsInv == LedgerInv /\ GenesisInv

PassInv == RootInv /\ StageInv /\ InstanceInv /\ FreshInv

FoundationInv == Base!TypeOK /\ ObjectsInv /\ PassInv /\ ProgressInv /\ Base!RestIsConverged

-----------------------------------------------------------------------------
(* Types *)

LEMMA LeastOf ==
  ASSUME NEW S, S \subseteq Members, S # {}, Base!Bounds
  PROVE  Base!Least(S) \in S
  <1>0. S \subseteq Nat BY DEF Base!Bounds
  <1>1. PICK n \in S : \A m \in S : n <= m BY <1>0, Least
  <1> QED BY <1>1 DEF Base!Least

LEMMA CurrentEntry ==
  ASSUME Base!TypeOK, Base!Bounds, pass.todo # {}
  PROVE  Base!Current \in pass.todo /\ Base!Current \in Members
  <1>1. pass.todo \subseteq Members BY DEF Base!TypeOK, Base!PassState
  <1> QED BY <1>1, LeastOf DEF Base!Current

LEMMA EmptyPart == Base!NoPart \in Base!Part BY DEF Base!NoPart, Base!Part, Base!Policies

LEMMA IdleState == Base!Idle \in Base!PassState
  <1> DEFINE e == <<>>
             E == {<<>>} \cup Base!Root
  <1>1. Base!NoPart \in Base!Part BY EmptyPart
  <1>2. e \in E BY Zenon
  <1>3. Base!None \in [Members -> Base!Policies] BY DEF Base!None, Base!Policies
  <1>4. [n \in Members |-> Base!NoPart] \in [Members -> Base!Part] BY <1>1
  <1>5. /\ Base!Idle = [pc |-> "idle", root |-> e, todo |-> {}, cand |-> Base!None,
                       inst |-> [n \in Members |-> Base!NoPart],
                   issue |-> FALSE]
        /\ Base!PassState = [pc : {"idle", "begin", "genesis", "entries", "admit", "fresh", "recheck",
                            "create", "publish"},
                        root : E, todo : SUBSET Members, cand : [Members -> Base!Policies],
                        inst : [Members -> Base!Part], issue : BOOLEAN]
    BY Zenon DEF Base!Idle, Base!PassState
  <1> HIDE DEF e, E
  <1> QED BY <1>2, <1>3, <1>4, <1>5

\* A pass that ends.
LEMMA EndTypes ==
  ASSUME Base!TypeOK, NEW again \in BOOLEAN, Base!End(again)
  PROVE  pass' \in Base!PassState
         /\ queue' \in BOOLEAN /\ hist' \in Histories
         /\ pass' = Base!Idle /\ queue' = (queue \/ again) /\ LossesKept
  BY IdleState DEF Base!End, Base!TypeOK

LEMMA WriteTypes ==
  ASSUME Base!TypeOK, NEW r \in Base!Root, NEW again \in BOOLEAN, Base!WriteRoot(r, again),
         UNCHANGED Base!others
  PROVE  Base!TypeOK'
  <1>1. (again \/ root # pass.root) \in BOOLEAN OBVIOUS
  <1>2. pass' \in Base!PassState /\ queue' \in BOOLEAN
            /\ hist' \in Histories
    BY <1>1, EndTypes DEF Base!WriteRoot
  <1>3. root' \in Base!Root BY DEF Base!WriteRoot, Base!TypeOK
  <1>4. events' \subseteq Base!Objects BY DEF Base!WriteRoot, Base!TypeOK, Base!Objects
  <1> QED BY <1>2, <1>3, <1>4 DEF Base!WriteRoot, Base!others, Base!TypeOK

LEMMA FailTypes ==
  ASSUME Base!TypeOK, pass.root \in Base!Root, Base!Fail, UNCHANGED Base!others
  PROVE  Base!TypeOK'
  <1>1. [pass.root EXCEPT !.failed = TRUE] \in Base!Root BY DEF Base!Root
  <1> QED BY <1>1, WriteTypes DEF Base!Fail

LEMMA GoTypes ==
  ASSUME Base!TypeOK, NEW p \in Base!PassState, Base!Go(p), UNCHANGED Base!others
  PROVE  Base!TypeOK'
  BY DEF Base!Go, Base!others, Base!TypeOK

LEMMA ReturnTypes ==
  ASSUME Base!TypeOK, NEW again \in BOOLEAN, Base!Return(again), UNCHANGED Base!others
  PROVE  Base!TypeOK'
  BY EndTypes DEF Base!Return, Base!others, Base!TypeOK

LEMMA InstanceTypes ==
  ASSUME Base!TypeOK, part' \in [Members -> Base!Part], events' \subseteq Base!Objects, Base!End(TRUE),
         UNCHANGED <<root, genesis, defs, cdefs, uid, budget>>
  PROVE  Base!TypeOK'
  BY EndTypes DEF Base!TypeOK

Rooted == Reading => pass.root \in Base!Root

\* Records that a step changes in one place keep their type.
LEMMA PassField ==
  ASSUME NEW p \in Base!PassState
  PROVE  /\ \A v \in {"idle", "begin", "genesis", "entries", "admit", "fresh", "recheck", "create", "publish"} :
              [p EXCEPT !.pc = v] \in Base!PassState
         /\ \A v \in SUBSET Members : [p EXCEPT !.todo = v] \in Base!PassState
         /\ \A v \in BOOLEAN : [p EXCEPT !.issue = v] \in Base!PassState
  BY DEF Base!PassState

LEMMA LiveNames ==
  ASSUME NEW r \in Base!Root PROVE Base!live(r) \subseteq Members
  BY DEF Base!live, Base!Root

LEMMA TakeTypes ==
  ASSUME Base!TypeOK, Base!Take PROVE Base!TypeOK'
  <1>1. pass' \in Base!PassState BY IdleState DEF Base!Take, Base!PassState, Base!TypeOK
  <1>2. {<<n, defs[n]>> : n \in Members} \in SUBSET (Members \X Base!Policies) BY DEF Base!TypeOK
  <1>3. hist' \in Histories BY <1>2 DEF Base!Take, Base!TypeOK
  <1> QED BY <1>1, <1>3 DEF Base!Take, Base!others, Base!TypeOK

LEMMA DestroyTypes ==
  ASSUME Base!TypeOK, Rooted, Base!Destroy PROVE Base!TypeOK'
  <1>1. CASE \E n \in Members : part[n].uid # 0
    <2>1. part' \in [Members -> Base!Part]
      <3>1. part' = [n \in Members |-> IF part[n].uid # 0 THEN [part[n] EXCEPT !.deleting = TRUE]
                ELSE Base!NoPart]
        BY <1>1 DEF Base!Destroy
      <3>2. \A n \in Members : [part[n] EXCEPT !.deleting = TRUE] \in Base!Part BY DEF Base!TypeOK, Base!Part
      <3> QED BY <3>1, <3>2, EmptyPart
    <2>2. events' \subseteq Base!Objects BY <1>1 DEF Base!Destroy, Base!Notify, Base!TypeOK, Base!Objects
    <2> QED BY <1>1, <2>1, <2>2, InstanceTypes DEF Base!Destroy, Base!others
  <1>2. CASE ~\E n \in Members : part[n].uid # 0
    <2>1. pass.root \in Base!Root BY DEF Rooted, Reading, Base!Destroy
    <2>2. [pass.root EXCEPT !.final = FALSE] \in Base!Root BY <2>1 DEF Base!Root
    <2> QED BY <1>2, <2>2, WriteTypes DEF Base!Destroy
  <1> QED BY <1>1, <1>2

LEMMA FinalizerTypes ==
  ASSUME Base!TypeOK, Rooted, Base!AddFinalizer PROVE Base!TypeOK'
  <1>1. pass.root \in Base!Root BY DEF Rooted, Reading, Base!AddFinalizer
  <1>2. [pass.root EXCEPT !.final = TRUE] \in Base!Root BY <1>1 DEF Base!Root
  <1> QED BY <1>2, WriteTypes DEF Base!AddFinalizer

LEMMA RemovalTypes ==
  ASSUME Base!TypeOK, Rooted, Base!RecordRemoval PROVE Base!TypeOK'
  <1> DEFINE n == Base!Least(Base!withdrawn(pass.root))
  <1>1. pass.root \in Base!Root BY DEF Rooted, Reading, Base!RecordRemoval, Base!Present
  <1>2. [pass.root EXCEPT !.ids[n].removing = TRUE] \in Base!Root BY <1>1 DEF Base!Root
  <1>3. Base!WriteRoot([pass.root EXCEPT !.ids[n].removing = TRUE], TRUE) /\ UNCHANGED Base!others
    BY DEF Base!RecordRemoval
  <1> HIDE DEF n
  <1> QED BY <1>2, <1>3, WriteTypes

LEMMA RemoveTypes ==
  ASSUME Base!TypeOK, Rooted, Base!DeleteRemoved PROVE Base!TypeOK'
  <1>1. part' \in [Members -> Base!Part] BY DEF Base!DeleteRemoved, Base!TypeOK, Base!Part
  <1>2. events' \subseteq Base!Objects BY DEF Base!DeleteRemoved, Base!TypeOK, Base!Objects
  <1>3. CASE pass.root.failed
    <2>1. Base!End(FALSE) BY <1>3 DEF Base!DeleteRemoved
    <2> QED BY <1>1, <1>2, <2>1, EndTypes DEF Base!DeleteRemoved, Base!others, Base!TypeOK
  <1>4. CASE ~pass.root.failed
    <2> DEFINE i == \E n \in pass.root.entries : pass.root.ids[n].removing
    <2>1. pass' = [pass EXCEPT !.pc = "genesis", !.issue = i] /\ UNCHANGED <<queue, hist>>
      BY <1>4 DEF Base!DeleteRemoved
    <2>2. i \in BOOLEAN OBVIOUS
    <2> HIDE DEF i
    <2>3. pass' \in Base!PassState BY <2>1, <2>2 DEF Base!TypeOK, Base!PassState
    <2> QED BY <1>1, <1>2, <2>1, <2>3 DEF Base!DeleteRemoved, Base!others, Base!TypeOK
  <1> QED BY <1>3, <1>4

LEMMA EntriesState ==
  ASSUME Base!TypeOK, pass.root \in Base!Root PROVE Base!Entries \in Base!PassState
  <1>1. Base!live(pass.root) \in SUBSET Members BY LiveNames
  <1> QED BY <1>1 DEF Base!Entries, Base!PassState, Base!TypeOK

LEMMA GenesisTypes ==
  ASSUME Base!TypeOK, Rooted, Base!RecoverGenesis \/ Base!ReadGenesis PROVE Base!TypeOK'
  <1>1. pass.root \in Base!Root BY DEF Rooted, Reading, Base!RecoverGenesis, Base!ReadGenesis
  <1>2. UNCHANGED Base!others BY DEF Base!RecoverGenesis, Base!ReadGenesis
  <1>3. \/ Base!Return(FALSE) \/ Base!Go(Base!Entries) \/ Base!Fail
        \/ Base!WriteRoot([pass.root EXCEPT !.ref = TRUE], TRUE)
    BY Zenon DEF Base!RecoverGenesis, Base!ReadGenesis
  <1>4. [pass.root EXCEPT !.ref = TRUE] \in Base!Root BY <1>1 DEF Base!Root
  <1> QED BY <1>1, <1>2, <1>3, <1>4, ReturnTypes, GoTypes, FailTypes, WriteTypes, EntriesState

LEMMA CreateTypes ==
  ASSUME Base!TypeOK, Rooted, Base!Bounds, StageInv, Base!Create PROVE Base!TypeOK'
  <1>1. pass.root \in Base!Root BY DEF Rooted, Reading, Base!Create
  <1>2. CASE Base!Fail /\ UNCHANGED uid BY <1>1, <1>2, FailTypes DEF Base!Create, Base!others
  <1>3. CASE /\ uid < MaxUid /\ uid' = uid + 1
             /\ part' = [part EXCEPT ![Base!Current] = [Base!NoPart EXCEPT !.uid = uid + 1]]
             /\ Base!Notify("part") /\ Base!End(TRUE) /\ UNCHANGED <<root, genesis>>
    <2>1. uid' \in 0 .. MaxUid /\ uid + 1 \in Nat BY <1>3 DEF Base!TypeOK, Base!Bounds
    <2>2. [Base!NoPart EXCEPT !.uid = uid + 1] \in Base!Part BY <2>1, EmptyPart DEF Base!Part
    <2>3. part' \in [Members -> Base!Part] BY <1>3, <2>2 DEF Base!TypeOK
    <2>4. events' \subseteq Base!Objects BY <1>3 DEF Base!Notify, Base!TypeOK, Base!Objects
    <2>5. UNCHANGED <<defs, cdefs, budget>> BY DEF Base!Create
    <2> QED BY <1>3, <2>1, <2>3, <2>4, <2>5, EndTypes DEF Base!TypeOK
  <1> QED BY <1>2, <1>3 DEF Base!Create

LEMMA IdentityTypes ==
  ASSUME Base!TypeOK, Rooted, Base!Bounds, StageInv, Base!RecordIdentity PROVE Base!TypeOK'
  <1>1. pass.root \in Base!Root /\ UNCHANGED Base!others BY DEF Rooted, Reading, Base!RecordIdentity
  <1>2. part[Base!Current].uid \in Nat
    <2>1. pass.todo # {} BY DEF StageInv, Base!RecordIdentity
    <2> QED BY <2>1, CurrentEntry DEF Base!TypeOK, Base!Part
  <1> DEFINE u == part[Base!Current].uid
             c == Base!Current
  <1>3. Base!Fail \/ Base!WriteRoot([pass.root EXCEPT !.ids[c].uid = u], TRUE) BY DEF Base!RecordIdentity
  <1> HIDE DEF u, c
  <1>4. u \in Nat BY <1>2 DEF u
  <1>5. [pass.root EXCEPT !.ids[c].uid = u] \in Base!Root
    <2> DEFINE i == [pass.root.ids EXCEPT ![c].uid = u]
    <2>1. pass.root.ids \in [Members -> [uid : Nat, removing : BOOLEAN]] BY <1>1 DEF Base!Root
    <2>2. i \in [Members -> [uid : Nat, removing : BOOLEAN]] BY <1>4, <2>1
    <2>3. [pass.root EXCEPT !.ids[c].uid = u] = [pass.root EXCEPT !.ids = i] BY <1>1 DEF Base!Root
    <2> HIDE DEF i
    <2> QED BY <1>1, <2>2, <2>3 DEF Base!Root
  <1> QED BY <1>1, <1>3, <1>5, FailTypes, WriteTypes

LEMMA ControlTypes ==
  ASSUME Base!TypeOK, Base!ProjectControl PROVE Base!TypeOK'
  <1>1. part' \in [Members -> Base!Part] BY DEF Base!ProjectControl, Base!TypeOK, Base!Part
  <1>2. events' \subseteq Base!Objects BY DEF Base!ProjectControl, Base!Notify, Base!TypeOK, Base!Objects
  <1> QED BY <1>1, <1>2, InstanceTypes DEF Base!ProjectControl, Base!others

LEMMA ComposeTypes ==
  ASSUME Base!TypeOK, Rooted, Base!Bounds, StageInv, Base!Compose PROVE Base!TypeOK'
  <1> DEFINE c == Base!Current
             found == [pass EXCEPT !.todo = @ \ {c}, !.cand[c] = cdefs[c], !.inst[c] = part[c]]
             next == IF found.todo = {} THEN [found EXCEPT !.pc = "admit", !.todo = Base!live(pass.root)]
                 ELSE found
  <1>1. pass.root \in Base!Root /\ UNCHANGED Base!others BY DEF Rooted, Reading, Base!Compose
  <1>2. c \in Members
    <2>1. pass.todo # {} BY DEF StageInv, Base!Compose
    <2> QED BY <2>1, CurrentEntry
  <1>3. Base!Go(next) BY DEF Base!Compose
  <1> HIDE DEF c
  <1>4. found \in Base!PassState BY <1>2 DEF Base!TypeOK, Base!PassState
  <1> HIDE DEF found
  <1>5. [found EXCEPT !.pc = "admit", !.todo = Base!live(pass.root)] \in Base!PassState
    <2>1. Base!live(pass.root) \in SUBSET Members BY <1>1, LiveNames
    <2> QED BY <1>4, <2>1 DEF Base!PassState
  <1>6. next \in Base!PassState BY <1>4, <1>5
  <1> HIDE DEF next
  <1> QED BY <1>1, <1>3, <1>6, GoTypes

\* A refused entry is deferred no longer, and is else as it was.
LEMMA ToldPart ==
  ASSUME NEW p \in Base!Part
  PROVE  /\ [p EXCEPT !.deferred = FALSE] \in Base!Part
         /\ [p EXCEPT !.deferred = FALSE].uid = p.uid /\ [p EXCEPT !.deferred = FALSE].adm = p.adm
         /\ [p EXCEPT !.deferred = FALSE].deleting = p.deleting
  BY DEF Base!Part

LEMMA AdmitTypes ==
  ASSUME Base!TypeOK, Rooted, Base!Bounds, Base!Refuse \/ Base!Admit PROVE Base!TypeOK'
  <1> DEFINE c == Base!Current
             skip == [pass EXCEPT !.todo = @ \ {c}]
             told == [pass.inst[c] EXCEPT !.deferred = FALSE]
             refuse == [pass EXCEPT !.issue = TRUE, !.todo = @ \ {c}, !.inst[c] = told]
  <1>1. pass.root \in Base!Root /\ UNCHANGED Base!others
    BY DEF Rooted, Reading, Base!Refuse, Base!Admit, Base!Admitting
  <1>2. c \in Members BY CurrentEntry DEF Base!Refuse, Base!Admit, Base!Admitting
  <1>3. told \in Base!Part /\ skip \in Base!PassState
    <2>1. pass.inst[c] \in Base!Part BY <1>2 DEF Base!TypeOK, Base!PassState
    <2>2. told \in Base!Part BY <2>1, ToldPart
    <2>3. skip \in Base!PassState BY DEF Base!TypeOK, Base!PassState
    <2> QED BY <2>2, <2>3
  <1> HIDE DEF told
  <1>7. refuse \in Base!PassState BY <1>2, <1>3 DEF Base!TypeOK, Base!PassState
  <1>4. \/ Base!Go(refuse) \/ Base!Go(skip) \/ Base!Fail \/ Base!Return(TRUE)
        \/ /\ part' = [part EXCEPT ![c] = told] /\ pass' = refuse /\ Base!Notify("part")
           /\ UNCHANGED <<root, genesis, queue, hist>>
        \/ /\ part' = IF part[c] = pass.inst[c] THEN [part EXCEPT ![c] = Base!admitted(c)] ELSE part
           /\ events' = IF part' = part THEN events ELSE events \cup {"part"}
           /\ Base!End(TRUE) /\ UNCHANGED <<root, genesis>>
    BY Zenon DEF Base!Refuse, Base!Admit, told
  <1> HIDE DEF c, skip, refuse
  <1>5. Base!admitted(c) \in Base!Part
    <2>1. pass.inst[c] \in Base!Part /\ pass.cand[c] \in Base!Policies BY <1>2 DEF Base!TypeOK, Base!PassState
    <2>2. Base!deferral(c) \in BOOLEAN BY DEF Base!deferral
    <2> QED BY <2>1, <2>2 DEF Base!admitted, Base!Part
  <1>6. CASE /\ part' = IF part[c] = pass.inst[c] THEN [part EXCEPT ![c] = Base!admitted(c)] ELSE part
             /\ events' = IF part' = part THEN events ELSE events \cup {"part"}
             /\ Base!End(TRUE) /\ UNCHANGED <<root, genesis>>
    <2>1. part' \in [Members -> Base!Part] BY <1>2, <1>5, <1>6 DEF Base!TypeOK
    <2>2. events' \subseteq Base!Objects BY <1>6 DEF Base!TypeOK, Base!Objects
    <2> QED BY <1>1, <1>6, <2>1, <2>2, InstanceTypes DEF Base!others
  <1>8. CASE /\ part' = [part EXCEPT ![c] = told] /\ pass' = refuse /\ Base!Notify("part")
             /\ UNCHANGED <<root, genesis, queue, hist>>
    BY <1>1, <1>2, <1>3, <1>7, <1>8 DEF Base!TypeOK, Base!Notify, Base!Objects, Base!others
  <1> QED BY <1>1, <1>3, <1>4, <1>6, <1>7, <1>8, GoTypes, FailTypes, ReturnTypes

LEMMA CaptureTypes ==
  ASSUME Base!TypeOK, Rooted, Base!Bounds,
         Base!Resolve \/ Base!Fresh \/ Base!Recheck \/ Base!Capture \/ Base!Publish \/ Base!Abort
  PROVE  Base!TypeOK'
  <1>1. UNCHANGED Base!others
    BY DEF Base!Resolve, Base!Fresh, Base!Recheck, Base!Capture, Base!Publish, Base!Abort
  <1>2. CASE Base!Abort BY <1>1, <1>2, ReturnTypes DEF Base!Abort
  <1>3. pass.root \in Base!Root \/ Base!Abort
    BY DEF Rooted, Reading, Base!Resolve, Base!Fresh, Base!Recheck, Base!Capture, Base!Publish
  <1>4. CASE Base!Resolve
    <2>1. pass.root \in Base!Root BY <1>4 DEF Rooted, Reading, Base!Resolve
    <2>2. [pass EXCEPT !.pc = "fresh", !.todo = Base!live(pass.root)] \in Base!PassState
      <3>1. Base!live(pass.root) \in SUBSET Members BY <2>1, LiveNames
      <3> QED BY <3>1 DEF Base!PassState, Base!TypeOK
    <2>3. Base!Return(TRUE) \/ Base!Return(FALSE) \/ Base!Go([pass EXCEPT !.pc = "fresh",
              !.todo = Base!live(pass.root)])
      BY <1>4, Zenon DEF Base!Resolve
    <2> QED BY <1>1, <2>2, <2>3, ReturnTypes, GoTypes
  <1>5. CASE Base!Fresh
    <2> DEFINE q == [pass EXCEPT !.todo = @ \ {Base!Current}, !.pc = IF pass.todo = {Base!Current}
        THEN "recheck" ELSE @]
    <2>1. q \in Base!PassState BY DEF Base!PassState, Base!TypeOK
    <2>2. Base!Return(TRUE) \/ Base!Go(q) BY <1>5 DEF Base!Fresh
    <2> QED BY <1>1, <2>1, <2>2, ReturnTypes, GoTypes
  <1>6. CASE Base!Recheck
    <2>1. [pass EXCEPT !.pc = "create"] \in Base!PassState BY DEF Base!PassState, Base!TypeOK
    <2>2. Base!Return(TRUE) \/ Base!Go([pass EXCEPT !.pc = "create"]) BY <1>6, Zenon DEF Base!Recheck
    <2> QED BY <1>1, <2>1, <2>2, ReturnTypes, GoTypes
  <1>7. CASE Base!Capture
    <2>1. [pass EXCEPT !.pc = "publish"] \in Base!PassState BY DEF Base!PassState, Base!TypeOK
    <2>2. Base!captured \in Base!Genesis
      BY DEF Base!captured, Base!Genesis, Base!TypeOK, Base!PassState, Base!Policies, Base!Part
    <2>3. CASE genesis.st = "none"
      BY <1>1, <1>7, <2>1, <2>2, <2>3 DEF Base!Capture, Base!Notify, Base!others, Base!TypeOK, Base!Objects
    <2>4. CASE genesis.st # "none"
      <3>1. Base!Go([pass EXCEPT !.pc = "publish"]) \/ Base!Fail BY <1>7, <2>4 DEF Base!Capture
      <3>2. pass.root \in Base!Root BY <1>7 DEF Rooted, Reading, Base!Capture
      <3> QED BY <1>1, <2>1, <3>1, <3>2, GoTypes, FailTypes
    <2> QED BY <2>3, <2>4
  <1>8. CASE Base!Publish
    <2>1. pass.root \in Base!Root BY <1>8 DEF Rooted, Reading, Base!Publish
    <2>2. [pass.root EXCEPT !.ref = TRUE] \in Base!Root BY <2>1 DEF Base!Root
    <2> QED BY <1>8, <2>2, WriteTypes DEF Base!Publish
  <1> QED BY <1>2, <1>4, <1>5, <1>6, <1>7, <1>8

LEMMA CrashTypes ==
  ASSUME Base!TypeOK, Base!Crash PROVE Base!TypeOK'
  <1>1. hist' \in Histories BY DEF Base!Crash, Base!TypeOK
  <1>2. events' \subseteq Base!Objects BY DEF Base!Crash
  <1>3. budget' \in [Base!Kinds -> Nat] BY DEF Base!Crash, Base!Kinds, Base!TypeOK
  <1> QED BY <1>1, <1>2, <1>3, IdleState DEF Base!Crash, Base!TypeOK

LEMMA SpendTypes ==
  ASSUME Base!TypeOK, NEW k \in Base!Kinds, Base!Spend(k) PROVE budget' \in [Base!Kinds -> Nat]
  BY DEF Base!Spend, Base!TypeOK

LEMMA EditTypes ==
  ASSUME Base!TypeOK, NEW r \in Base!Root, Base!Edit(r)
  PROVE  root' \in Base!Root /\ events' \subseteq Base!Objects
  <1>1. root' \in Base!Root BY DEF Base!Edit, Base!Root
  <1>2. events' \subseteq Base!Objects BY DEF Base!Edit, Base!Notify, Base!TypeOK, Base!Objects
  <1> QED BY <1>1, <1>2

LEMMA RootEdits ==
  ASSUME Base!TypeOK, Base!EditRoot PROVE root' \in Base!Root /\ events' \subseteq Base!Objects
  <1>1. CASE \E o \in {"Running", "Paused", "Stopped"} : Base!Edit([root EXCEPT !.op = o])
    <2>1. PICK o \in {"Running", "Paused", "Stopped"} : Base!Edit([root EXCEPT !.op = o]) BY <1>1
    <2>2. [root EXCEPT !.op = o] \in Base!Root BY DEF Base!TypeOK, Base!Root
    <2> QED BY <2>1, <2>2, EditTypes
  <1>2. CASE \E n \in root.entries : Base!Edit([root EXCEPT !.hold = (@ \ {n}) \cup ({n} \ @)])
    <2>1. PICK n \in root.entries : Base!Edit([root EXCEPT !.hold = (@ \ {n}) \cup ({n} \ @)]) BY <1>2
    <2>2. [root EXCEPT !.hold = (@ \ {n}) \cup ({n} \ @)] \in Base!Root BY DEF Base!TypeOK, Base!Root
    <2> QED BY <2>1, <2>2, EditTypes
  <1>3. CASE \E n \in root.entries : Base!Edit([root EXCEPT !.entries = @ \ {n}, !.hold = @ \ {n}])
    <2>1. PICK n \in root.entries : Base!Edit([root EXCEPT !.entries = @ \ {n}, !.hold = @ \ {n}]) BY <1>3
    <2>2. [root EXCEPT !.entries = @ \ {n}, !.hold = @ \ {n}] \in Base!Root BY DEF Base!TypeOK, Base!Root
    <2> QED BY <2>1, <2>2, EditTypes
  <1>4. CASE \E n \in Members \ root.entries : Base!Edit([root EXCEPT !.entries = @ \cup {n}])
    <2>1. PICK n \in Members \ root.entries : Base!Edit([root EXCEPT !.entries = @ \cup {n}]) BY <1>4
    <2>2. [root EXCEPT !.entries = @ \cup {n}] \in Base!Root BY DEF Base!TypeOK, Base!Root
    <2> QED BY <2>1, <2>2, EditTypes
  <1>5. CASE Base!Edit([root EXCEPT !.deleting = TRUE])
    <2>1. [root EXCEPT !.deleting = TRUE] \in Base!Root BY DEF Base!TypeOK, Base!Root
    <2> QED BY <1>5, <2>1, EditTypes
  <1>6. \/ Base!Edit([root EXCEPT !.op = IF @ = "Running" THEN "Paused" ELSE "Running"])
        \/ Base!Edit([root EXCEPT !.op = "Stopped"])
        \/ <1>2!1 \/ <1>3!1 \/ <1>4!1 \/ <1>5!1
    BY Zenon DEF Base!EditRoot
  <1> DEFINE o == IF root.op = "Running" THEN "Paused" ELSE "Running"
  <1>7. Base!Edit([root EXCEPT !.op = IF @ = "Running" THEN "Paused" ELSE "Running"])
          => Base!Edit([root EXCEPT !.op = o]) OBVIOUS
  <1>8. o \in {"Running", "Paused", "Stopped"} OBVIOUS
  <1> HIDE DEF o
  <1>9. Base!Edit([root EXCEPT !.op = o]) \/ Base!Edit([root EXCEPT !.op = "Stopped"]) => <1>1!1 BY <1>8
  <1> QED BY <1>1, <1>2, <1>3, <1>4, <1>5, <1>6, <1>7, <1>9

LEMMA OtherTypes ==
  ASSUME Base!TypeOK, Base!Bounds, Base!Others PROVE Base!TypeOK'
  <1>1. CASE Base!EditRoot
    <2>1. root' \in Base!Root /\ events' \subseteq Base!Objects BY <1>1, RootEdits
    <2>2. PICK k \in Base!Kinds : Base!Spend(k) BY <1>1, Zenon DEF Base!EditRoot, Base!Kinds
    <2>3. budget' \in [Base!Kinds -> Nat] BY <2>2, SpendTypes
    <2>4. UNCHANGED <<part, genesis, defs, cdefs, queue, pass, uid>> BY <1>1, Zenon DEF Base!EditRoot, Base!Edit
    <2>5. hist' \in Histories
      <3>1. root.entries \subseteq Members BY DEF Base!TypeOK, Base!Root
      <3>2. hist' = hist \/ \E n \in root.entries : hist' = [hist EXCEPT !.removed = @ \cup {n}]
        BY <1>1, Zenon DEF Base!EditRoot
      <3> QED BY <3>1, <3>2 DEF Base!TypeOK
    <2> QED BY <2>1, <2>3, <2>4, <2>5 DEF Base!TypeOK
  <1>2. CASE Base!Define
    <2>1. PICK n \in Members, v \in Definitions :
            /\ defs' = [defs EXCEPT ![n] = v]
            /\ hist' = IF pass.pc = "idle" THEN hist ELSE [hist EXCEPT !.held = @ \cup {<<n, v>>}]
      BY <1>2 DEF Base!Define
    <2>2. v \in Base!Policies BY DEF Base!Bounds, Base!Policies
    <2>3. defs' \in [Members -> Base!Policies] BY <2>1, <2>2 DEF Base!TypeOK
    <2>4. hist.held \cup {<<n, v>>} \in SUBSET (Members \X Base!Policies) BY <2>2 DEF Base!TypeOK
    <2>5. hist' \in Histories BY <2>1, <2>4 DEF Base!TypeOK
    <2>6. budget' \in [Base!Kinds -> Nat] BY <1>2, SpendTypes DEF Base!Define, Base!Kinds
    <2>7. events' \subseteq Base!Objects BY <1>2 DEF Base!Define, Base!Notify, Base!TypeOK, Base!Objects
    <2> QED BY <1>2, <2>3, <2>5, <2>6, <2>7 DEF Base!Define, Base!TypeOK
  <1>3. CASE Base!Lose
    <2>1. budget' \in [Base!Kinds -> Nat] BY <1>3, SpendTypes DEF Base!Lose, Base!Kinds
    <2>2. events' \subseteq Base!Objects BY <1>3 DEF Base!Lose, Base!Notify, Base!TypeOK, Base!Objects
    <2>3. part' \in [Members -> Base!Part]
      <3>1. part' = part \/ \E n \in Members : part' = [part EXCEPT ![n].deleting = TRUE] BY <1>3 DEF Base!Lose
      <3>2. \A n \in Members : [part[n] EXCEPT !.deleting = TRUE] \in Base!Part BY DEF Base!TypeOK, Base!Part
      <3> QED BY <3>1, <3>2 DEF Base!TypeOK
    <2>4. genesis' \in Base!Genesis BY <1>3 DEF Base!Lose, Base!TypeOK, Base!Genesis
    <2>5. hist' \in Histories
      BY <1>3 DEF Base!Lose, Base!TypeOK
    <2> QED BY <1>3, <2>1, <2>2, <2>3, <2>4, <2>5 DEF Base!Lose, Base!TypeOK
  <1>4. CASE Base!Vanish
    <2>1. events' \subseteq Base!Objects BY <1>4 DEF Base!Vanish, Base!Notify, Base!TypeOK, Base!Objects
    <2>2. part' \in [Members -> Base!Part] BY <1>4, EmptyPart DEF Base!Vanish, Base!TypeOK
    <2> QED BY <1>4, <2>1, <2>2 DEF Base!Vanish, Base!TypeOK
  <1>5. CASE Base!CompleteGate
    <2>1. budget' \in [Base!Kinds -> Nat] BY <1>5, SpendTypes DEF Base!CompleteGate, Base!Kinds
    <2>2. root' \in Base!Root BY <1>5 DEF Base!CompleteGate, Base!TypeOK, Base!Root
    <2>3. events' \subseteq Base!Objects BY <1>5 DEF Base!CompleteGate, Base!Notify, Base!TypeOK, Base!Objects
    <2> QED BY <1>5, <2>1, <2>2, <2>3 DEF Base!CompleteGate, Base!TypeOK
  <1>6. CASE Base!Deliver
    <2>1. cdefs' \in [Members -> Base!Policies] /\ queue' \in BOOLEAN /\ events' \subseteq Base!Objects
      BY <1>6 DEF Base!Deliver, Base!TypeOK
    <2> QED BY <1>6, <2>1 DEF Base!Deliver, Base!TypeOK
  <1> QED BY <1>1, <1>2, <1>3, <1>4, <1>5, <1>6 DEF Base!Others

LEMMA TypeStep ==
  ASSUME Base!TypeOK, Rooted, StageInv, Base!Bounds, [Base!Next]_(Base!vars) PROVE Base!TypeOK'
  <1>1. CASE Base!Pass
    BY <1>1, TakeTypes, DestroyTypes, FinalizerTypes, RemovalTypes, RemoveTypes, GenesisTypes, CreateTypes,
       IdentityTypes, ControlTypes, ComposeTypes, AdmitTypes, CaptureTypes, CrashTypes DEF Base!Pass
  <1>2. CASE Base!Others BY <1>2, OtherTypes
  <1>3. CASE UNCHANGED Base!vars BY <1>3 DEF Base!vars, Base!TypeOK
  <1> QED BY <1>1, <1>2, <1>3 DEF Base!Next

-----------------------------------------------------------------------------
(* What a pass that ends leaves *)

LEMMA EndedPass ==
  ASSUME pass' = Base!Idle PROVE PassInv' /\ ~Reading'
  <1>1. pass'.pc = "idle" BY DEF Base!Idle
  <1>2. ~Reading' BY <1>1 DEF Reading
  <1>3. RootInv' /\ StageInv' BY <1>1, <1>2 DEF RootInv, StageInv
  <1>4. composed' = {} /\ fresh' = {} BY <1>1 DEF composed, fresh
  <1>5. InstanceInv' /\ FreshInv' BY <1>1, <1>2, <1>4 DEF InstanceInv, FreshInv
  <1> QED BY <1>2, <1>3, <1>5 DEF PassInv

\* There is nothing to show of a rest that is not one.
LEMMA NoRest ==
  ASSUME Pending' \/ pass'.pc # "idle" \/ root'.failed \/ ~root'.final PROVE Base!RestIsConverged'
  BY DEF Pending, Base!Rest, Base!RestIsConverged

LEMMA ReadRoot ==
  ASSUME FoundationInv, Reading
  PROVE  /\ pass.root \in Base!Root /\ (pass.root.deleting => root.deleting)
         /\ pass.root.ids = root.ids /\ pass.root.ref = root.ref /\ pass.root.index = root.index
         /\ pass.root.failed = root.failed /\ pass.root.final = root.final
         /\ pass.pc # "begin" => ~pass.root.deleting /\ pass.root.final /\ ~pass.root.failed
  BY DEF FoundationInv, PassInv, RootInv

\* A root write changes the root to r, or the pass is retried.
LEMMA FoundationWriteStep ==
  ASSUME FoundationInv, Base!TypeOK', NEW r, NEW again \in BOOLEAN, Base!WriteRoot(r, again),
         UNCHANGED Base!others,
         root = pass.root /\ root' = r /\ UNCHANGED <<part, genesis>> /\ LossesKept => ObjectsInv',
         again \/ r # root \/ r.failed \/ ~r.final
  PROVE  FoundationInv'
  <1>1. /\ pass' = Base!Idle /\ queue' = (queue \/ (again \/ root # pass.root)) /\ LossesKept
        /\ UNCHANGED <<part, genesis, defs, cdefs>>
    BY DEF Base!WriteRoot, Base!End, Base!others, FoundationInv, Base!TypeOK
  <1>2. Cached' BY <1>1 DEF Cached, Base!WriteRoot, FoundationInv, ProgressInv
  <1>3. PassInv' /\ ~Reading' BY <1>1, EndedPass
  <1>4. CASE root # pass.root
    <2>1. root' = root BY <1>4 DEF Base!WriteRoot
    <2>2. ObjectsInv' BY <1>1, <2>1 DEF FoundationInv, ObjectsInv, LedgerInv, GenesisInv, Base!required
    <2>3. Base!RestIsConverged' BY <1>1, <1>4, NoRest DEF Pending
    <2> QED BY <1>2, <1>3, <2>2, <2>3 DEF FoundationInv, ProgressInv
  <1>5. CASE root = pass.root
    <2>1. root' = r BY <1>5 DEF Base!WriteRoot
    <2>2. ObjectsInv' BY <1>1, <1>5, <2>1
    <2>3. again \/ r # root => Pending' BY <1>1, <1>5 DEF Pending, Base!WriteRoot
    <2>4. Base!RestIsConverged' BY <2>1, <2>3, NoRest
    <2> QED BY <1>2, <1>3, <2>2, <2>4 DEF FoundationInv, ProgressInv
  <1> QED BY <1>4, <1>5

LEMMA FailStep ==
  ASSUME FoundationInv, Base!TypeOK', Reading, Base!Fail, UNCHANGED Base!others,
         root = pass.root => hist.lost \/ (~root.ref /\ \E n \in hist.removed : Base!required(genesis, n))
  PROVE  FoundationInv'
  <1> DEFINE r == [pass.root EXCEPT !.failed = TRUE]
  <1>1. pass.root \in Base!Root BY ReadRoot
  <1>2. /\ r.failed /\ r.ids = pass.root.ids /\ r.deleting = pass.root.deleting /\ r.ref = pass.root.ref
        /\ r.index = pass.root.index /\ r.entries = pass.root.entries
    BY <1>1 DEF Base!Root
  <1>3. Base!WriteRoot(r, FALSE) BY DEF Base!Fail
  <1> HIDE DEF r
  <1>4. ASSUME root = pass.root, root' = r, UNCHANGED <<part, genesis>>, LossesKept
        PROVE  ObjectsInv'
    BY <1>2, <1>4 DEF FoundationInv, ObjectsInv, LedgerInv, GenesisInv, Base!required
  <1> QED BY <1>2, <1>3, <1>4, FoundationWriteStep

\* An instance is written and the pass begins again.
LEMMA InstanceStep ==
  ASSUME FoundationInv, Base!TypeOK', ObjectsInv', Base!End(TRUE), events \subseteq events',
         UNCHANGED <<defs, cdefs>>
  PROVE  FoundationInv'
  <1>1. pass' = Base!Idle /\ queue' BY DEF Base!End
  <1>2. PassInv' /\ ~Reading' BY <1>1, EndedPass
  <1>3. Cached' BY DEF Cached, FoundationInv, ProgressInv
  <1>4. Base!RestIsConverged' BY <1>1, NoRest DEF Pending
  <1> QED BY <1>2, <1>3, <1>4 DEF FoundationInv, ProgressInv

LEMMA ReturnStep ==
  ASSUME FoundationInv, Base!TypeOK', NEW again \in BOOLEAN, Base!Return(again), UNCHANGED Base!others,
         ~again /\ ~Pending => Base!RestIsConverged'
  PROVE  FoundationInv'
  <1>1. pass' = Base!Idle /\ queue' = (queue \/ again) /\ LossesKept
        /\ UNCHANGED <<root, part, genesis, events, defs, cdefs>>
    BY DEF Base!Return, Base!End, Base!others, FoundationInv, Base!TypeOK
  <1>2. PassInv' /\ ~Reading' BY <1>1, EndedPass
  <1>3. Cached' BY <1>1 DEF Cached, FoundationInv, ProgressInv
  <1>4. ObjectsInv' BY <1>1 DEF FoundationInv, ObjectsInv, LedgerInv, GenesisInv, Base!required
  <1>5. again \/ Pending => Pending' BY <1>1 DEF Pending
  <1>6. Base!RestIsConverged' BY <1>5, NoRest
  <1> QED BY <1>2, <1>3, <1>4, <1>6 DEF FoundationInv, ProgressInv

\* A pass that goes on.
LEMMA GoStep ==
  ASSUME FoundationInv, Base!TypeOK', NEW p, Base!Go(p), UNCHANGED Base!others, p.pc # "idle", PassInv',
         ~Pending => Done'
  PROVE  FoundationInv'
  <1>1. pass' = p /\ UNCHANGED <<root, part, genesis, events, queue, hist, defs, cdefs>>
    BY DEF Base!Go, Base!others
  <1>2. ObjectsInv' BY <1>1 DEF FoundationInv, ObjectsInv, LedgerInv, GenesisInv, Base!required
  <1>3. Cached' BY <1>1 DEF Cached, FoundationInv, ProgressInv
  <1>4. Pending' = Pending BY <1>1 DEF Pending
  <1>5. Base!RestIsConverged' BY <1>1, NoRest
  <1> QED BY <1>2, <1>3, <1>4, <1>5 DEF FoundationInv, ProgressInv

-----------------------------------------------------------------------------
(* The steps of a pass *)

LEMMA TakeStep ==
  ASSUME FoundationInv, Base!TypeOK', Base!Take PROVE FoundationInv'
  <1>1. /\ pass'.pc = "begin" /\ pass'.root = root /\ ~queue'
        /\ hist'.held = {<<n, defs[n]>> : n \in Members} /\ LossesKept
        /\ UNCHANGED <<root, part, genesis, events, defs, cdefs>>
    <2>1. pass' = [Base!Idle EXCEPT !.pc = "begin", !.root = root] BY DEF Base!Take
    <2>2. pass'.pc = "begin" /\ pass'.root = root BY <2>1, IdleState DEF Base!PassState
    <2> QED BY <2>2 DEF Base!Take, Base!others, FoundationInv, Base!TypeOK
  <1>2. ObjectsInv' BY <1>1 DEF FoundationInv, ObjectsInv, LedgerInv, GenesisInv, Base!required
  <1>3. RootInv' /\ StageInv' BY <1>1 DEF RootInv, StageInv, FoundationInv, Base!TypeOK
  <1>4. composed' = {} /\ fresh' = {} BY <1>1 DEF composed, fresh
  <1>5. InstanceInv' BY <1>4 DEF InstanceInv
  <1>6. FreshInv'
    <2>1. \A n \in Members : <<n, defs[n]>> \in {<<m, defs[m]>> : m \in Members} BY Zenon
    <2> QED BY <1>1, <1>4, <2>1 DEF FreshInv
  <1>7. ProgressInv'
    <2>1. Done' BY <1>1, <1>4 DEF Done
    <2> QED BY <1>1, <2>1 DEF ProgressInv, Cached, FoundationInv
  <1>8. Base!RestIsConverged' BY <1>1, NoRest
  <1> QED BY <1>2, <1>3, <1>5, <1>6, <1>7, <1>8 DEF FoundationInv, PassInv

LEMMA DestroyStep ==
  ASSUME FoundationInv, Base!TypeOK', Base!Destroy PROVE FoundationInv'
  <1>0. Reading /\ pass.root.deleting /\ UNCHANGED Base!others BY DEF Base!Destroy, Reading
  <1>1. CASE \E n \in Members : part[n].uid # 0
    <2>1. /\ part' = [n \in Members |-> IF part[n].uid # 0 THEN [part[n] EXCEPT !.deleting = TRUE]
              ELSE Base!NoPart]
          /\ events' = events \cup {"part"} /\ Base!End(TRUE) /\ UNCHANGED <<root, genesis>>
      BY <1>1 DEF Base!Destroy, Base!Notify
    <2>2. root.deleting BY <1>0, ReadRoot
    <2>3. \A n \in Members : part'[n].uid = part[n].uid /\ part'[n].adm = part[n].adm
      BY <2>1 DEF Base!NoPart, FoundationInv, Base!TypeOK, Base!Part, ObjectsInv, LedgerInv
    <2>4. LossesKept BY <2>1 DEF Base!End, FoundationInv, Base!TypeOK
    <2>5. LedgerInv' BY <2>1, <2>2, <2>3, <2>4 DEF FoundationInv, ObjectsInv, LedgerInv
    <2>6. GenesisInv' BY <2>1, <2>3, <2>4 DEF FoundationInv, ObjectsInv, GenesisInv, Base!required
    <2> QED BY <1>0, <2>1, <2>5, <2>6, InstanceStep DEF ObjectsInv, Base!others
  <1>2. CASE ~\E n \in Members : part[n].uid # 0
    <2> DEFINE r == [pass.root EXCEPT !.final = FALSE]
    <2>1. pass.root \in Base!Root BY <1>0, ReadRoot
    <2>2. /\ ~r.final /\ r.failed = pass.root.failed /\ r.ids = pass.root.ids
          /\ r.deleting = pass.root.deleting /\ r.ref = pass.root.ref
          /\ r.index = pass.root.index /\ r.entries = pass.root.entries
      BY <2>1 DEF Base!Root
    <2>3. Base!WriteRoot(r, FALSE) BY <1>2 DEF Base!Destroy
    <2> HIDE DEF r
    <2>4. ASSUME root = pass.root, root' = r, UNCHANGED <<part, genesis>>, LossesKept
          PROVE  ObjectsInv'
      BY <2>2, <2>4 DEF FoundationInv, ObjectsInv, LedgerInv, GenesisInv, Base!required
    <2> QED BY <1>0, <2>2, <2>3, <2>4, FoundationWriteStep
  <1> QED BY <1>1, <1>2

LEMMA FinalizerStep ==
  ASSUME FoundationInv, Base!TypeOK', Base!AddFinalizer PROVE FoundationInv'
  <1> DEFINE r == [pass.root EXCEPT !.final = TRUE]
  <1>0. Reading BY DEF Base!AddFinalizer, Reading
  <1>1. pass.root \in Base!Root BY <1>0, ReadRoot
  <1>2. /\ r.failed = pass.root.failed /\ r.ids = pass.root.ids
        /\ r.deleting = pass.root.deleting /\ r.ref = pass.root.ref
        /\ r.index = pass.root.index /\ r.entries = pass.root.entries
    BY <1>1 DEF Base!Root
  <1>3. Base!WriteRoot(r, TRUE) /\ UNCHANGED Base!others BY DEF Base!AddFinalizer
  <1> HIDE DEF r
  <1>4. ASSUME root = pass.root, root' = r, UNCHANGED <<part, genesis>>, LossesKept
        PROVE  ObjectsInv'
    BY <1>2, <1>4 DEF FoundationInv, ObjectsInv, LedgerInv, GenesisInv, Base!required
  <1> QED BY <1>3, <1>4, FoundationWriteStep

LEMMA RemovalStep ==
  ASSUME FoundationInv, Base!TypeOK', Base!Bounds, Base!RecordRemoval PROVE FoundationInv'
  <1> DEFINE c == Base!Least(Base!withdrawn(pass.root))
             r == [pass.root EXCEPT !.ids[c].removing = TRUE]
  <1>0. Reading BY DEF Base!RecordRemoval, Base!Present, Reading
  <1>1. pass.root \in Base!Root BY <1>0, ReadRoot
  <1>2. Base!WriteRoot(r, TRUE) /\ UNCHANGED Base!others /\ Base!withdrawn(pass.root) # {}
    BY DEF Base!RecordRemoval
  <1>3. c \in Members /\ c \notin pass.root.entries
    <2>1. Base!withdrawn(pass.root) \subseteq Members BY DEF Base!withdrawn
    <2>2. c \in Base!withdrawn(pass.root) BY <1>2, <2>1, LeastOf
    <2> HIDE DEF c
    <2> QED BY <2>2 DEF Base!withdrawn
  <1> HIDE DEF c
  <1>4. /\ r.failed = pass.root.failed /\ r.deleting = pass.root.deleting /\ r.ref = pass.root.ref
        /\ r.index = pass.root.index /\ r.entries = pass.root.entries
        /\ \A n \in Members : /\ r.ids[n].uid = pass.root.ids[n].uid
                              /\ r.ids[n].removing = (n = c \/ pass.root.ids[n].removing)
    BY <1>1, <1>3 DEF Base!Root
  <1> HIDE DEF r
  <1>5. ASSUME root = pass.root, root' = r, UNCHANGED <<part, genesis>>, LossesKept
        PROVE  ObjectsInv'
    <2>1. LedgerInv' BY <1>4, <1>5 DEF FoundationInv, ObjectsInv, LedgerInv
    <2>2. GenesisInv' BY <1>3, <1>4, <1>5 DEF FoundationInv, ObjectsInv, GenesisInv, Base!required
    <2> QED BY <2>1, <2>2 DEF ObjectsInv
  <1> QED BY <1>2, <1>5, FoundationWriteStep

LEMMA RemoveStep ==
  ASSUME FoundationInv, Base!TypeOK', Base!DeleteRemoved PROVE FoundationInv'
  <1> DEFINE gone == {n \in Members : pass.root.ids[n].removing /\ part[n].uid = pass.root.ids[n].uid}
             i == \E n \in pass.root.entries : pass.root.ids[n].removing
  <1>0. Reading /\ pass.pc = "begin" /\ ~pass.root.deleting /\ pass.root.final
    BY DEF Base!DeleteRemoved, Base!Present, Reading
  <1>1. /\ pass.root \in Base!Root /\ pass.root.ids = root.ids /\ pass.root.ref = root.ref
        /\ pass.root.failed = root.failed
    BY <1>0, ReadRoot
  <1>2. /\ part' = [n \in Members |-> IF n \in gone THEN [part[n] EXCEPT !.deleting = TRUE] ELSE part[n]]
        /\ events' = IF part' = part THEN events ELSE events \cup {"part"}
        /\ UNCHANGED <<root, genesis, defs, cdefs>> /\ Base!withdrawn(pass.root) = {}
    BY DEF Base!DeleteRemoved, Base!others
  <1>3. LossesKept BY DEF Base!DeleteRemoved, Base!End, FoundationInv, Base!TypeOK
  <1>4. \A n \in Members : /\ part'[n].uid = part[n].uid /\ part'[n].adm = part[n].adm
                           /\ part'[n].deleting = (n \in gone \/ part[n].deleting)
    BY <1>2 DEF FoundationInv, Base!TypeOK, Base!Part
  <1>5. ObjectsInv'
    <2>1. LedgerInv' BY <1>1, <1>2, <1>3, <1>4 DEF FoundationInv, ObjectsInv, LedgerInv
    <2>2. GenesisInv' BY <1>2, <1>3, <1>4 DEF FoundationInv, ObjectsInv, GenesisInv, Base!required
    <2> QED BY <2>1, <2>2 DEF ObjectsInv
  <1>6. Cached' BY <1>2 DEF Cached, FoundationInv, ProgressInv
  <1>7. CASE pass.root.failed
    <2>1. pass' = Base!Idle /\ root'.failed BY <1>1, <1>2, <1>7 DEF Base!DeleteRemoved, Base!End
    <2>2. PassInv' /\ ~Reading' BY <2>1, EndedPass
    <2> QED BY <1>5, <1>6, <2>1, <2>2, NoRest DEF FoundationInv, ProgressInv
  <1>8. CASE ~pass.root.failed
    <2>1. pass' = [pass EXCEPT !.pc = "genesis", !.issue = i] /\ UNCHANGED <<queue, hist>>
      BY <1>8 DEF Base!DeleteRemoved
    <2>2. /\ pass'.pc = "genesis" /\ pass'.root = pass.root /\ (pass'.issue <=> i)
      <3> HIDE DEF i
      <3> QED BY <2>1 DEF FoundationInv, Base!TypeOK, Base!PassState
    <2>3. ~i => Base!live(pass.root) = pass.root.entries BY DEF Base!live
    <2>4. StageInv' BY <2>2, <2>3 DEF StageInv, Base!live
    <2>5. RootInv' BY <1>0, <1>1, <1>2, <1>8, <2>2 DEF RootInv, FoundationInv, PassInv, Reading
    <2>6. composed' = {} /\ fresh' = {} BY <2>2 DEF composed, fresh
    <2>7. InstanceInv' /\ FreshInv'
      BY <1>0, <1>2, <2>1, <2>2, <2>6 DEF InstanceInv, FreshInv, FoundationInv, PassInv
    <2>8. ASSUME ~Pending' PROVE Done'
      <3>1. ~queue /\ events = {} /\ part' = part BY <1>2, <2>1, <2>8 DEF Pending
      <3>2. root = pass.root BY <1>0, <3>1 DEF FoundationInv, ProgressInv, Pending, Done
      <3>3. Withdrawn(root)'
        <4> SUFFICES ASSUME NEW n \in Members \ root.entries
                     PROVE  /\ root.ids[n].uid # 0 => root.ids[n].removing
                            /\ part[n].uid # 0 /\ part[n].uid = root.ids[n].uid => part[n].deleting
          BY <1>2, <3>1 DEF Withdrawn
        <4>1. root.ids[n].uid # 0 => root.ids[n].removing
          BY <1>2, <3>2 DEF Base!withdrawn
        <4>2. part[n].uid # 0 /\ part[n].uid = root.ids[n].uid => n \in gone
          BY <3>2, <4>1
        <4> QED BY <1>4, <3>1, <4>1, <4>2
      <3> QED BY <1>2, <2>2, <2>6, <3>2, <3>3 DEF Done
    <2>9. Base!RestIsConverged' BY <2>2, NoRest
    <2> QED BY <1>5, <1>6, <2>4, <2>5, <2>7, <2>8, <2>9 DEF FoundationInv, PassInv, ProgressInv
  <1> QED BY <1>7, <1>8

\* What a captured instance that is gone stands for.
LEMMA CaptureLost ==
  ASSUME FoundationInv, Reading, root = pass.root, pass.pc # "begin", ~root.ref, genesis.st # "none",
         ~(/\ genesis.st = "live"
           /\ \A n \in Members : genesis.pol[n] # 0 => part[n].uid = genesis.of[n]
                                                                     /\ part[n].adm = genesis.pol[n])
  PROVE  hist.lost \/ \E n \in hist.removed : Base!required(genesis, n)
  <1>1. CASE genesis.st = "lost" BY <1>1 DEF FoundationInv, ObjectsInv, GenesisInv
  <1>2. CASE genesis.st = "live"
    <2>1. PICK n \in Members : genesis.pol[n] # 0 /\ ~(part[n].uid = genesis.of[n]
                                                                     /\ part[n].adm = genesis.pol[n])
      BY <1>2
    <2>2. ~root.deleting BY ReadRoot
    <2>3. /\ genesis.of[n] # 0 /\ genesis.of[n] = root.ids[n].uid
          /\ part[n].uid # 0 => part[n].adm = genesis.pol[n]
          /\ hist.lost \/ n \in hist.removed \/ ~root.ids[n].removing
          /\ Base!required(genesis, n)
      BY <2>1 DEF FoundationInv, ObjectsInv, GenesisInv, Base!required
    <2>4. CASE part[n].uid = 0 BY <2>2, <2>3, <2>4 DEF FoundationInv, ObjectsInv, LedgerInv
    <2>5. CASE part[n].uid # 0 BY <2>1, <2>3, <2>5 DEF FoundationInv, ObjectsInv, LedgerInv
    <2> QED BY <2>4, <2>5
  <1> QED BY <1>1, <1>2 DEF FoundationInv, Base!TypeOK, Base!Genesis

\* The pass turns to the entries.
LEMMA EntriesStep ==
  ASSUME FoundationInv, Base!TypeOK', pass.pc = "genesis", root.ref \/ genesis.st = "none",
         Base!Go(Base!Entries), UNCHANGED Base!others
  PROVE  FoundationInv'
  <1>0. Reading BY DEF Reading
  <1>1. /\ pass.root.ref = root.ref /\ pass.root \in Base!Root BY <1>0, ReadRoot
  <1>2. /\ pass'.pc = IF Base!live(pass.root) = {} THEN "admit" ELSE "entries"
        /\ pass'.todo = Base!live(pass.root) /\ pass'.root = pass.root /\ pass'.issue = pass.issue
        /\ Base!Entries.pc = pass'.pc
        /\ UNCHANGED <<root, part, genesis, events, queue, hist, defs>>
    BY DEF Base!Go, Base!Entries, FoundationInv, Base!TypeOK, Base!PassState, Base!others
  <1>3. RootInv' BY <1>0, <1>2, ReadRoot DEF RootInv
  <1>4. StageInv' BY <1>1, <1>2 DEF StageInv, Base!live, FoundationInv, PassInv
  <1>5. composed' = {} /\ fresh' = {} BY <1>2 DEF composed, fresh, Base!live
  <1>6. InstanceInv' /\ FreshInv'
    BY <1>0, <1>2, <1>5 DEF InstanceInv, FreshInv, FoundationInv, PassInv
  <1>7. ASSUME ~Pending PROVE Done'
    <2>1. Done BY <1>0, <1>7 DEF FoundationInv, ProgressInv
    <2> QED BY <1>2, <1>5, <2>1 DEF Done, Withdrawn
  <1>8. Base!Entries.pc # "idle" BY <1>2
  <1> QED BY <1>3, <1>4, <1>6, <1>7, <1>8, GoStep DEF PassInv

\* A stopped network rests.
LEMMA StoppedStep ==
  ASSUME FoundationInv, Base!TypeOK', Reading, pass.root.op = "Stopped", Base!Return(FALSE),
         UNCHANGED Base!others
  PROVE  FoundationInv'
  <1>1. ASSUME ~Pending PROVE Base!RestIsConverged'
    <2>1. root.op = "Stopped" BY <1>1 DEF FoundationInv, ProgressInv, Done
    <2> QED BY <2>1 DEF Base!RestIsConverged, Base!Return
  <1> QED BY <1>1, ReturnStep

\* A capture is published.
LEMMA PublishStep ==
  ASSUME FoundationInv, Base!TypeOK', Reading, pass.pc # "begin", genesis.st # "none", ~root.ref,
         UNCHANGED Base!others, NEW again \in BOOLEAN, Base!WriteRoot([pass.root EXCEPT !.ref = TRUE], again)
  PROVE  FoundationInv'
  <1> DEFINE r == [pass.root EXCEPT !.ref = TRUE]
  <1>1. pass.root \in Base!Root /\ ~pass.root.failed BY ReadRoot
  <1>2. /\ r.failed = pass.root.failed /\ r.ids = pass.root.ids /\ r.deleting = pass.root.deleting /\ r.ref
        /\ r.index = pass.root.index /\ r.entries = pass.root.entries
    BY <1>1 DEF Base!Root
  <1>3. Base!WriteRoot(r, again) OBVIOUS
  <1> HIDE DEF r
  <1>4. ASSUME root = pass.root, root' = r, UNCHANGED <<part, genesis>>, LossesKept
        PROVE  ObjectsInv'
    BY <1>1, <1>2, <1>4 DEF FoundationInv, ObjectsInv, LedgerInv, GenesisInv, Base!required
  <1>5. r # root BY <1>2
  <1> QED BY <1>3, <1>4, <1>5, FoundationWriteStep

LEMMA GenesisStep ==
  ASSUME FoundationInv, Base!TypeOK', Base!RecoverGenesis \/ Base!ReadGenesis PROVE FoundationInv'
  <1>0. Reading /\ pass.pc = "genesis" /\ UNCHANGED Base!others
    BY DEF Base!RecoverGenesis, Base!ReadGenesis, Reading
  <1>1. pass.root.ref = root.ref BY <1>0, ReadRoot
  <1> DEFINE kept == /\ genesis.st = "live"
                     /\ \A n \in Members : genesis.pol[n] # 0 =>
                          part[n].uid = genesis.of[n] /\ part[n].adm = genesis.pol[n]
  <1>2. CASE Base!RecoverGenesis
    <2>1. \/ pass.root.op = "Stopped" /\ Base!Return(FALSE)
          \/ genesis.st = "none" /\ Base!Go(Base!Entries)
          \/ genesis.st # "none" /\ kept /\ Base!WriteRoot([pass.root EXCEPT !.ref = TRUE], TRUE)
          \/ genesis.st # "none" /\ ~kept /\ Base!Fail
      BY <1>2, Zenon DEF Base!RecoverGenesis
    <2>2. ~root.ref BY <1>1, <1>2 DEF Base!RecoverGenesis
    <2>3. genesis.st # "none" /\ ~kept /\ root = pass.root
            => hist.lost \/ \E n \in hist.removed : Base!required(genesis, n)
      BY <1>0, <2>2, CaptureLost
    <2> HIDE DEF kept
    <2>4. CASE Base!Fail /\ genesis.st # "none" /\ ~kept BY <1>0, <2>2, <2>3, <2>4, FailStep
    <2>5. CASE genesis.st # "none" /\ Base!WriteRoot([pass.root EXCEPT !.ref = TRUE], TRUE)
      BY <1>0, <2>2, <2>5, PublishStep
    <2> QED BY <1>0, <2>1, <2>4, <2>5, StoppedStep, EntriesStep
  <1>3. CASE Base!ReadGenesis
    <2>1. \/ pass.root.op = "Stopped" /\ Base!Return(FALSE)
          \/ Base!Go(Base!Entries)
          \/ genesis.st # "live" /\ Base!Fail
      BY <1>3, Zenon DEF Base!ReadGenesis
    <2>2. root.ref BY <1>1, <1>3 DEF Base!ReadGenesis
    <2>3. genesis.st # "live" => hist.lost
      BY <2>2 DEF FoundationInv, ObjectsInv, GenesisInv, Base!TypeOK, Base!Genesis
    <2> QED BY <1>0, <2>1, <2>2, <2>3, StoppedStep, EntriesStep, FailStep
  <1> QED BY <1>2, <1>3

LEMMA CreateStep ==
  ASSUME FoundationInv, Base!TypeOK', Base!Bounds, Base!Create PROVE FoundationInv'
  <1> DEFINE c == Base!Current
  <1>0. Reading /\ pass.pc = "entries" /\ part[c].uid = 0 BY DEF Base!Create, Reading
  <1>1. c \in pass.todo /\ c \in Members
    <2>1. pass.todo # {} BY <1>0 DEF FoundationInv, PassInv, StageInv
    <2> QED BY <2>1, CurrentEntry DEF FoundationInv
  <1>2. pass.root.ids = root.ids BY <1>0, ReadRoot
  <1>3. \/ pass.root.ids[c].uid # 0 /\ Base!Fail /\ UNCHANGED uid
        \/ /\ pass.root.ids[c].uid = 0 /\ uid' = uid + 1
           /\ part' = [part EXCEPT ![c] = [Base!NoPart EXCEPT !.uid = uid + 1]]
           /\ events' = events \cup {"part"} /\ Base!End(TRUE) /\ UNCHANGED <<root, genesis>>
    BY DEF Base!Create, Base!Notify
  <1>4. UNCHANGED <<defs, cdefs, budget>> BY DEF Base!Create
  <1> HIDE DEF c
  <1>5. CASE pass.root.ids[c].uid # 0 /\ Base!Fail /\ UNCHANGED uid
    <2>1. ASSUME root = pass.root PROVE hist.lost
      <3>1. ~root.deleting /\ c \in Base!live(pass.root)
        BY <1>0, <1>1, <2>1, ReadRoot DEF FoundationInv, PassInv, StageInv
      <3>2. ~root.ids[c].removing BY <2>1, <3>1 DEF Base!live
      <3> QED BY <1>0, <1>1, <1>2, <1>5, <3>1, <3>2 DEF FoundationInv, ObjectsInv, LedgerInv
    <2> QED BY <1>0, <1>4, <1>5, <2>1, FailStep DEF Base!others
  <1>6. CASE /\ pass.root.ids[c].uid = 0 /\ uid' = uid + 1
             /\ part' = [part EXCEPT ![c] = [Base!NoPart EXCEPT !.uid = uid + 1]]
             /\ events' = events \cup {"part"} /\ Base!End(TRUE) /\ UNCHANGED <<root, genesis>>
    <2>1. LossesKept BY <1>6 DEF Base!End, FoundationInv, Base!TypeOK
    <2>2. \A n \in Members : IF n = c THEN part'[n].adm = 0 /\ ~part'[n].deleting /\ part'[n].uid # 0
                           ELSE part'[n] = part[n]
      BY <1>1, <1>6 DEF FoundationInv, Base!TypeOK, Base!NoPart
    <2>3. root'.ids[c].uid = 0 BY <1>2, <1>6
    <2>4. LedgerInv' BY <1>6, <2>1, <2>2, <2>3 DEF FoundationInv, ObjectsInv, LedgerInv
    <2>5. GenesisInv'
      <3>1. ~Base!required(genesis, c) BY <1>1, <1>6, <2>3 DEF FoundationInv, ObjectsInv, GenesisInv
      <3> QED BY <1>6, <2>1, <2>2, <3>1 DEF FoundationInv, ObjectsInv, GenesisInv, Base!required
    <2> QED BY <1>4, <1>6, <2>4, <2>5, InstanceStep DEF ObjectsInv
  <1> QED BY <1>3, <1>5, <1>6

LEMMA IdentityStep ==
  ASSUME FoundationInv, Base!TypeOK', Base!Bounds, Base!RecordIdentity PROVE FoundationInv'
  <1> DEFINE c == Base!Current
             u == part[c].uid
             r == [pass.root EXCEPT !.ids[c].uid = u]
  <1>0. /\ Reading /\ pass.pc = "entries" /\ u # 0 /\ UNCHANGED Base!others
        /\ Base!foreign(part[c], pass.root.ids[c]) \/ pass.root.ids[c].uid = 0
    BY DEF Base!RecordIdentity, Reading
  <1>1. c \in pass.todo /\ c \in Members
    <2>1. pass.todo # {} BY <1>0 DEF FoundationInv, PassInv, StageInv
    <2> QED BY <2>1, CurrentEntry DEF FoundationInv
  <1>2. pass.root.ids = root.ids /\ pass.root \in Base!Root BY <1>0, ReadRoot
  <1>3. \/ Base!foreign(part[c], pass.root.ids[c]) /\ Base!Fail
        \/ /\ ~Base!foreign(part[c], pass.root.ids[c]) /\ pass.root.ids[c].uid = 0
           /\ Base!WriteRoot(r, TRUE)
    BY <1>0 DEF Base!RecordIdentity
  <1> HIDE DEF c
  <1>4. CASE Base!foreign(part[c], pass.root.ids[c]) /\ Base!Fail
    <2>1. ASSUME root = pass.root PROVE hist.lost
      <3>1. ~root.deleting /\ c \in Base!live(pass.root)
        BY <1>0, <1>1, <2>1, ReadRoot DEF FoundationInv, PassInv, StageInv
      <3>2. ~root.ids[c].removing BY <2>1, <3>1 DEF Base!live
      <3>3. part[c].deleting
        BY <1>0, <1>1, <1>2, <1>4 DEF Base!foreign, FoundationInv, ObjectsInv, LedgerInv
      <3> QED BY <1>1, <3>1, <3>2, <3>3 DEF FoundationInv, ObjectsInv, LedgerInv
    <2> QED BY <1>0, <1>4, <2>1, FailStep
  <1>5. CASE ~Base!foreign(part[c], pass.root.ids[c]) /\ pass.root.ids[c].uid = 0 /\ Base!WriteRoot(r, TRUE)
    <2>1. u \in Nat BY <1>1 DEF FoundationInv, Base!TypeOK, Base!Part
    <2>2. /\ r.failed = pass.root.failed /\ r.deleting = pass.root.deleting /\ r.ref = pass.root.ref
          /\ r.index = pass.root.index /\ r.entries = pass.root.entries
          /\ \A n \in Members : /\ r.ids[n].removing = pass.root.ids[n].removing
                                /\ r.ids[n].uid = IF n = c THEN u ELSE pass.root.ids[n].uid
      <3> HIDE DEF u
      <3> QED BY <1>1, <1>2, <2>1 DEF Base!Root
    <2> HIDE DEF r
    <2>3. ~part[c].deleting /\ part[c].adm = 0 BY <1>5 DEF Base!foreign
    <2>4. ASSUME root = pass.root, root' = r, UNCHANGED <<part, genesis>>, LossesKept
          PROVE  ObjectsInv'
      <3>1. LedgerInv' BY <1>0, <2>2, <2>3, <2>4 DEF FoundationInv, ObjectsInv, LedgerInv
      <3>2. ~Base!required(genesis, c) BY <1>1, <1>2, <1>5 DEF FoundationInv, ObjectsInv, GenesisInv
      <3>3. GenesisInv' BY <2>2, <2>4, <3>2 DEF FoundationInv, ObjectsInv, GenesisInv, Base!required
      <3> QED BY <3>1, <3>3 DEF ObjectsInv
    <2> QED BY <1>0, <1>5, <2>4, FoundationWriteStep
  <1> QED BY <1>3, <1>4, <1>5

LEMMA ControlStep ==
  ASSUME FoundationInv, Base!TypeOK', Base!ProjectControl PROVE FoundationInv'
  <1>1. /\ part' = [part EXCEPT ![Base!Current].hold = ~@] /\ events' = events \cup {"part"} /\ Base!End(TRUE)
        /\ UNCHANGED <<root, genesis, defs, cdefs>>
    BY DEF Base!ProjectControl, Base!Notify, Base!others
  <1>2. \A n \in Members : /\ part'[n].uid = part[n].uid /\ part'[n].adm = part[n].adm
                           /\ part'[n].deleting = part[n].deleting
    BY <1>1 DEF FoundationInv, Base!TypeOK, Base!Part
  <1>3. LossesKept BY <1>1 DEF Base!End, FoundationInv, Base!TypeOK
  <1>4. LedgerInv' BY <1>1, <1>2, <1>3 DEF FoundationInv, ObjectsInv, LedgerInv
  <1>5. GenesisInv' BY <1>1, <1>2, <1>3 DEF FoundationInv, ObjectsInv, GenesisInv, Base!required
  <1> QED BY <1>1, <1>4, <1>5, InstanceStep DEF ObjectsInv

LEMMA ComposeStep ==
  ASSUME FoundationInv, Base!TypeOK', Base!Bounds, Base!Compose PROVE FoundationInv'
  <1> DEFINE c == Base!Current
             found == [pass EXCEPT !.todo = @ \ {c}, !.cand[c] = cdefs[c], !.inst[c] = part[c]]
             q == IF found.todo = {} THEN [found EXCEPT !.pc = "admit", !.todo = Base!live(pass.root)]
                 ELSE found
             last == pass.todo \ {c} = {}
  <1>0. /\ Reading /\ pass.pc = "entries" /\ Base!known(c) /\ part[c].hold = (c \in pass.root.hold)
        /\ UNCHANGED Base!others
    BY DEF Base!Compose, Reading
  <1>1. c \in pass.todo /\ c \in Members
    <2>1. pass.todo # {} BY <1>0 DEF FoundationInv, PassInv, StageInv
    <2> QED BY <2>1, CurrentEntry DEF FoundationInv
  <1>2. Base!Go(q) BY DEF Base!Compose
  <1> HIDE DEF c
  <1>3. /\ found.todo = pass.todo \ {c} /\ found.pc = "entries" /\ found.root = pass.root
        /\ found.issue = pass.issue /\ found \in Base!PassState
        /\ found.cand = [pass.cand EXCEPT ![c] = cdefs[c]] /\ found.inst = [pass.inst EXCEPT ![c] = part[c]]
    BY <1>0, <1>1 DEF FoundationInv, Base!TypeOK, Base!PassState
  <1> HIDE DEF found
  <1>4. /\ q.pc = IF last THEN "admit" ELSE "entries"
        /\ q.todo = IF last THEN Base!live(pass.root) ELSE pass.todo \ {c}
        /\ q.root = pass.root /\ q.issue = pass.issue
        /\ q.cand = [pass.cand EXCEPT ![c] = cdefs[c]] /\ q.inst = [pass.inst EXCEPT ![c] = part[c]]
    BY <1>3 DEF Base!PassState
  <1> HIDE DEF q
  <1>5. pass' = q /\ UNCHANGED <<root, part, genesis, events, queue, hist, defs, cdefs>>
    BY <1>0, <1>2 DEF Base!Go, Base!others
  <1>6. RootInv' BY <1>0, <1>4, <1>5, ReadRoot DEF RootInv
  <1>7. StageInv'
    <2>1. pass.todo \subseteq Base!live(pass.root) BY <1>0 DEF FoundationInv, PassInv, StageInv
    <2> QED BY <1>0, <1>4, <1>5, <2>1 DEF StageInv, FoundationInv, PassInv, Base!live
  <1>8. composed' = composed \cup {c} /\ c \notin composed
    <2>1. pass.todo \subseteq Base!live(pass.root) BY <1>0 DEF FoundationInv, PassInv, StageInv
    <2>2. composed = Base!live(pass.root) \ pass.todo BY <1>0 DEF composed
    <2>3. composed' = IF last THEN Base!live(pass.root) ELSE Base!live(pass.root) \ (pass.todo \ {c})
      BY <1>4, <1>5 DEF composed, Base!live
    <2> QED BY <1>1, <2>1, <2>2, <2>3
  <1>9. /\ \A n \in composed : pass'.inst[n] = pass.inst[n] /\ pass'.cand[n] = pass.cand[n]
        /\ pass'.inst[c] = part[c] /\ pass'.cand[c] = cdefs[c]
    <2>1. pass.inst \in [Members -> Base!Part] /\ pass.cand \in [Members -> Base!Policies]
      BY DEF FoundationInv, Base!TypeOK, Base!PassState
    <2>2. pass'.inst = [pass.inst EXCEPT ![c] = part[c]] /\ pass'.cand = [pass.cand EXCEPT ![c] = cdefs[c]]
      BY <1>4, <1>5
    <2>3. composed \subseteq Members
      <3>1. Base!live(pass.root) \subseteq Members BY <1>0, ReadRoot, LiveNames
      <3> QED BY <3>1 DEF composed
    <2> QED BY <1>1, <1>8, <2>1, <2>2, <2>3
  <1>10. InstanceInv'
    <2>1. /\ part[c].uid # 0 /\ part[c].uid = root.ids[c].uid /\ ~part[c].deleting
      BY <1>0, ReadRoot DEF Base!known, Base!foreign
    <2>2. Base!required(genesis, c) /\ root.index < Last[c] =>
            part[c].adm # 0 /\ Base!BootstrapPolicyCompatible(genesis.pol[c], part[c].adm)
      BY <1>1, <2>1 DEF FoundationInv, ObjectsInv, GenesisInv
    <2> QED BY <1>5, <1>8, <1>9, <2>1, <2>2 DEF InstanceInv, FoundationInv, PassInv, Base!required
  <1>11. fresh' = {} BY <1>4, <1>5 DEF fresh
  <1>12. FreshInv' BY <1>0, <1>4, <1>5, <1>11 DEF FreshInv, FoundationInv, PassInv
  <1>13. ASSUME ~Pending PROVE Done'
    <2>1. Done /\ cdefs = defs BY <1>0, <1>13 DEF FoundationInv, ProgressInv, Cached, Pending
    <2>2. Withdrawn(root)' BY <1>0, <1>5, <2>1 DEF Done, Withdrawn
    <2>3. \A n \in composed' : /\ part'[n] = pass'.inst[n] /\ part'[n].hold = (n \in root'.hold)
                               /\ pass'.cand[n] = defs'[n]
      BY <1>0, <1>5, <1>8, <1>9, <2>1 DEF Done
    <2>4. pass'.pc = "admit" => composed' \ pass'.todo = {}
      BY <1>4, <1>5 DEF composed, Base!live
    <2>5. root' = pass'.root BY <1>4, <1>5, <2>1 DEF Done
    <2> QED BY <2>2, <2>3, <2>4, <2>5 DEF Done
  <1>14. q.pc # "idle" BY <1>4
  <1> QED BY <1>0, <1>2, <1>6, <1>7, <1>10, <1>12, <1>13, <1>14, GoStep DEF PassInv

\* An admission that is left as it is.
LEMMA SkipStep ==
  ASSUME FoundationInv, Base!TypeOK', pass.pc = "admit", NEW c \in Members, NEW q, Base!Go(q),
         UNCHANGED Base!others,
         \/ q = [pass EXCEPT !.issue = TRUE, !.todo = @ \ {c}, !.inst[c] = pass.inst[c]]
         \/ q = [pass EXCEPT !.todo = @ \ {c}] /\ Base!admitted(c) = pass.inst[c]
  PROVE  FoundationInv'
  <1>0. Reading BY DEF Reading
  <1>1. /\ q.pc = "admit" /\ q.todo = pass.todo \ {c} /\ q.root = pass.root /\ q.cand = pass.cand
        /\ q.inst = pass.inst /\ (q.issue \/ (q.issue = pass.issue /\ Base!admitted(c) = pass.inst[c]))
    <2>1. pass \in Base!PassState BY DEF FoundationInv, Base!TypeOK
    <2>2. [pass EXCEPT !.issue = TRUE, !.todo = @ \ {c}, !.inst[c] = pass.inst[c]]
            = [pass EXCEPT !.issue = TRUE, !.todo = @ \ {c}]
      <3>1. [pass.inst EXCEPT ![c] = pass.inst[c]] = pass.inst BY <2>1 DEF Base!PassState
      <3> QED BY <2>1, <3>1 DEF Base!PassState
    <2> QED BY <2>1, <2>2 DEF Base!PassState
  <1>2. pass' = q /\ UNCHANGED <<root, part, genesis, events, queue, hist, defs, cdefs>>
    BY DEF Base!Go, Base!others
  <1>3. RootInv' BY <1>0, <1>1, <1>2, ReadRoot DEF RootInv
  <1>4. StageInv' BY <1>1, <1>2 DEF StageInv, FoundationInv, PassInv, Base!live
  <1>5. composed' = composed /\ fresh' = {} BY <1>1, <1>2 DEF composed, fresh, Base!live
  <1>6. InstanceInv' BY <1>1, <1>2, <1>5 DEF InstanceInv, FoundationInv, PassInv, Base!required
  <1>7. FreshInv' BY <1>0, <1>1, <1>2, <1>5 DEF FreshInv, FoundationInv, PassInv
  <1>8. \A n : Base!admitted(n)' = Base!admitted(n)
    <2>1. \A n : Base!deferral(n)' = Base!deferral(n)
      BY <1>1, <1>2 DEF Base!deferral, Base!held, Base!required, Base!bootstrapPolicyPending
    <2> QED BY <1>1, <1>2, <2>1 DEF Base!admitted
  <1>9. ASSUME ~Pending PROVE Done'
    <2>1. Done BY <1>0, <1>9 DEF FoundationInv, ProgressInv
    <2>2. Withdrawn(root)' BY <1>2, <2>1 DEF Done, Withdrawn
    <2>3. ~pass'.issue => \A n \in composed' \ pass'.todo : Base!admitted(n)' = pass'.inst[n]
      BY <1>1, <1>2, <1>5, <1>8, <2>1 DEF Done
    <2> QED BY <1>1, <1>2, <1>5, <2>1, <2>2, <2>3 DEF Done
  <1> QED BY <1>1, <1>3, <1>4, <1>6, <1>7, <1>9, GoStep DEF PassInv

LEMMA AdmissionFacts ==
  ASSUME FoundationInv, Base!Bounds, Base!Admitting
  PROVE  /\ Reading /\ pass.pc = "admit" /\ Base!Current \in Members /\ Base!Current \in composed
         /\ ~Base!capturedMissing(Base!Current)
  <1> DEFINE c == Base!Current
  <1>1. Reading /\ pass.pc = "admit" /\ pass.todo # {} BY DEF Base!Admitting, Reading
  <1>2. c \in pass.todo /\ c \in Members BY <1>1, CurrentEntry DEF FoundationInv
  <1>3. c \in composed BY <1>1, <1>2 DEF composed, FoundationInv, PassInv, StageInv
  <1> HIDE DEF c
  <1>4. ~Base!capturedMissing(c)
    <2>1. Base!held(c) => Base!required(genesis, c) /\ root.index < Last[c]
      BY <1>1, ReadRoot DEF Base!held, Base!bootstrapPolicyPending
    <2> QED BY <1>2, <1>3, <2>1 DEF Base!capturedMissing, FoundationInv, PassInv, InstanceInv
  <1> QED BY <1>1, <1>2, <1>3, <1>4 DEF c

LEMMA RefuseStep ==
  ASSUME FoundationInv, Base!TypeOK', Base!Bounds, Base!Refuse PROVE FoundationInv'
  <1> DEFINE c == Base!Current
             p == pass.inst[c]
             told == [p EXCEPT !.deferred = FALSE]
             q == [pass EXCEPT !.issue = TRUE, !.todo = @ \ {c}, !.inst[c] = told]
  <1>1. Reading /\ pass.pc = "admit" /\ c \in Members /\ c \in composed BY AdmissionFacts DEF Base!Refuse
  <1>2. UNCHANGED Base!others BY DEF Base!Refuse
  <1>3. \/ told = p /\ Base!Go(q)
        \/ Base!Return(TRUE)
        \/ /\ part[c] = p /\ part' = [part EXCEPT ![c] = told] /\ pass' = q
           /\ events' = events \cup {"part"} /\ UNCHANGED <<root, genesis, queue, hist>>
    BY Zenon DEF Base!Refuse, Base!Notify
  <1> HIDE DEF c
  <1>4. CASE told = p /\ Base!Go(q) BY <1>1, <1>2, <1>4, SkipStep
  <1>5. CASE /\ part[c] = p /\ part' = [part EXCEPT ![c] = told] /\ pass' = q
             /\ events' = events \cup {"part"} /\ UNCHANGED <<root, genesis, queue, hist>>
    <2>1. /\ p \in Base!Part /\ told \in Base!Part /\ told.uid = p.uid /\ told.adm = p.adm
          /\ told.deleting = p.deleting
      <3>1. p \in Base!Part BY <1>1 DEF FoundationInv, Base!TypeOK, Base!PassState
      <3> HIDE DEF p
      <3> QED BY <3>1, ToldPart
    <2> HIDE DEF told, p
    <2>2. /\ pass'.pc = "admit" /\ pass'.todo = pass.todo \ {c} /\ pass'.root = pass.root
          /\ pass'.cand = pass.cand /\ pass'.issue
          /\ \A n \in Members : pass'.inst[n] = IF n = c THEN told ELSE pass.inst[n]
      BY <1>1, <1>5, <2>1 DEF FoundationInv, Base!TypeOK, Base!PassState
    <2>3. /\ part[c] = p /\ UNCHANGED <<root, genesis, hist, defs, cdefs>>
          /\ \A n \in Members : part'[n] = IF n = c THEN told ELSE part[n]
      BY <1>1, <1>2, <1>5 DEF FoundationInv, Base!TypeOK, Base!others
    <2>4. composed' = composed /\ fresh' = {} /\ composed \subseteq Members
      <3>1. Base!live(pass.root) \subseteq Members BY <1>1, ReadRoot, LiveNames
      <3> QED BY <1>1, <2>2, <3>1 DEF composed, fresh, Base!live
    <2>5. LedgerInv' BY <2>1, <2>3 DEF FoundationInv, ObjectsInv, LedgerInv
    <2>6. GenesisInv' BY <2>1, <2>3 DEF FoundationInv, ObjectsInv, GenesisInv, Base!required
    <2>7. RootInv' BY <1>1, <2>2, <2>3, ReadRoot DEF RootInv
    <2>8. StageInv' BY <1>1, <2>2, <2>3 DEF StageInv, FoundationInv, PassInv, Base!live
    <2>9. InstanceInv'
      <3>1. \A n \in composed : n \in Members BY <2>4
      <3> QED BY <1>1, <2>1, <2>2, <2>3, <2>4, <3>1 DEF InstanceInv, FoundationInv, PassInv, Base!required, p
    <2>10. FreshInv' BY <1>1, <2>2, <2>3, <2>4 DEF FreshInv, FoundationInv, PassInv
    <2>11. Pending' BY <1>5 DEF Pending
    <2>12. ProgressInv' BY <1>5, <2>3, <2>11 DEF FoundationInv, ProgressInv, Cached
    <2> QED BY <2>5, <2>6, <2>7, <2>8, <2>9, <2>10, <2>11, <2>12, NoRest DEF FoundationInv, ObjectsInv, PassInv
  <1> QED BY <1>2, <1>3, <1>4, <1>5, ReturnStep

\* What an admission leaves of a captured policy.
LEMMA AdmitObjects ==
  ASSUME FoundationInv, Base!Bounds, pass.pc = "admit", NEW c \in Members, c \in composed, ~Base!refused(c),
         part[c] = pass.inst[c], part' = [part EXCEPT ![c] = Base!admitted(c)], UNCHANGED <<root, genesis>>,
         LossesKept
  PROVE  ObjectsInv'
  <1> DEFINE p == pass.inst[c]
             v == pass.cand[c]
  <1>0. Reading BY DEF Reading
  <1>1. p \in Base!Part /\ v \in Base!Policies BY DEF FoundationInv, Base!TypeOK, Base!PassState
  <1>2. Base!admitted(c) = [p EXCEPT !.adm = IF Base!deferral(c) THEN @ ELSE v, !.deferred = Base!deferral(c)]
    BY DEF Base!admitted
  <1>3. v # 0
    <2>1. c \notin Base!unsound(pass.root, pass.cand) BY DEF Base!refused, Base!invalid
    <2> QED BY <2>1 DEF Base!unsound
  <1>4. /\ p.uid # 0 /\ p.uid = root.ids[c].uid /\ ~p.deleting
        /\ Base!required(genesis, c) /\ root.index < Last[c] =>
             p.adm # 0 /\ Base!BootstrapPolicyCompatible(genesis.pol[c], p.adm)
    BY DEF FoundationInv, PassInv, InstanceInv
  <1> HIDE DEF p, v
  <1>5. /\ Base!admitted(c).uid = p.uid /\ Base!admitted(c).deleting = p.deleting
        /\ Base!admitted(c).adm = IF Base!deferral(c) THEN p.adm ELSE v
    BY <1>1, <1>2 DEF Base!Part
  <1>6. \A n \in Members : part'[n] = IF n = c THEN Base!admitted(c) ELSE part[n]
    BY DEF FoundationInv, Base!TypeOK
  <1>7. LedgerInv' BY <1>4, <1>5, <1>6 DEF FoundationInv, ObjectsInv, LedgerInv, p
  <1>8. Base!required(genesis, c) => root.ref
    <2>1. ~pass.root.ref => genesis.st = "none" BY DEF FoundationInv, PassInv, StageInv
    <2>2. pass.root.ref = root.ref BY <1>0, ReadRoot
    <2> QED BY <2>1, <2>2 DEF FoundationInv, ObjectsInv, GenesisInv
  <1>9. ASSUME Base!required(genesis, c), root.index < Last[c]
        PROVE  Base!admitted(c).adm # 0 /\ Base!BootstrapPolicyCompatible(genesis.pol[c], Base!admitted(c).adm)
    <2>1. genesis.of[c] = p.uid BY <1>4, <1>9 DEF FoundationInv, ObjectsInv, GenesisInv
    <2>2. pass.root.ref /\ pass.root.index = root.index BY <1>0, <1>8, <1>9, ReadRoot
    <2>3. Base!held(c) BY <1>9, <2>1, <2>2 DEF Base!held, Base!bootstrapPolicyPending, p
    <2>4. ~Base!deferral(c) => Base!BootstrapPolicyCompatible(genesis.pol[c], v)
      BY <2>2, <2>3 DEF Base!deferral, v
    <2> QED BY <1>3, <1>4, <1>5, <1>9, <2>4
  <1>10. GenesisInv'
    BY <1>6, <1>8, <1>9 DEF FoundationInv, ObjectsInv, GenesisInv, Base!required
  <1> QED BY <1>7, <1>10 DEF ObjectsInv

LEMMA AdmitStep ==
  ASSUME FoundationInv, Base!TypeOK', Base!Bounds, Base!Admit PROVE FoundationInv'
  <1> DEFINE c == Base!Current
  <1>1. Reading /\ pass.pc = "admit" /\ c \in Members /\ c \in composed /\ ~Base!capturedMissing(c)
    BY AdmissionFacts DEF Base!Admit
  <1>2. ~Base!refused(c) /\ UNCHANGED Base!others BY DEF Base!Admit
  <1>3. \/ Base!admitted(c) = pass.inst[c] /\ Base!Go([pass EXCEPT !.todo = @ \ {c}])
        \/ /\ part' = IF part[c] = pass.inst[c] THEN [part EXCEPT ![c] = Base!admitted(c)] ELSE part
           /\ events' = IF part' = part THEN events ELSE events \cup {"part"}
           /\ Base!End(TRUE) /\ UNCHANGED <<root, genesis>>
    BY <1>1, Zenon DEF Base!Admit
  <1> HIDE DEF c
  <1>4. CASE Base!admitted(c) = pass.inst[c] /\ Base!Go([pass EXCEPT !.todo = @ \ {c}])
    BY <1>1, <1>2, <1>4, SkipStep
  <1>5. CASE /\ part' = IF part[c] = pass.inst[c] THEN [part EXCEPT ![c] = Base!admitted(c)] ELSE part
             /\ events' = IF part' = part THEN events ELSE events \cup {"part"}
             /\ Base!End(TRUE) /\ UNCHANGED <<root, genesis>>
    <2>1. LossesKept BY <1>5 DEF Base!End, FoundationInv, Base!TypeOK
    <2>2. events \subseteq events' BY <1>5
    <2>3. ObjectsInv'
      <3>1. CASE part[c] = pass.inst[c] BY <1>1, <1>2, <1>5, <2>1, <3>1, AdmitObjects
      <3>2. CASE part[c] # pass.inst[c]
        BY <1>5, <2>1, <3>2 DEF FoundationInv, ObjectsInv, LedgerInv, GenesisInv, Base!required
      <3> QED BY <3>1, <3>2
    <2> QED BY <1>2, <1>5, <2>2, <2>3, InstanceStep DEF Base!others
  <1> QED BY <1>3, <1>4, <1>5

LEMMA ResolveStep ==
  ASSUME FoundationInv, Base!TypeOK', Base!Resolve PROVE FoundationInv'
  <1>0. Reading /\ pass.pc = "admit" /\ pass.todo = {} /\ UNCHANGED Base!others BY DEF Base!Resolve, Reading
  <1>1. pass.root \in Base!Root /\ pass.root.ids = root.ids /\ pass.root.ref = root.ref BY <1>0, ReadRoot
  <1> DEFINE q == [pass EXCEPT !.pc = "fresh", !.todo = Base!live(pass.root)]
  <1>2. \/ Base!Return(TRUE)
        \/ ~pass.issue /\ (pass.root.ref \/ pass.root.op = "Paused") /\ Base!Return(FALSE)
        \/ ~pass.issue /\ ~pass.root.ref /\ pass.root.entries # {} /\ Base!Go(q)
    BY <1>0, Zenon DEF Base!Resolve
  <1>3. CASE ~pass.issue /\ (pass.root.ref \/ pass.root.op = "Paused") /\ Base!Return(FALSE)
    <2>1. ASSUME ~Pending PROVE Base!RestIsConverged'
      <3>1. Done BY <1>0, <2>1 DEF FoundationInv, ProgressInv
      <3>2. composed = root.entries /\ root = pass.root
        BY <1>0, <1>3, <3>1 DEF Done, composed, FoundationInv, PassInv, StageInv
      <3>3. \A n \in root.entries : n \in Members BY DEF FoundationInv, Base!TypeOK, Base!Root
      <3>4. ASSUME NEW n \in root.entries
            PROVE  /\ part[n].uid = root.ids[n].uid /\ part[n].uid # 0
                   /\ part[n].hold = (n \in root.hold)
                   /\ \/ part[n].adm = defs[n] /\ ~part[n].deferred
                      \/ /\ part[n].deferred /\ root.index < Last[n] /\ Base!required(genesis, n)
                         /\ ~Base!BootstrapPolicyCompatible(genesis.pol[n], defs[n])
        <4> DEFINE p == pass.inst[n]
        <4>1. /\ part[n] = p /\ p.hold = (n \in root.hold) /\ pass.cand[n] = defs[n] /\ Base!admitted(n) = p
          BY <1>0, <1>3, <3>1, <3>2 DEF Done
        <4>2. p.uid # 0 /\ p.uid = root.ids[n].uid BY <3>2 DEF FoundationInv, PassInv, InstanceInv
        <4>3. p \in Base!Part BY <3>3 DEF FoundationInv, Base!TypeOK, Base!PassState
        <4>4. p = [p EXCEPT !.adm = IF Base!deferral(n) THEN @ ELSE pass.cand[n], !.deferred = Base!deferral(n)]
          BY <4>1 DEF Base!admitted
        <4> HIDE DEF p
        <4>5. p.deferred = Base!deferral(n) /\ (~Base!deferral(n) => p.adm = pass.cand[n])
          BY <4>3, <4>4 DEF Base!Part
        <4>6. Base!deferral(n) => /\ root.index < Last[n] /\ Base!required(genesis, n)
                             /\ ~Base!BootstrapPolicyCompatible(genesis.pol[n], pass.cand[n])
          BY <3>2 DEF Base!deferral, Base!held, Base!bootstrapPolicyPending
        <4> QED BY <4>1, <4>2, <4>5, <4>6
      <3>5. Withdrawn(root) BY <1>0, <3>1 DEF Done
      <3>6. \A n \in Members \ root.entries :
              part[n].uid # 0 /\ part[n].uid = root.ids[n].uid => part[n].deleting
        BY <3>5 DEF Withdrawn
      <3>7. root.ref \/ root.op = "Paused" BY <1>3, <3>2
      <3>8. UNCHANGED <<root, part, genesis, defs>> BY <1>0, <1>3 DEF Base!Return, Base!others
      <3> QED BY <3>4, <3>6, <3>7, <3>8 DEF Base!RestIsConverged, Base!required
    <2> QED BY <1>0, <1>3, <2>1, ReturnStep
  <1>4. CASE ~pass.issue /\ ~pass.root.ref /\ pass.root.entries # {} /\ Base!Go(q)
    <2>1. /\ q.pc = "fresh" /\ q.todo = Base!live(pass.root) /\ q.root = pass.root /\ q.issue = pass.issue
          /\ q.cand = pass.cand /\ q.inst = pass.inst
      BY DEF FoundationInv, Base!TypeOK, Base!PassState
    <2>2. Base!Go(q) BY <1>4
    <2> HIDE DEF q
    <2>3. pass' = q /\ UNCHANGED <<root, part, genesis, events, queue, hist, defs, cdefs>>
      BY <1>0, <2>2 DEF Base!Go, Base!others
    <2>4. Base!live(pass.root) = pass.root.entries BY <1>0, <1>4 DEF FoundationInv, PassInv, StageInv
    <2>5. RootInv' BY <1>0, <2>1, <2>3, ReadRoot DEF RootInv
    <2>6. StageInv' BY <1>0, <1>4, <2>1, <2>3, <2>4 DEF StageInv, FoundationInv, PassInv, Base!live
    <2>7. composed' = composed /\ fresh' = {} BY <1>0, <2>1, <2>3 DEF composed, fresh, Base!live
    <2>8. InstanceInv' BY <2>1, <2>3, <2>7 DEF InstanceInv, FoundationInv, PassInv, Base!required
    <2>9. FreshInv' BY <1>0, <2>1, <2>3, <2>7 DEF FreshInv, FoundationInv, PassInv
    <2>10. ASSUME ~Pending PROVE Done'
      <3>1. Done BY <1>0, <2>10 DEF FoundationInv, ProgressInv
      <3> QED BY <1>0, <2>1, <2>3, <2>7, <3>1 DEF Done, Withdrawn
    <2> QED BY <1>0, <2>1, <2>2, <2>5, <2>6, <2>8, <2>9, <2>10, GoStep DEF PassInv
  <1> QED BY <1>0, <1>2, <1>3, <1>4, ReturnStep

LEMMA FreshStep ==
  ASSUME FoundationInv, Base!TypeOK', Base!Bounds, Base!Fresh PROVE FoundationInv'
  <1> DEFINE c == Base!Current
             q == [pass EXCEPT !.todo = @ \ {c}, !.pc = IF pass.todo = {c} THEN "recheck" ELSE @]
  <1>0. Reading /\ pass.pc = "fresh" /\ UNCHANGED Base!others BY DEF Base!Fresh, Reading
  <1>1. c \in pass.todo /\ c \in Members
    <2>1. pass.todo # {} BY <1>0 DEF FoundationInv, PassInv, StageInv
    <2> QED BY <2>1, CurrentEntry DEF FoundationInv
  <1>2. \/ Base!Return(TRUE)
        \/ /\ part[c].uid = pass.inst[c].uid /\ part[c].adm = pass.cand[c] /\ defs[c] = pass.cand[c]
           /\ Base!Go(q)
    BY DEF Base!Fresh
  <1> HIDE DEF c
  <1>3. CASE /\ part[c].uid = pass.inst[c].uid /\ part[c].adm = pass.cand[c] /\ defs[c] = pass.cand[c]
             /\ Base!Go(q)
    <2>1. /\ q.pc = IF pass.todo = {c} THEN "recheck" ELSE "fresh"
          /\ q.todo = pass.todo \ {c} /\ q.root = pass.root /\ q.issue = pass.issue
          /\ q.cand = pass.cand /\ q.inst = pass.inst
      BY <1>0 DEF FoundationInv, Base!TypeOK, Base!PassState
    <2>2. Base!Go(q) BY <1>3
    <2> HIDE DEF q
    <2>3. pass' = q /\ UNCHANGED <<root, part, genesis, events, queue, hist, defs, cdefs>>
      BY <1>0, <2>2 DEF Base!Go, Base!others
    <2>4. RootInv' BY <1>0, <2>1, <2>3, ReadRoot DEF RootInv
    <2>5. StageInv' BY <1>0, <1>1, <2>1, <2>3 DEF StageInv, FoundationInv, PassInv, Base!live
    <2>6. composed' = composed /\ c \in composed /\ fresh' \subseteq fresh \cup {c}
      BY <1>0, <1>1, <2>1, <2>3 DEF composed, fresh, Base!live, FoundationInv, PassInv, StageInv
    <2>7. InstanceInv' BY <2>1, <2>3, <2>6 DEF InstanceInv, FoundationInv, PassInv, Base!required
    <2>8. pass.inst[c].adm = pass.cand[c] /\ <<c, pass.cand[c]>> \in hist.held
      <3>1. part[c] \in {pass.inst[c], [pass.inst[c] EXCEPT !.deleting = TRUE]}
        BY <1>3, <2>6 DEF FoundationInv, PassInv, InstanceInv
      <3>2. pass.inst[c] \in Base!Part BY <1>1 DEF FoundationInv, Base!TypeOK, Base!PassState
      <3>3. part[c].adm = pass.inst[c].adm BY <3>1, <3>2 DEF Base!Part
      <3>4. <<c, defs[c]>> \in hist.held BY <1>0, <1>1 DEF FoundationInv, PassInv, FreshInv
      <3> QED BY <1>3, <3>3, <3>4
    <2>9. FreshInv'
      <3>1. \A n \in fresh' : pass'.inst[n].adm = pass'.cand[n] /\ <<n, pass'.cand[n]>> \in hist'.held
        BY <2>1, <2>3, <2>6, <2>8 DEF FreshInv, FoundationInv, PassInv
      <3> QED BY <1>0, <2>1, <2>3, <3>1 DEF FreshInv, FoundationInv, PassInv
    <2>10. ASSUME ~Pending PROVE Done'
      <3>1. Done BY <1>0, <2>10 DEF FoundationInv, ProgressInv
      <3> QED BY <1>0, <2>1, <2>3, <2>6, <3>1 DEF Done, Withdrawn
    <2>11. q.pc # "idle" BY <2>1
    <2> QED BY <1>0, <2>2, <2>4, <2>5, <2>7, <2>9, <2>10, <2>11, GoStep DEF PassInv
  <1> QED BY <1>0, <1>2, <1>3, ReturnStep

LEMMA RecheckStep ==
  ASSUME FoundationInv, Base!TypeOK', Base!Recheck PROVE FoundationInv'
  <1> DEFINE q == [pass EXCEPT !.pc = "create"]
  <1>0. Reading /\ pass.pc = "recheck" /\ UNCHANGED Base!others BY DEF Base!Recheck, Reading
  <1>1. Base!Return(TRUE) \/ (root = pass.root /\ Base!Go(q)) BY Zenon DEF Base!Recheck
  <1>2. CASE root = pass.root /\ Base!Go(q)
    <2>1. /\ q.pc = "create" /\ q.todo = pass.todo /\ q.root = pass.root /\ q.issue = pass.issue
          /\ q.cand = pass.cand /\ q.inst = pass.inst
      BY DEF FoundationInv, Base!TypeOK, Base!PassState
    <2>2. Base!Go(q) BY <1>2
    <2> HIDE DEF q
    <2>3. pass' = q /\ UNCHANGED <<root, part, genesis, events, queue, hist, defs, cdefs>>
      BY <1>0, <2>2 DEF Base!Go, Base!others
    <2>4. RootInv' BY <1>0, <2>1, <2>3, ReadRoot DEF RootInv
    <2>5. StageInv' BY <1>0, <2>1, <2>3 DEF StageInv, FoundationInv, PassInv, Base!live
    <2>6. composed' = composed /\ fresh' = fresh BY <1>0, <2>1, <2>3 DEF composed, fresh, Base!live
    <2>7. InstanceInv' BY <2>1, <2>3, <2>6 DEF InstanceInv, FoundationInv, PassInv, Base!required
    <2>8. FreshInv'
      <3>1. Base!live(pass.root) \subseteq root.entries BY <1>2 DEF Base!live
      <3> QED BY <1>0, <2>1, <2>3, <2>6, <3>1 DEF FreshInv, FoundationInv, PassInv, Base!live
    <2>9. ASSUME ~Pending PROVE Done'
      <3>1. Done BY <1>0, <2>9 DEF FoundationInv, ProgressInv
      <3> QED BY <1>0, <2>1, <2>3, <2>6, <3>1 DEF Done, Withdrawn
    <2> QED BY <1>0, <2>1, <2>2, <2>4, <2>5, <2>7, <2>8, <2>9, GoStep DEF PassInv
  <1> QED BY <1>0, <1>1, <1>2, ReturnStep

\* What a pass captures.
LEMMA CaptureFacts ==
  ASSUME FoundationInv, pass.pc = "create", NEW n \in Members, Base!captured.pol[n] # 0
  PROVE  /\ Base!captured.pol[n] = pass.cand[n] /\ Base!captured.of[n] = pass.inst[n].uid
         /\ Base!captured.of[n] # 0 /\ Base!captured.of[n] = root.ids[n].uid
         /\ part[n].uid # 0 => part[n].adm = Base!captured.pol[n] /\ part[n].uid = Base!captured.of[n]
         /\ <<n, Base!captured.pol[n]>> \in hist.held
         /\ n \in hist.removed \/ (n \in root.entries /\ ~root.ids[n].removing)
  <1>0. Reading BY DEF Reading
  <1>1. n \in Base!live(pass.root) BY DEF Base!captured
  <1>2. Base!captured.pol[n] = pass.cand[n] /\ Base!captured.of[n] = pass.inst[n].uid BY <1>1 DEF Base!captured
  <1>3. n \in composed /\ n \in fresh BY <1>1 DEF composed, fresh
  <1>4. /\ pass.inst[n].uid # 0 /\ pass.inst[n].uid = root.ids[n].uid
        /\ part[n].uid # 0 => part[n] \in {pass.inst[n], [pass.inst[n] EXCEPT !.deleting = TRUE]}
    BY <1>3 DEF FoundationInv, PassInv, InstanceInv
  <1>5. pass.inst[n] \in Base!Part BY DEF FoundationInv, Base!TypeOK, Base!PassState
  <1>6. part[n].uid # 0 => part[n].adm = pass.inst[n].adm /\ part[n].uid = pass.inst[n].uid
    BY <1>4, <1>5 DEF Base!Part
  <1>7. pass.inst[n].adm = pass.cand[n] /\ <<n, pass.cand[n]>> \in hist.held
    BY <1>3 DEF FoundationInv, PassInv, FreshInv
  <1>8. n \in hist.removed \/ (n \in root.entries /\ ~root.ids[n].removing)
    <2>1. ~root.ids[n].removing BY <1>0, <1>1, ReadRoot DEF Base!live
    <2> QED BY <1>1, <2>1 DEF FoundationInv, PassInv, FreshInv
  <1> QED BY <1>2, <1>4, <1>6, <1>7, <1>8

LEMMA CaptureStep ==
  ASSUME FoundationInv, Base!TypeOK', Base!Capture PROVE FoundationInv'
  <1>0. Reading /\ pass.pc = "create" /\ UNCHANGED Base!others BY DEF Base!Capture, Reading
  <1>1. ~pass.root.ref /\ ~root.ref /\ genesis.st = "none"
    BY <1>0, ReadRoot DEF FoundationInv, PassInv, StageInv
  <1>2. /\ genesis' = Base!captured /\ events' = events \cup {"genesis"}
        /\ pass' = [pass EXCEPT !.pc = "publish"] /\ UNCHANGED <<root, part, queue, hist, defs, cdefs>>
    BY <1>0, <1>1 DEF Base!Capture, Base!Notify, Base!others
  <1>3. /\ pass'.pc = "publish" /\ pass'.todo = pass.todo /\ pass'.root = pass.root /\ pass'.issue = pass.issue
    BY <1>2 DEF FoundationInv, Base!TypeOK, Base!PassState
  <1>4. LedgerInv' BY <1>2 DEF FoundationInv, ObjectsInv, LedgerInv
  <1>5. genesis'.st = "live" BY <1>2 DEF Base!captured
  <1>6. GenesisInv'
    <2>1. \A n \in Members : Base!required(genesis', n) <=> Base!captured.pol[n] # 0 BY <1>2 DEF Base!required
    <2>2. \A v : Base!BootstrapPolicyCompatible(v, v) BY DEF Base!BootstrapPolicyCompatible
    <2>3. ASSUME NEW n \in Members, Base!required(genesis', n)
          PROVE  /\ genesis'.st # "none" /\ genesis'.of[n] # 0 /\ genesis'.of[n] = root'.ids[n].uid
                 /\ part'[n].uid # 0 /\ root'.index < Last[n] =>
                      part'[n].adm # 0 /\ Base!BootstrapPolicyCompatible(genesis'.pol[n], part'[n].adm)
                 /\ part'[n].uid # 0 => part'[n].adm = genesis'.pol[n]
                 /\ hist'.lost \/ n \in hist'.removed \/ (n \in root'.entries /\ ~root'.ids[n].removing)
      <3>1. Base!captured.pol[n] # 0 BY <2>1, <2>3
      <3>2. /\ Base!captured.of[n] # 0 /\ Base!captured.of[n] = root.ids[n].uid
            /\ part[n].uid # 0 => part[n].adm = Base!captured.pol[n]
            /\ n \in hist.removed \/ (n \in root.entries /\ ~root.ids[n].removing)
        BY <1>0, <3>1, CaptureFacts
      <3> QED BY <1>2, <1>5, <2>2, <3>1, <3>2
    <2>4. ~root.failed BY <1>0, ReadRoot
    <2> QED BY <1>1, <1>2, <1>5, <2>3, <2>4 DEF GenesisInv
  <1>7. RootInv' BY <1>0, <1>2, <1>3, ReadRoot DEF RootInv
  <1>8. StageInv' BY <1>0, <1>1, <1>2, <1>3, <1>5 DEF StageInv, FoundationInv, PassInv, Base!live
  <1>9. composed' = {} /\ fresh' = {} BY <1>3 DEF composed, fresh
  <1>10. InstanceInv' /\ FreshInv' BY <1>0, <1>2, <1>3, <1>9 DEF InstanceInv, FreshInv, FoundationInv, PassInv
  <1>11. Pending' BY <1>2 DEF Pending
  <1>12. ProgressInv' BY <1>2, <1>11 DEF FoundationInv, ProgressInv, Cached
  <1>13. Base!RestIsConverged' BY <1>11, NoRest
  <1> QED BY <1>4, <1>6, <1>7, <1>8, <1>10, <1>12, <1>13 DEF FoundationInv, ObjectsInv, PassInv

LEMMA EndStep ==
  ASSUME FoundationInv, Base!TypeOK', Base!Publish \/ Base!Abort PROVE FoundationInv'
  <1>1. CASE Base!Publish
    <2>1. Reading /\ pass.pc = "publish" /\ UNCHANGED Base!others BY <1>1 DEF Base!Publish, Reading
    <2>2. genesis.st # "none" /\ ~root.ref BY <2>1, ReadRoot DEF FoundationInv, PassInv, StageInv
    <2>3. Base!WriteRoot([pass.root EXCEPT !.ref = TRUE], FALSE) BY <1>1 DEF Base!Publish
    <2> QED BY <2>1, <2>2, <2>3, PublishStep
  <1>2. CASE Base!Abort BY <1>2, ReturnStep DEF Base!Abort
  <1> QED BY <1>1, <1>2

LEMMA CrashStep ==
  ASSUME FoundationInv, Base!TypeOK', Base!Crash PROVE FoundationInv'
  <1>1. /\ pass' = Base!Idle /\ queue' /\ cdefs' = defs /\ LossesKept
        /\ UNCHANGED <<root, part, genesis, defs>>
    BY DEF Base!Crash, FoundationInv, Base!TypeOK
  <1>2. PassInv' /\ ~Reading' BY <1>1, EndedPass
  <1>3. ObjectsInv' BY <1>1 DEF FoundationInv, ObjectsInv, LedgerInv, GenesisInv, Base!required
  <1>4. Cached' BY <1>1 DEF Cached
  <1>5. Base!RestIsConverged' BY <1>1, NoRest DEF Pending
  <1> QED BY <1>2, <1>3, <1>4, <1>5 DEF FoundationInv, ProgressInv

-----------------------------------------------------------------------------
(* The steps of everyone else *)

\* The root is edited; r is what it becomes, but for its generation.
LEMMA EditStep ==
  ASSUME FoundationInv, Base!TypeOK', NEW r \in Base!Root, Base!Edit(r),
         /\ r.ids = root.ids /\ r.ref = root.ref /\ r.index = root.index /\ r.failed = root.failed
         /\ r.final = root.final /\ (root.deleting => r.deleting),
         hist'.lost = hist.lost, hist.removed \subseteq hist'.removed, hist'.held = hist.held,
         \/ root.entries \subseteq r.entries
         \/ Base!unpublished => root.entries \ r.entries \subseteq hist'.removed
  PROVE  FoundationInv'
  <1>1. /\ events' = events \cup {"root"} /\ UNCHANGED <<part, genesis, defs, cdefs, queue, pass, uid>>
        /\ root' = [r EXCEPT !.gen = @ + 1]
    BY DEF Base!Edit, Base!Notify
  <1>2. /\ root'.ids = root.ids /\ root'.ref = root.ref /\ root'.index = root.index
        /\ root'.failed = root.failed
        /\ root'.final = root.final /\ (root.deleting => root'.deleting) /\ root'.entries = r.entries
    BY <1>1 DEF Base!Root
  <1> HIDE DEF Base!Root
  <1>3. LedgerInv' BY <1>1, <1>2 DEF FoundationInv, ObjectsInv, LedgerInv
  <1>4. GenesisInv'
    <2>1. genesis.st \in {"none", "live", "lost"} BY DEF FoundationInv, Base!TypeOK, Base!Genesis
    <2> QED BY <1>1, <1>2, <2>1 DEF FoundationInv, ObjectsInv, GenesisInv, Base!required, Base!unpublished
  <1>5. RootInv' BY <1>1, <1>2 DEF RootInv, Reading, FoundationInv, PassInv
  <1>6. StageInv' BY <1>1 DEF StageInv, FoundationInv, PassInv, Base!live
  <1>7. composed' = composed /\ fresh' = fresh BY <1>1 DEF composed, fresh, Base!live
  <1>8. InstanceInv' BY <1>1, <1>2, <1>7 DEF InstanceInv, FoundationInv, PassInv, Base!required
  <1>9. FreshInv'
    BY <1>1, <1>2, <1>7 DEF FreshInv, Reading, FoundationInv, PassInv, Base!live, Base!unpublished
  <1>10. Pending' BY <1>1 DEF Pending
  <1>11. ProgressInv' BY <1>1, <1>10 DEF FoundationInv, ProgressInv, Cached
  <1> QED BY <1>3, <1>4, <1>5, <1>6, <1>8, <1>9, <1>10, <1>11, NoRest DEF FoundationInv, ObjectsInv, PassInv

LEMMA FoundationRootStep ==
  ASSUME FoundationInv, Base!TypeOK', Base!EditRoot PROVE FoundationInv'
  <1>0. root \in Base!Root /\ hist \in Histories
    BY DEF FoundationInv, Base!TypeOK
  <1> DEFINE o == IF root.op = "Running" THEN "Paused" ELSE "Running"
             h(n) == IF Base!unpublished THEN [hist EXCEPT !.removed = @ \cup {n}] ELSE hist
             held2(n) == (root.hold \ {n}) \cup ({n} \ root.hold)
  <1>1. \/ hist' = hist /\ (Base!Edit([root EXCEPT !.op = o]) \/ Base!Edit([root EXCEPT !.op = "Stopped"]))
        \/ hist' = hist /\ \E n \in root.entries : Base!Edit([root EXCEPT !.hold = held2(n)])
        \/ \E n \in root.entries :
             hist' = h(n) /\ Base!Edit([root EXCEPT !.entries = @ \ {n}, !.hold = @ \ {n}])
        \/ hist' = hist /\ \E n \in Members \ root.entries : Base!Edit([root EXCEPT !.entries = @ \cup {n}])
        \/ hist' = hist /\ Base!Edit([root EXCEPT !.deleting = TRUE])
    BY DEF Base!EditRoot
  <1>2. o \in {"Running", "Paused", "Stopped"} OBVIOUS
  <1> HIDE DEF o
  <1>3. ASSUME NEW v \in {"Running", "Paused", "Stopped"}, hist' = hist, Base!Edit([root EXCEPT !.op = v])
        PROVE  FoundationInv'
    <2> DEFINE r == [root EXCEPT !.op = v]
    <2>1. /\ r \in Base!Root /\ r.ids = root.ids /\ r.ref = root.ref /\ r.index = root.index
          /\ r.failed = root.failed
          /\ r.final = root.final /\ r.deleting = root.deleting /\ r.entries = root.entries
      BY <1>0 DEF Base!Root
    <2>2. Base!Edit(r) BY <1>3
    <2> HIDE DEF r
    <2> QED BY <1>3, <2>1, <2>2, EditStep
  <1>4. ASSUME NEW n \in root.entries, hist' = hist, Base!Edit([root EXCEPT !.hold = held2(n)])
        PROVE  FoundationInv'
    <2> DEFINE r == [root EXCEPT !.hold = held2(n)]
    <2>1. /\ r \in Base!Root /\ r.ids = root.ids /\ r.ref = root.ref /\ r.index = root.index
          /\ r.failed = root.failed
          /\ r.final = root.final /\ r.deleting = root.deleting /\ r.entries = root.entries
      BY <1>0 DEF Base!Root
    <2>2. Base!Edit(r) BY <1>4
    <2> HIDE DEF r
    <2> QED BY <1>4, <2>1, <2>2, EditStep
  <1>5. ASSUME NEW n \in root.entries, hist' = h(n),
               Base!Edit([root EXCEPT !.entries = @ \ {n}, !.hold = @ \ {n}])
        PROVE  FoundationInv'
    <2> DEFINE r == [root EXCEPT !.entries = @ \ {n}, !.hold = @ \ {n}]
    <2>1. /\ r \in Base!Root /\ r.ids = root.ids /\ r.ref = root.ref /\ r.index = root.index
          /\ r.failed = root.failed
          /\ r.final = root.final /\ r.deleting = root.deleting /\ r.entries = root.entries \ {n}
      BY <1>0 DEF Base!Root
    <2>2. Base!Edit(r) BY <1>5
    <2> HIDE DEF r
    <2>3. /\ hist'.lost = hist.lost /\ hist'.held = hist.held /\ hist.removed \subseteq hist'.removed
          /\ Base!unpublished => n \in hist'.removed
      BY <1>0, <1>5
    <2> QED BY <2>1, <2>2, <2>3, EditStep
  <1>6. ASSUME NEW n \in Members \ root.entries, hist' = hist, Base!Edit([root EXCEPT !.entries = @ \cup {n}])
        PROVE  FoundationInv'
    <2> DEFINE r == [root EXCEPT !.entries = @ \cup {n}]
    <2>1. /\ r \in Base!Root /\ r.ids = root.ids /\ r.ref = root.ref /\ r.index = root.index
          /\ r.failed = root.failed
          /\ r.final = root.final /\ r.deleting = root.deleting /\ root.entries \subseteq r.entries
      BY <1>0 DEF Base!Root
    <2>2. Base!Edit(r) BY <1>6
    <2> HIDE DEF r
    <2> QED BY <1>6, <2>1, <2>2, EditStep
  <1>7. ASSUME hist' = hist, Base!Edit([root EXCEPT !.deleting = TRUE])
        PROVE  FoundationInv'
    <2> DEFINE r == [root EXCEPT !.deleting = TRUE]
    <2>1. /\ r \in Base!Root /\ r.ids = root.ids /\ r.ref = root.ref /\ r.index = root.index
          /\ r.failed = root.failed
          /\ r.final = root.final /\ r.deleting /\ r.entries = root.entries
      BY <1>0 DEF Base!Root
    <2>2. Base!Edit(r) BY <1>7
    <2> HIDE DEF r
    <2> QED BY <1>7, <2>1, <2>2, EditStep
  <1> QED BY <1>1, <1>2, <1>3, <1>4, <1>5, <1>6, <1>7

LEMMA DefineStep ==
  ASSUME FoundationInv, Base!TypeOK', Base!Define PROVE FoundationInv'
  <1>1. PICK n \in Members, v \in Definitions :
          /\ defs' = [defs EXCEPT ![n] = v]
          /\ hist' = IF pass.pc = "idle" THEN hist ELSE [hist EXCEPT !.held = @ \cup {<<n, v>>}]
    BY DEF Base!Define
  <1>2. events' = events \cup {"def"} /\ UNCHANGED <<root, part, genesis, cdefs, queue, pass, uid>>
    BY DEF Base!Define, Base!Notify
  <1>3. LossesKept /\ hist.held \subseteq hist'.held /\ (Reading => <<n, v>> \in hist'.held)
    BY <1>1 DEF FoundationInv, Base!TypeOK, Reading
  <1>4. ObjectsInv' BY <1>2, <1>3 DEF FoundationInv, ObjectsInv, LedgerInv, GenesisInv, Base!required
  <1>5. RootInv' BY <1>2 DEF RootInv, Reading, FoundationInv, PassInv
  <1>6. StageInv' BY <1>2 DEF StageInv, FoundationInv, PassInv, Base!live
  <1>7. composed' = composed /\ fresh' = fresh BY <1>2 DEF composed, fresh, Base!live
  <1>8. InstanceInv' BY <1>2, <1>7 DEF InstanceInv, FoundationInv, PassInv, Base!required
  <1>9. FreshInv'
    <2>1. Reading => \A m \in Members : <<m, defs'[m]>> \in hist'.held
      BY <1>1, <1>3 DEF FoundationInv, Base!TypeOK, PassInv, FreshInv
    <2> QED BY <1>2, <1>3, <1>7, <2>1 DEF FreshInv, Reading, FoundationInv, PassInv, Base!live
  <1>10. Pending' BY <1>2 DEF Pending
  <1>11. ProgressInv' BY <1>2, <1>10 DEF FoundationInv, ProgressInv, Cached
  <1> QED BY <1>4, <1>5, <1>6, <1>8, <1>9, <1>10, <1>11, NoRest DEF FoundationInv, PassInv

\* Instances and genesis may be lost.
LEMMA LossStep ==
  ASSUME FoundationInv, Base!TypeOK', Base!Lose \/ Base!Vanish PROVE FoundationInv'
  <1>1. /\ UNCHANGED <<root, defs, cdefs, queue, pass, uid>> /\ events \subseteq events' /\ events' # {}
        /\ (hist.lost => hist'.lost) /\ hist'.removed = hist.removed /\ hist'.held = hist.held
    BY DEF Base!Lose, Base!Vanish, Base!Notify, FoundationInv, Base!TypeOK
  <1>2. /\ genesis'.pol = genesis.pol /\ genesis'.of = genesis.of
        /\ genesis' = genesis \/ (genesis.st = "live" /\ genesis'.st = "lost" /\ hist'.lost)
    BY DEF Base!Lose, Base!Vanish, FoundationInv, Base!TypeOK, Base!Genesis
  <1>3. \A n \in Members :
          \/ part'[n] = part[n]
          \/ part'[n] = [part[n] EXCEPT !.deleting = TRUE] /\ hist'.lost
          \/ part'[n] = Base!NoPart /\ part[n].deleting
    <2>1. CASE Base!Vanish BY <2>1 DEF Base!Vanish, FoundationInv, Base!TypeOK
    <2>2. CASE Base!Lose
      <3>1. hist'.lost BY <2>2 DEF Base!Lose, FoundationInv, Base!TypeOK
      <3>2. part' = part \/ \E n \in Members : part' = [part EXCEPT ![n].deleting = TRUE] BY <2>2 DEF Base!Lose
      <3> QED BY <3>1, <3>2 DEF FoundationInv, Base!TypeOK
    <2> QED BY <2>1, <2>2
  <1>4. \A n \in Members :
          /\ part'[n].uid # 0 => /\ part'[n].uid = part[n].uid /\ part'[n].adm = part[n].adm
                                 /\ part'[n].deleting => part[n].deleting \/ hist'.lost
                                 /\ part'[n] \in {part[n], [part[n] EXCEPT !.deleting = TRUE]}
          /\ part'[n].uid = 0 => /\ part'[n].adm = 0 /\ (part'[n].deleting => part[n].deleting \/ hist'.lost)
                                 /\ part[n].uid = 0 \/ part[n].deleting
    BY <1>3 DEF Base!NoPart, FoundationInv, Base!TypeOK, Base!Part, ObjectsInv, LedgerInv
  <1>5. LedgerInv' BY <1>1, <1>4 DEF FoundationInv, ObjectsInv, LedgerInv
  <1>6. GenesisInv' BY <1>1, <1>2, <1>4 DEF FoundationInv, ObjectsInv, GenesisInv, Base!required
  <1>7. RootInv' BY <1>1 DEF RootInv, Reading, FoundationInv, PassInv
  <1>8. StageInv' BY <1>1, <1>2 DEF StageInv, FoundationInv, PassInv, Base!live
  <1>9. composed' = composed /\ fresh' = fresh /\ composed \subseteq Members
    <2>1. composed' = composed /\ fresh' = fresh BY <1>1 DEF composed, fresh, Base!live
    <2>2. pass.pc # "idle" => Base!live(pass.root) \subseteq Members BY ReadRoot, LiveNames DEF Reading
    <2> QED BY <2>1, <2>2 DEF composed
  <1>10. InstanceInv'
    <2> SUFFICES ASSUME NEW n \in composed
                 PROVE  part'[n].uid # 0 =>
                          part'[n] \in {pass.inst[n], [pass.inst[n] EXCEPT !.deleting = TRUE]}
      BY <1>1, <1>2, <1>9 DEF InstanceInv, FoundationInv, PassInv, Base!required
    <2>1. pass.inst[n] \in Base!Part BY <1>9 DEF FoundationInv, Base!TypeOK, Base!PassState
    <2>2. part[n].uid # 0 => part[n] \in {pass.inst[n], [pass.inst[n] EXCEPT !.deleting = TRUE]}
      BY DEF FoundationInv, PassInv, InstanceInv
    <2> DEFINE p == pass.inst[n]
               d == [p EXCEPT !.deleting = TRUE]
    <2>3. [d EXCEPT !.deleting = TRUE] = d BY <2>1 DEF Base!Part
    <2> HIDE DEF p, d
    <2>4. part[n].uid # 0 => part[n] \in {p, d} BY <2>2 DEF p, d
    <2>5. [p EXCEPT !.deleting = TRUE] = d BY DEF d
    <2>6. ASSUME part'[n].uid # 0 PROVE part'[n] \in {p, d}
      <3>1. /\ part'[n] = part[n] \/ part'[n] = [part[n] EXCEPT !.deleting = TRUE]
            /\ part[n] = p \/ part[n] = d
        <4>1. n \in Members BY <1>9
        <4>2. part'[n].uid = part[n].uid BY <1>4, <2>6, <4>1
        <4>3. part'[n] \in {part[n], [part[n] EXCEPT !.deleting = TRUE]} BY <1>4, <2>6, <4>1
        <4> QED BY <2>4, <2>6, <4>2, <4>3
      <3>2. CASE part[n] = p BY <2>5, <3>1, <3>2
      <3>3. CASE part[n] = d BY <2>3, <3>1, <3>3
      <3> QED BY <3>1, <3>2, <3>3
    <2> QED BY <2>6 DEF p, d
  <1>11. FreshInv' BY <1>1, <1>9 DEF FreshInv, Reading, FoundationInv, PassInv, Base!live
  <1>12. Pending' BY <1>1 DEF Pending
  <1>13. ProgressInv' BY <1>1, <1>12 DEF FoundationInv, ProgressInv, Cached
  <1> QED BY <1>5, <1>6, <1>7, <1>8, <1>10, <1>11, <1>12, <1>13, NoRest DEF FoundationInv, ObjectsInv, PassInv

LEMMA GateStep ==
  ASSUME FoundationInv, Base!TypeOK', Base!Bounds, Base!CompleteGate PROVE FoundationInv'
  <1>1. /\ pass.pc = "idle" /\ root' = [root EXCEPT !.index = @ + 1] /\ events' = events \cup {"root"}
        /\ UNCHANGED <<part, genesis, defs, cdefs, queue, pass, uid, hist>>
    BY DEF Base!CompleteGate, Base!Notify
  <1>2. /\ root'.ids = root.ids /\ root'.ref = root.ref /\ root'.index = root.index + 1
        /\ root'.failed = root.failed /\ root'.entries = root.entries /\ root'.deleting = root.deleting
        /\ root.index \in Nat
    BY <1>1 DEF FoundationInv, Base!TypeOK, Base!Root
  <1>3. LedgerInv' BY <1>1, <1>2 DEF FoundationInv, ObjectsInv, LedgerInv
  <1>4. GenesisInv'
    <2>1. \A n \in Members : root'.index < Last[n] => root.index < Last[n] BY <1>2 DEF Base!Bounds
    <2> QED BY <1>1, <1>2, <2>1 DEF FoundationInv, ObjectsInv, GenesisInv, Base!required
  <1>5. ~Reading' /\ composed' = {} /\ fresh' = {} BY <1>1 DEF Reading, composed, fresh
  <1>6. PassInv' BY <1>1, <1>5 DEF PassInv, RootInv, StageInv, InstanceInv, FreshInv, FoundationInv
  <1>7. Pending' BY <1>1 DEF Pending
  <1>8. ProgressInv' BY <1>1, <1>7 DEF FoundationInv, ProgressInv, Cached
  <1> QED BY <1>3, <1>4, <1>6, <1>7, <1>8, NoRest DEF FoundationInv, ObjectsInv

LEMMA DeliverStep ==
  ASSUME FoundationInv, Base!TypeOK', Base!Deliver PROVE FoundationInv'
  <1>1. PICK o \in events : /\ events' = events \ {o}
                            /\ cdefs' = IF o = "def" THEN defs ELSE cdefs
                            /\ queue' = (queue \/ o = "root" \/ "root" \notin events)
    BY DEF Base!Deliver
  <1>2. UNCHANGED <<root, part, genesis, defs, pass, uid, hist>> BY DEF Base!Deliver
  <1>3. Pending' BY <1>1 DEF Pending
  <1>4. Cached' BY <1>1, <1>2 DEF Cached, FoundationInv, ProgressInv
  <1>5. ObjectsInv' BY <1>2 DEF FoundationInv, ObjectsInv, LedgerInv, GenesisInv, Base!required
  <1>6. RootInv' BY <1>2 DEF RootInv, Reading, FoundationInv, PassInv
  <1>7. StageInv' BY <1>2 DEF StageInv, FoundationInv, PassInv, Base!live
  <1>8. composed' = composed /\ fresh' = fresh BY <1>2 DEF composed, fresh, Base!live
  <1>9. InstanceInv' BY <1>2, <1>8 DEF InstanceInv, FoundationInv, PassInv, Base!required
  <1>10. FreshInv' BY <1>2, <1>8 DEF FreshInv, Reading, FoundationInv, PassInv, Base!live
  <1> QED BY <1>3, <1>4, <1>5, <1>6, <1>7, <1>9, <1>10, NoRest DEF FoundationInv, PassInv, ProgressInv

LEMMA FoundationIdleStep ==
  ASSUME FoundationInv, Base!TypeOK', UNCHANGED Base!vars PROVE FoundationInv'
  <1>1. ObjectsInv' BY DEF Base!vars, FoundationInv, ObjectsInv, LedgerInv, GenesisInv, Base!required
  <1>2. composed' = composed /\ fresh' = fresh BY DEF Base!vars, composed, fresh, Base!live
  <1>3. RootInv' /\ StageInv' BY DEF Base!vars, RootInv, StageInv, Reading, FoundationInv, PassInv, Base!live
  <1>4. InstanceInv' /\ FreshInv'
    BY <1>2 DEF Base!vars, InstanceInv, FreshInv, Reading, FoundationInv, PassInv, Base!required, Base!live
  <1>5. \A n : Base!admitted(n)' = Base!admitted(n)
    <2>1. \A n : Base!deferral(n)' = Base!deferral(n)
      BY DEF Base!vars, Base!deferral, Base!held, Base!required, Base!bootstrapPolicyPending
    <2> QED BY <2>1 DEF Base!vars, Base!admitted
  <1>6. ProgressInv'
    <2>1. Done => Done' BY <1>2, <1>5 DEF Base!vars, Done, Withdrawn
    <2> QED BY <2>1 DEF Base!vars, FoundationInv, ProgressInv, Cached, Pending, Reading
  <1>7. Base!RestIsConverged' BY DEF Base!vars, FoundationInv, Base!RestIsConverged, Base!Rest, Base!required
  <1> QED BY <1>1, <1>3, <1>4, <1>6, <1>7 DEF FoundationInv, PassInv

LEMMA FoundationInitially ==
  ASSUME Base!Init, Base!Bounds PROVE FoundationInv
  <1>1. Base!TypeOK
    <2>1. root \in Base!Root BY DEF Base!Init, Base!Root
    <2>2. part \in [Members -> Base!Part] BY EmptyPart DEF Base!Init
    <2>3. genesis \in Base!Genesis BY DEF Base!Init, Base!Genesis, Base!None, Base!Policies
    <2>4. defs \in [Members -> Base!Policies] /\ cdefs \in [Members -> Base!Policies]
      BY DEF Base!Init, Base!Policies
    <2>5. budget \in [Base!Kinds -> Nat] BY DEF Base!Init, Base!Bounds
    <2> QED BY <2>1, <2>2, <2>3, <2>4, <2>5, IdleState DEF Base!Init, Base!TypeOK, Base!Bounds
  <1>2. pass.pc = "idle" BY DEF Base!Init, Base!Idle
  <1>3. ObjectsInv
    <2>1. \A n \in Members : /\ part[n].uid = 0 /\ part[n].adm = 0 /\ ~part[n].deleting
                             /\ root.ids[n].uid = 0 /\ genesis.pol[n] = 0
      BY DEF Base!Init, Base!NoPart, Base!None
    <2> QED BY <2>1 DEF Base!Init, ObjectsInv, LedgerInv, GenesisInv, Base!required
  <1>4. composed = {} /\ fresh = {} /\ ~Reading BY <1>2 DEF composed, fresh, Reading
  <1>5. PassInv BY <1>2, <1>4 DEF PassInv, RootInv, StageInv, InstanceInv, FreshInv
  <1>6. ProgressInv /\ Base!RestIsConverged
    BY <1>4 DEF Base!Init, ProgressInv, Cached, Base!RestIsConverged, Base!Rest
  <1> QED BY <1>1, <1>3, <1>5, <1>6 DEF FoundationInv

LEMMA FoundationStep ==
  ASSUME FoundationInv, Base!Bounds, [Base!Next]_(Base!vars) PROVE FoundationInv'
  <1>1. Rooted /\ StageInv /\ Base!TypeOK BY DEF FoundationInv, PassInv, Rooted, RootInv
  <1>2. Base!TypeOK' BY <1>1, TypeStep
  <1>3. CASE Base!Pass
    BY <1>2, <1>3, TakeStep, DestroyStep, FinalizerStep, RemovalStep, RemoveStep, GenesisStep, CreateStep,
       IdentityStep, ControlStep, ComposeStep, RefuseStep, AdmitStep, ResolveStep, FreshStep, RecheckStep,
       CaptureStep, EndStep, CrashStep DEF Base!Pass
  <1>4. CASE Base!Others
    BY <1>2, <1>4, FoundationRootStep, DefineStep, LossStep, GateStep, DeliverStep DEF Base!Others
  <1>5. CASE UNCHANGED Base!vars BY <1>2, <1>5, FoundationIdleStep
  <1> QED BY <1>3, <1>4, <1>5 DEF Base!Next

LEMMA CaptureOnly ==
  ASSUME FoundationInv, [Base!Next]_(Base!vars) PROVE Base!CaptureDecision
  <1>1. CASE Base!Capture /\ genesis' = Base!captured
    <2>1. pass.pc = "create" BY <1>1 DEF Base!Capture
    <2> SUFFICES ASSUME NEW n \in Members, Base!captured.pol[n] # 0
                 PROVE  /\ part[n].uid \in {0, Base!captured.of[n]}
                        /\ part[n].uid # 0 => part[n].adm = Base!captured.pol[n]
                        /\ <<n, Base!captured.pol[n]>> \in hist.held
      BY <1>1 DEF Base!CaptureDecision
    <2> QED BY <2>1, CaptureFacts
  <1>2. CASE genesis' = genesis \/ (genesis.st = "live" /\ genesis'.st = "lost")
    BY <1>2 DEF Base!CaptureDecision
  <1>3. CASE Base!Pass
    BY <1>1, <1>2, <1>3
    DEF Base!Pass, Base!Take, Base!Destroy, Base!AddFinalizer, Base!RecordRemoval, Base!DeleteRemoved,
        Base!RecoverGenesis, Base!ReadGenesis, Base!Create,
        Base!RecordIdentity, Base!ProjectControl, Base!Compose, Base!Refuse, Base!Admit, Base!Resolve,
        Base!Fresh, Base!Recheck, Base!Capture, Base!Publish, Base!Abort,
        Base!Crash, Base!WriteRoot, Base!Fail, Base!Go, Base!Return
  <1>4. CASE Base!Others
    BY <1>2, <1>4
    DEF Base!Others, Base!EditRoot, Base!Edit, Base!Define, Base!Lose, Base!Vanish, Base!CompleteGate,
        Base!Deliver, FoundationInv, Base!TypeOK, Base!Genesis
  <1>5. CASE UNCHANGED Base!vars BY <1>2, <1>5 DEF Base!vars
  <1> QED BY <1>3, <1>4, <1>5 DEF Base!Next

LEMMA FoundationKept ==
  ASSUME FoundationInv PROVE Base!TypeOK /\ Base!RestIsConverged /\ Base!CapturedKept /\ Base!FailureJustified
  <1>1. Base!CapturedKept
    <2>1. ASSUME NEW n \in Members, Base!required(genesis, n), part[n].uid = genesis.of[n], root.index < Last[n]
          PROVE  Base!BootstrapPolicyCompatible(genesis.pol[n], part[n].adm)
      BY <2>1 DEF FoundationInv, ObjectsInv, GenesisInv
    <2> QED BY <2>1 DEF Base!CapturedKept
  <1> QED BY <1>1 DEF FoundationInv, ObjectsInv, GenesisInv, Base!FailureJustified

\* Objects, copies and the pass keep their types, for any participants, dependencies and edits:
\* what a pass writes is a status of the root it read or a participant it found.
THEOREM FoundationTypes == Base!Spec => []Base!TypeOK
  <1>1. Base!Init => FoundationInv BY NetworkAssumption, FoundationInitially
  <1>2. FoundationInv /\ [Base!Next]_(Base!vars) => FoundationInv' BY NetworkAssumption, FoundationStep
  <1>3. FoundationInv => Base!TypeOK BY DEF FoundationInv
  <1> QED BY <1>1, <1>2, <1>3, PTL DEF Base!Spec

HIDE DEF Histories, LossesKept

-----------------------------------------------------------------------------
(* The runtime projection *)

\* What the ledger says of the worker is so, and nothing ran before the capture.
SessionFacts ==
    /\ root.phase = "Failed" => root.failed
    /\ root.wrk = "unlisted" => ~root.genesis
    /\ ~root.genesis => srv.wrk.pod = "none"
    /\ srv.wrk.pod \in {"none", "dead"} => ~live["wrk"]
    /\ root.wrk \in {"bound", "ended"} => srv.wrk.pod # "none"
    /\ root.wrk = "ended" => srv.wrk.pod = "dead"

ControlEnded == root.op = "Stopped" /\ ~live["ctl"]

NodeEnded == srv.node.rolled \/ (root.op = "Stopped" /\ ~srv.node.up /\ ~live["node"])

\* A recorded end is for good, so a copy of it is as good as the record.
EndFacts ==
    /\ srv.btc.term \/ cache.btc.term \/ pass.got.btc.term => ControlEnded
    /\ srv.node.term \/ cache.node.term \/ pass.got.node.term => NodeEnded

\* An acknowledgement of the current generation is of the current operation.
AckFacts ==
    /\ srv.exe.ack <= root.gen /\ cache.exe.ack <= srv.exe.ack
    /\ srv.exe.ack = root.gen => srv.exe.paused = (root.op = "Paused")
    /\ srv.exe.paused => ~srv.exe.armed
    /\ srv.wrk.ack <= root.gen /\ cache.wrk.ack <= srv.wrk.ack /\ pass.got.wrk.ack <= srv.wrk.ack
    /\ srv.wrk.ack = root.gen => srv.wrk.paused = (root.op = "Paused")

StampFacts ==
    /\ srv.wrk.at <= clock /\ cache.wrk.at <= clock /\ pass.got.wrk.at <= clock
    /\ srv.node.at <= clock /\ cache.node.at <= clock /\ pass.got.node.at <= clock

\* The evidence that a pass has confirmed was there since it began.
found(f) == f \in Runtime!evidence(pass.root, pass.got, pass.base.index + 1)

EvidenceFacts ==
    pass.base.index # Runtime!NGates =>
      /\ pass.pc \in {"fresh node", "confirm"} =>
           \A f \in {"prepared", "pox4", "contracts", "pox5"} : found(f) => f \in held
      /\ pass.pc = "confirm" => (found("set") => "set" \in held)

\* A pass publishes Paused and Stopped when everything has obeyed, which lasts as long as the
\* root is the one it read.
PauseSeen(b) == b.op = "Paused" /\ srv.exe.ack >= b.gen /\ (b.wrk = "bound" => srv.wrk.ack >= b.gen)

EndSeen(r) == ControlEnded /\ NodeEnded /\ r.wrk # "bound"

\* What a pass may write over the root b that it read.
Fits(b, r, H) ==
    /\ r.gen = b.gen /\ r.op = b.op /\ r.deleting = b.deleting /\ r.genesis = b.genesis
    /\ r.phase = "Failed" => r.failed
    /\ r.wrk = "unlisted" => b.wrk = "unlisted"
    /\ r.wrk \in {"bound", "ended"} => srv.wrk.pod # "none"
    /\ r.wrk = "ended" => srv.wrk.pod = "dead"
    /\ b.wrk = "bound" /\ r.op # "Stopped" => r.wrk = "bound"
    /\ r.index # b.index => r.index = b.index + 1 /\ Runtime!needs(r.index) \subseteq H
    /\ r.failed /\ ~b.failed =>
         \/ srv.wrk.pod \in {"dead", "lost"} \/ srv.rec.failed \/ "over" \in H
         \/ r.first # 0 /\ clock >= r.first + Deadline
    /\ r.phase = "Paused" => b.phase = "Paused" \/ PauseSeen(b)
    /\ r.phase = "Stopped" => b.phase = "Stopped" \/ EndSeen(r)

Deciding == {"preparation", "gates", "fresh wrk", "fresh node", "confirm"}

PassFacts ==
    pass.pc # "idle" =>
      /\ Fits(pass.base, pass.root, held)
      /\ pass.pc = "sessions" => pass.root.phase = pass.base.phase
      /\ pass.pc \notin {"pause", "write"} => pass.root.index = pass.base.index
      /\ pass.pc \in Deciding \cup {"pause"} => ~pass.root.failed
      /\ pass.pc = "pause" => pass.root.op = "Paused"

RuntimeInv ==
    Runtime!TypeOK /\ SessionFacts /\ EndFacts /\ AckFacts /\ StampFacts /\ EvidenceFacts /\ PassFacts

-----------------------------------------------------------------------------
(* Types *)

LEMMA RuntimeBounds ==
  /\ Ceiling \in [1 .. Runtime!NGates -> Nat] /\ Cycle \in [1 .. Runtime!NGates -> Nat] /\ Deadline \in Nat
  /\ RuntimeCases \subseteq [Runtime!Kinds -> Nat] /\ \A b \in RuntimeCases : b["From"] <= Runtime!NGates
  BY NetworkAssumption DEF Runtime!Bounds

LEMMA ObjectsType ==
  ASSUME NEW o \in Runtime!Objects
  PROVE  o.rec \in Runtime!Rec
         /\ o.exe \in Runtime!Exe /\ o.btc \in Runtime!Btc /\ o.wrk \in Runtime!Wrk /\ o.node \in Runtime!Node
  BY DEF Runtime!Objects

\* An object with one part changed.
LEMMA ObjectWith ==
  ASSUME NEW o \in Runtime!Objects
  PROVE  /\ \A v \in Runtime!Rec : LET p == [o EXCEPT !.rec = v] IN
              p \in Runtime!Objects /\ p.rec = v /\ p.exe = o.exe /\ p.btc = o.btc /\ p.wrk = o.wrk
                  /\ p.node = o.node
         /\ \A v \in Runtime!Exe : LET p == [o EXCEPT !.exe = v] IN
              p \in Runtime!Objects /\ p.exe = v /\ p.rec = o.rec /\ p.btc = o.btc /\ p.wrk = o.wrk
                  /\ p.node = o.node
         /\ \A v \in Runtime!Btc : LET p == [o EXCEPT !.btc = v] IN
              p \in Runtime!Objects /\ p.btc = v /\ p.rec = o.rec /\ p.exe = o.exe /\ p.wrk = o.wrk
                  /\ p.node = o.node
         /\ \A v \in Runtime!Wrk : LET p == [o EXCEPT !.wrk = v] IN
              p \in Runtime!Objects /\ p.wrk = v /\ p.rec = o.rec /\ p.exe = o.exe /\ p.btc = o.btc
                  /\ p.node = o.node
         /\ \A v \in Runtime!Node : LET p == [o EXCEPT !.node = v] IN
              p \in Runtime!Objects /\ p.node = v /\ p.rec = o.rec /\ p.exe = o.exe /\ p.btc = o.btc
                  /\ p.wrk = o.wrk
  BY DEF Runtime!Objects

LEMMA NothingType ==
  /\ Runtime!NoObjects \in Runtime!Objects /\ ~Runtime!NoObjects.btc.term /\ ~Runtime!NoObjects.node.term
      /\ Runtime!NoObjects.wrk.ack = 0
  /\ Runtime!NoObjects.wrk.at = 0 /\ Runtime!NoObjects.node.at = 0
  <1>1. /\ Runtime!NoObjects.rec \in Runtime!Rec /\ Runtime!NoObjects.exe \in Runtime!Exe
        /\ Runtime!NoObjects.btc \in Runtime!Btc /\ Runtime!NoObjects.wrk \in Runtime!Wrk
        /\ Runtime!NoObjects.node \in Runtime!Node
    BY DEF Runtime!NoObjects, Runtime!Rec, Runtime!Exe, Runtime!Btc, Runtime!Wrk, Runtime!Node, Runtime!Times
  <1>2. Runtime!NoObjects \in Runtime!Objects BY <1>1 DEF Runtime!NoObjects, Runtime!Objects
  <1> QED BY <1>2 DEF Runtime!NoObjects

LEMMA NoRootType == Runtime!NoRoot \in Runtime!Root
  BY DEF Runtime!NoRoot, Runtime!Root, Runtime!Phases, Runtime!NGates, Runtime!Times

LEMMA IdleType ==
  Runtime!Idle \in Runtime!PassState /\ Runtime!Idle.pc = "idle" /\ Runtime!Idle.got = Runtime!NoObjects
  <1>1. Runtime!Idle.pc \in Runtime!Steps BY DEF Runtime!Idle, Runtime!Steps
  <1> QED BY <1>1, NothingType, NoRootType DEF Runtime!Idle, Runtime!PassState

Facts == {"prepared", "pox4", "contracts", "pox5", "set", "height", "over"}

LEMMA EvidenceType ==
  ASSUME NEW r, NEW o, NEW g
  PROVE  Runtime!evidence(r, o, g) \subseteq Facts
  BY DEF Runtime!evidence, Facts

LEMMA WitnessType ==
  ASSUME Runtime!TypeOK, Runtime!Witness PROVE held' \subseteq Facts
  <1> DEFINE E == Runtime!evidence([pass'.base EXCEPT !.wrk = pass'.root.wrk], srv', pass'.base.index + 1)
  <1>1. held' = IF pass'.pc = "idle" THEN {}
                ELSE (IF pass.pc = "idle" THEN {} ELSE held)
                       \cup (IF pass'.base.index = Runtime!NGates THEN {} ELSE E)
    BY DEF Runtime!Witness
  <1>2. E \subseteq Facts BY EvidenceType
  <1>3. held \subseteq Facts BY DEF Runtime!TypeOK, Facts
  <1> HIDE DEF E
  <1> QED BY <1>1, <1>2, <1>3

\* What a pass has seen it does not forget, and what is there now it sees.
LEMMA HeldGrows ==
  ASSUME Runtime!Witness, pass'.pc # "idle"
  PROVE  /\ pass.pc # "idle" => held \subseteq held'
         /\ pass'.base.index # Runtime!NGates =>
              Runtime!evidence([pass'.base EXCEPT !.wrk = pass'.root.wrk], srv',
              pass'.base.index + 1) \subseteq held'
  BY DEF Runtime!Witness

LEMMA RootWith ==
  ASSUME NEW r \in Runtime!Root
  PROVE  /\ \A v \in Runtime!Phases : [r EXCEPT !.phase = v] \in Runtime!Root
         /\ Runtime!Latched(r) \in Runtime!Root
         /\ \A p : Runtime!session(r, p) \in Runtime!Root
         /\ \A n \in Nat : [r EXCEPT !.first = n] \in Runtime!Root
         /\ Runtime!initializeGates(r) \in Runtime!Root
  <1>1. \A v \in Runtime!Phases : [r EXCEPT !.phase = v] \in Runtime!Root BY DEF Runtime!Root
  <1>2. Runtime!Latched(r) \in Runtime!Root BY DEF Runtime!Root, Runtime!Latched, Runtime!Phases
  <1>3. \A p : Runtime!session(r, p) \in Runtime!Root
    <2>1. [r EXCEPT !.wrk = "bound"] \in Runtime!Root /\ [r EXCEPT !.wrk = "ended"] \in Runtime!Root
      BY DEF Runtime!Root
    <2> QED BY <1>2, <2>1 DEF Runtime!session
  <1>4. \A n \in Nat : [r EXCEPT !.first = n] \in Runtime!Root BY DEF Runtime!Root, Runtime!Times
  <1>5. Runtime!initializeGates(r) \in Runtime!Root BY DEF Runtime!Root, Runtime!initializeGates
  <1> QED BY <1>1, <1>2, <1>3, <1>4, <1>5

LEMMA FirstType ==
  ASSUME NEW r \in Runtime!Root, NEW o \in Runtime!Objects, clock \in Nat
  PROVE  Runtime!firstCeiling(r, o) \in Nat
  BY DEF Runtime!firstCeiling, Runtime!Root, Runtime!Objects, Runtime!Rec, Runtime!Times

LEMMA GatesType ==
  ASSUME NEW r \in Runtime!Root, NEW o \in Runtime!Objects, clock \in Nat
  PROVE  Runtime!projectGates(r, o) \in Runtime!Root
  <1> DEFINE s == Runtime!initializeGates(r)
             f == Runtime!firstCeiling(r, o)
  <1>1. s \in Runtime!Root /\ s.index = r.index BY RootWith DEF Runtime!Root, Runtime!initializeGates
  <1>2. f \in Nat BY FirstType
  <1>3. [s EXCEPT !.first = f] \in Runtime!Root BY <1>1, <1>2, RootWith
  <1>4. Runtime!Latched([s EXCEPT !.first = f]) \in Runtime!Root BY <1>3, RootWith
  <1>5. ASSUME r.index # Runtime!NGates PROVE [s EXCEPT !.index = @ + 1, !.first = 0] \in Runtime!Root
    <2>1. s.index + 1 \in 0 .. Runtime!NGates BY <1>1, <1>5 DEF Runtime!Root, Runtime!NGates
    <2> HIDE DEF s
    <2>2. [s EXCEPT !.index = s.index + 1] \in Runtime!Root BY <1>1, <2>1 DEF Runtime!Root
    <2>3. [s EXCEPT !.index = @ + 1, !.first = 0] = [[s EXCEPT !.index = s.index + 1] EXCEPT !.first = 0]
      BY <1>1 DEF Runtime!Root
    <2> QED BY <2>2, <2>3, RootWith
  <1> HIDE DEF s, f
  <1>6. Runtime!projectGates(r, o) = IF r.index = Runtime!NGates THEN s
                             ELSE IF Runtime!exceeded(r, o) \/ Runtime!expired(r, o)
                                 THEN Runtime!Latched([s EXCEPT !.first = f])
                             ELSE IF Runtime!complete(r, o) THEN [s EXCEPT !.index = @ + 1, !.first = 0]
                             ELSE [s EXCEPT !.first = f]
    BY DEF Runtime!projectGates, s, f
  <1> QED BY <1>1, <1>3, <1>4, <1>5, <1>6

LEMMA FinishType ==
  ASSUME Runtime!TypeOK, NEW r \in Runtime!Root, Runtime!Finish(r)
  PROVE  pass' \in Runtime!PassState
  <1>1. pass.base \in Runtime!Root BY DEF Runtime!TypeOK, Runtime!PassState
  <1>2. "write" \in Runtime!Steps BY DEF Runtime!Steps
  <1> QED BY <1>1, <1>2, IdleType DEF Runtime!Finish, Runtime!PassState

LEMMA OnlyType ==
  ASSUME Runtime!TypeOK, Runtime!Only, pass' \in Runtime!PassState
  PROVE  Runtime!TypeOK'
  BY WitnessType DEF Runtime!Only, Runtime!world, Runtime!TypeOK, Facts

LEMMA PassWith ==
  ASSUME NEW p \in Runtime!PassState
  PROVE  /\ p.base \in Runtime!Root /\ p.root \in Runtime!Root /\ p.got \in Runtime!Objects
         /\ \A s \in Runtime!Steps, r \in Runtime!Root : [p EXCEPT !.pc = s, !.root = r] \in Runtime!PassState
         /\ \A s \in Runtime!Steps, o \in Runtime!Objects : [p EXCEPT !.pc = s, !.got = o] \in Runtime!PassState
  BY DEF Runtime!PassState

-----------------------------------------------------------------------------
(* The steps of a pass *)

\* What holds of any copy that a pass may have.
Copied(o) ==
    /\ o.btc.term => ControlEnded
    /\ o.node.term => NodeEnded
    /\ o.wrk.ack <= srv.wrk.ack /\ o.wrk.at <= clock /\ o.node.at <= clock

LEMMA Copies ==
  ASSUME RuntimeInv
  PROVE  Copied(pass.got) /\ Copied(Runtime!NoObjects) /\ Copied(srv) /\ Copied(cache)
  <1>1. srv.wrk.ack \in Nat /\ clock \in Nat BY DEF RuntimeInv, Runtime!TypeOK, Runtime!Objects, Runtime!Wrk
  <1> QED BY <1>1, NothingType DEF RuntimeInv, EndFacts, AckFacts, StampFacts, Copied

\* A step of a pass changes nothing but the pass.
LEMMA PassKept ==
  ASSUME RuntimeInv, Runtime!TypeOK', Runtime!Only, Copied(pass'.got), EvidenceFacts', PassFacts'
  PROVE  RuntimeInv'
  <1>1. UNCHANGED Runtime!world BY DEF Runtime!Only
  <1>2. SessionFacts' BY <1>1 DEF RuntimeInv, SessionFacts, Runtime!world
  <1>3. EndFacts' BY <1>1 DEF RuntimeInv, EndFacts, ControlEnded, NodeEnded, Copied, Runtime!world
  <1>4. AckFacts' BY <1>1 DEF RuntimeInv, AckFacts, Copied, Runtime!world
  <1>5. StampFacts' BY <1>1 DEF RuntimeInv, StampFacts, Copied, Runtime!world
  <1> QED BY <1>2, <1>3, <1>4, <1>5 DEF RuntimeInv

LEMMA PassRest ==
  ASSUME RuntimeInv, Runtime!TypeOK', Runtime!Only, pass' = Runtime!Idle
  PROVE  RuntimeInv'
  <1>1. pass'.pc = "idle" /\ pass'.got = Runtime!NoObjects BY IdleType
  <1>2. EvidenceFacts' /\ PassFacts' BY <1>1 DEF EvidenceFacts, PassFacts
  <1> QED BY <1>1, <1>2, Copies, PassKept

LEMMA FitsGrow ==
  ASSUME NEW b, NEW r, NEW H, NEW K, Fits(b, r, H), H \subseteq K
  PROVE  Fits(b, r, K)
  BY DEF Fits

\* A pass that ends, or is about to write r.
LEMMA RuntimeFinishStep ==
  ASSUME RuntimeInv, Runtime!TypeOK', Runtime!Only, NEW r, Runtime!Finish(r),
         pass'.pc # "idle" => Fits(pass.base, r, held')
  PROVE  RuntimeInv'
  <1>1. CASE r = pass.base BY <1>1, PassRest DEF Runtime!Finish
  <1>2. CASE r # pass.base
    <2>1. pass' = [Runtime!Idle EXCEPT !.pc = "write", !.base = pass.base, !.root = r]
      BY <1>2 DEF Runtime!Finish
    <2>2. pass'.pc = "write" /\ pass'.base = pass.base /\ pass'.root = r /\ pass'.got = Runtime!NoObjects
      BY <2>1 DEF Runtime!Idle
    <2>3. EvidenceFacts' BY <2>2 DEF EvidenceFacts
    <2>4. PassFacts'
      <3>1. Fits(pass.base, r, held') BY <2>2
      <3>2. UNCHANGED <<srv, root, clock, live>> BY DEF Runtime!Only, Runtime!world
      <3>3. Fits(pass.base, pass.root, held)'
        BY <2>2, <3>1, <3>2 DEF Fits, PauseSeen, EndSeen, ControlEnded, NodeEnded
      <3> QED BY <2>2, <3>3 DEF PassFacts, Deciding
    <2> QED BY <2>2, <2>3, <2>4, Copies, PassKept
  <1> QED BY <1>1, <1>2

LEMMA FinishFits ==
  ASSUME RuntimeInv, Runtime!TypeOK', Runtime!Only, pass.pc # "idle", NEW r, Runtime!Finish(r),
         Fits(pass.base, r, held)
  PROVE  RuntimeInv'
  <1>1. pass'.pc # "idle" => Fits(pass.base, r, held')
    BY HeldGrows, FitsGrow DEF Runtime!Only
  <1> QED BY <1>1, RuntimeFinishStep

LEMMA FitsPhase ==
  ASSUME NEW b, NEW r \in Runtime!Root, NEW H, Fits(b, r, H), NEW v \in Runtime!Phases,
         v \notin {"Paused", "Stopped"},
         v = "Failed" => r.failed
  PROVE  Fits(b, [r EXCEPT !.phase = v], H)
  BY DEF Fits, EndSeen, Runtime!Root

LEMMA RootFacts ==
  ASSUME RuntimeInv
  PROVE  /\ pass \in Runtime!PassState /\ pass.base \in Runtime!Root /\ pass.root \in Runtime!Root
             /\ pass.got \in Runtime!Objects
         /\ pass.pc # "idle" => Fits(pass.base, pass.root, held)
  <1>1. pass \in Runtime!PassState BY DEF RuntimeInv, Runtime!TypeOK
  <1> QED BY <1>1, PassWith DEF RuntimeInv, PassFacts

LEMMA RuntimeStartStep ==
  ASSUME RuntimeInv, Runtime!Start PROVE RuntimeInv'
  <1> DEFINE r == IF root.phase = "Failed" THEN Runtime!Latched(root) ELSE root
             o == [Runtime!NoObjects EXCEPT !.wrk = cache.wrk, !.node = cache.node, !.btc = cache.btc]
  <1>1. pass' = [pc |-> "sessions", base |-> root, root |-> r, got |-> o]
    BY DEF Runtime!Start, Runtime!Idle
  <1>2. root \in Runtime!Root /\ cache \in Runtime!Objects BY DEF RuntimeInv, Runtime!TypeOK
  <1>3. r \in Runtime!Root /\ r.index = root.index /\ r.gen = root.gen /\ r.op = root.op
            /\ r.deleting = root.deleting
        /\ r.genesis = root.genesis /\ r.wrk = root.wrk /\ r.failed = root.failed /\ r.phase = root.phase
    BY <1>2, RootWith DEF Runtime!Latched, Runtime!Root, RuntimeInv, SessionFacts
  <1>4. o \in Runtime!Objects /\ o.wrk = cache.wrk /\ o.node = cache.node /\ o.btc = cache.btc
    BY <1>2, NothingType DEF Runtime!Objects
  <1> HIDE DEF r, o
  <1>5. "sessions" \in Runtime!Steps BY DEF Runtime!Steps
  <1>6. pass' \in Runtime!PassState BY <1>1, <1>2, <1>3, <1>4, <1>5 DEF Runtime!PassState
  <1>7. Runtime!Only BY DEF Runtime!Start
  <1>8. Runtime!TypeOK' BY <1>6, <1>7, OnlyType DEF RuntimeInv
  <1>9. Copied(pass'.got) BY <1>1, <1>4, Copies DEF Copied
  <1>10. EvidenceFacts' BY <1>1 DEF EvidenceFacts
  <1>11. PassFacts'
    <2>1. pass'.pc = "sessions" /\ pass'.base = root /\ pass'.root = r BY <1>1
    <2>2. UNCHANGED <<srv, root, clock, live>> BY <1>7 DEF Runtime!Only, Runtime!world
    <2>3. Fits(pass.base, pass.root, held)'
      BY <2>1, <2>2, <1>3 DEF Fits, RuntimeInv, SessionFacts
    <2> QED BY <2>1, <2>3, <1>3 DEF PassFacts, Deciding
  <1> QED BY <1>7, <1>8, <1>9, <1>10, <1>11, PassKept

LEMMA FinishRoot ==
  ASSUME RuntimeInv, Runtime!Only, pass.pc # "idle", NEW r \in Runtime!Root, Runtime!Finish(r),
         Fits(pass.base, r, held)
  PROVE  RuntimeInv'
  <1>1. Runtime!TypeOK' BY FinishType, OnlyType DEF RuntimeInv
  <1> QED BY <1>1, FinishFits

\* A pass goes on with what it may write.
LEMMA FitsNow ==
  ASSUME Runtime!Only, pass'.base = pass.base, Fits(pass.base, pass'.root, held')
  PROVE  Fits(pass.base, pass.root, held)'
  BY DEF Runtime!Only, Runtime!world, Fits, PauseSeen, EndSeen, ControlEnded, NodeEnded

LEMMA GoOn ==
  ASSUME RuntimeInv, Runtime!Only, pass.pc # "idle", pass' \in Runtime!PassState, pass'.pc # "idle",
         pass'.base = pass.base,
         Fits(pass.base, pass'.root, held), EvidenceFacts', Copied(pass'.got),
         pass'.pc # "sessions", pass'.pc \notin {"pause", "write"} => pass'.root.index = pass'.base.index,
         pass'.pc \in Deciding \cup {"pause"} => ~pass'.root.failed,
         pass'.pc = "pause" => pass'.root.op = "Paused"
  PROVE  RuntimeInv'
  <1>1. Runtime!TypeOK' BY OnlyType DEF RuntimeInv
  <1>2. Fits(pass.base, pass'.root, held') BY HeldGrows, FitsGrow DEF Runtime!Only
  <1>3. PassFacts' BY <1>2, FitsNow DEF PassFacts
  <1> QED BY <1>1, <1>3, PassKept

LEMMA SessionsStep ==
  ASSUME RuntimeInv, Runtime!ProjectWorkers PROVE RuntimeInv'
  <1> DEFINE q == pass.root
             r == IF Runtime!session(q, cache.wrk.pod) # q THEN Runtime!session(q, srv.wrk.pod) ELSE q
  <1>1. /\ pass.pc = "sessions" /\ Runtime!Only /\ pass' = [pass EXCEPT !.pc = "lifecycle", !.root = r]
    BY DEF Runtime!ProjectWorkers
  <1>2. /\ pass \in Runtime!PassState /\ pass.base \in Runtime!Root /\ q \in Runtime!Root
        /\ pass.got \in Runtime!Objects
        /\ Fits(pass.base, q, held) /\ q.index = pass.base.index /\ q.phase = pass.base.phase
    BY <1>1, RootFacts DEF RuntimeInv, PassFacts
  <1>3. r \in Runtime!Root BY <1>2, RootWith
  <1>4. "lifecycle" \in Runtime!Steps BY DEF Runtime!Steps
  <1>5. /\ pass' \in Runtime!PassState /\ pass'.pc = "lifecycle" /\ pass'.base = pass.base /\ pass'.root = r
        /\ pass'.got = pass.got
    BY <1>1, <1>2, <1>3, <1>4, PassWith DEF Runtime!PassState
  <1>6. srv.wrk.pod \in {"none", "live", "dead", "lost"}
    BY DEF RuntimeInv, Runtime!TypeOK, Runtime!Objects, Runtime!Wrk
  <1>7. Fits(pass.base, r, held) /\ r.index = q.index
    <2>1. CASE r = q BY <1>2, <2>1
    <2>2. CASE r = [q EXCEPT !.wrk = "bound"] /\ srv.wrk.pod = "live"
      BY <1>2, <2>2 DEF Fits, EndSeen, Runtime!Root
    <2>3. CASE r = [q EXCEPT !.wrk = "ended"] /\ srv.wrk.pod = "dead" /\ q.op = "Stopped" /\ q.wrk = "bound"
      BY <1>2, <2>3 DEF Fits, EndSeen, Runtime!Root
    <2>4. CASE r = Runtime!Latched(q) /\ q.wrk = "bound" /\ srv.wrk.pod # "live"
      <3>1. srv.wrk.pod \in {"dead", "lost"} BY <1>2, <1>6, <2>4 DEF Fits
      <3> HIDE DEF r
      <3>2. r.failed /\ r.phase = "Failed" /\ r.index = q.index /\ r.gen = q.gen /\ r.op = q.op /\ r.wrk = q.wrk
            /\ r.deleting = q.deleting /\ r.genesis = q.genesis
        BY <1>2, <2>4 DEF Runtime!Latched, Runtime!Root
      <3> QED BY <1>2, <3>1, <3>2 DEF Fits
    <2> QED BY <2>1, <2>2, <2>3, <2>4 DEF Runtime!session
  <1> HIDE DEF r
  <1>8. EvidenceFacts' BY <1>5 DEF EvidenceFacts
  <1>9. Copied(pass'.got) BY <1>5, Copies
  <1> QED BY <1>1, <1>2, <1>5, <1>7, <1>8, <1>9, GoOn DEF Deciding

LEMMA EndSteps ==
  ASSUME RuntimeInv, Runtime!ProjectDeletion \/ Runtime!ProjectFailure \/ Runtime!ProjectUncaptured
  PROVE  RuntimeInv'
  <1>1. /\ pass.pc = "lifecycle" /\ Runtime!Only /\ pass.root \in Runtime!Root
        /\ Fits(pass.base, pass.root, held)
    BY RootFacts DEF Runtime!ProjectDeletion, Runtime!ProjectFailure, Runtime!ProjectUncaptured, Runtime!Going
  <1>2. CASE Runtime!Finish(pass.root) BY <1>1, <1>2, FinishRoot
  <1>3. ASSUME NEW v \in {"Destroying", "Failed", "Uninitialized"},
            Runtime!Finish([pass.root EXCEPT !.phase = v]),
               v = "Failed" => pass.root.failed
        PROVE  RuntimeInv'
    <2>1. v \in Runtime!Phases /\ v \notin {"Paused", "Stopped"} BY DEF Runtime!Phases
    <2> QED BY <1>1, <1>3, <2>1, FitsPhase, RootWith, FinishRoot
  <1>4. [pass.root EXCEPT !.phase = @] = pass.root BY <1>1 DEF Runtime!Root
  <1> QED BY <1>2, <1>3, <1>4 DEF Runtime!ProjectDeletion, Runtime!ProjectFailure, Runtime!ProjectUncaptured

LEMMA StopStep ==
  ASSUME RuntimeInv, Runtime!ProjectStop PROVE RuntimeInv'
  <1> DEFINE q == pass.root
             v == IF Runtime!terminated(q, pass.got) THEN "Stopped" ELSE "Stopping"
  <1>1. pass.pc = "lifecycle" /\ Runtime!Only /\ Runtime!Finish([q EXCEPT !.phase = v])
    BY DEF Runtime!ProjectStop
  <1>2. q \in Runtime!Root /\ Fits(pass.base, q, held) BY <1>1, RootFacts
  <1>3. [q EXCEPT !.phase = v] \in Runtime!Root BY <1>2, RootWith DEF Runtime!Phases
  <1>4. Fits(pass.base, [q EXCEPT !.phase = v], held)
    <2>1. CASE Runtime!terminated(q, pass.got)
      <3>1. EndSeen(q) BY <2>1, Copies DEF Runtime!terminated, Copied, EndSeen
      <3> QED BY <1>2, <2>1, <3>1 DEF Fits, EndSeen, Runtime!Root
    <2>2. CASE ~Runtime!terminated(q, pass.got)
      BY <1>2, <2>2, FitsPhase DEF Runtime!Phases
    <2> QED BY <2>1, <2>2
  <1> HIDE DEF v
  <1> QED BY <1>1, <1>3, <1>4, FinishRoot

LEMMA RecordsStep ==
  ASSUME RuntimeInv, Runtime!ProjectRecords PROVE RuntimeInv'
  <1> DEFINE v == IF pass.root.op = "Running" THEN "Initializing"
                  ELSE IF Runtime!activated(pass.got) THEN "Pausing" ELSE "Uninitialized"
             r == [pass.root EXCEPT !.phase = v]
  <1>1. /\ pass.pc = "lifecycle" /\ Runtime!Only /\ ~pass.root.failed
        /\ pass' = [pass EXCEPT !.pc = "preparation", !.root.phase = v]
    BY DEF Runtime!ProjectRecords, Runtime!Going
  <1>2. /\ pass \in Runtime!PassState /\ pass.root \in Runtime!Root /\ Fits(pass.base, pass.root, held)
        /\ pass.root.index = pass.base.index
    BY <1>1, RootFacts DEF RuntimeInv, PassFacts
  <1>3. v \in Runtime!Phases \ {"Paused", "Stopped", "Failed"} BY DEF Runtime!Phases
  <1> HIDE DEF v
  <1>4. r \in Runtime!Root /\ Fits(pass.base, r, held) /\ r.index = pass.root.index
        /\ r.failed = pass.root.failed
    BY <1>2, <1>3, RootWith, FitsPhase DEF Runtime!Root
  <1>5. pass' = [pass EXCEPT !.pc = "preparation", !.root = r] BY <1>1, <1>2 DEF Runtime!PassState
  <1> HIDE DEF r
  <1>6. /\ pass' \in Runtime!PassState /\ pass'.pc = "preparation" /\ pass'.base = pass.base /\ pass'.root = r
        /\ pass'.got = pass.got
    <2>1. "preparation" \in Runtime!Steps BY DEF Runtime!Steps
    <2> QED BY <1>2, <1>4, <1>5, <2>1, PassWith DEF Runtime!PassState
  <1>7. EvidenceFacts' BY <1>6 DEF EvidenceFacts
  <1>8. Copied(pass'.got) BY <1>6, Copies
  <1> QED BY <1>1, <1>2, <1>4, <1>6, <1>7, <1>8, GoOn

LEMMA PreparationStep ==
  ASSUME RuntimeInv, Runtime!ProjectPreparation PROVE RuntimeInv'
  <1> DEFINE rec == IF cache.rec.failed THEN srv.rec ELSE cache.rec
  <1>1. /\ pass.pc = "preparation" /\ Runtime!Only
        /\ IF rec.failed THEN Runtime!Finish(Runtime!Latched(pass.root))
           ELSE pass' = [pass EXCEPT !.pc = "gates", !.got.rec = rec]
    BY DEF Runtime!ProjectPreparation
  <1>2. /\ pass \in Runtime!PassState /\ pass.root \in Runtime!Root /\ Fits(pass.base, pass.root, held)
        /\ pass.got \in Runtime!Objects
        /\ pass.root.index = pass.base.index /\ ~pass.root.failed
    BY <1>1, RootFacts DEF RuntimeInv, PassFacts, Deciding
  <1>3. rec \in Runtime!Rec BY DEF RuntimeInv, Runtime!TypeOK, Runtime!Objects
  <1>4. CASE rec.failed
    <2>1. srv.rec.failed BY <1>4
    <2>2. Runtime!Latched(pass.root) \in Runtime!Root BY <1>2, RootWith
    <2>3. Fits(pass.base, Runtime!Latched(pass.root), held)
      BY <1>2, <2>1 DEF Fits, Runtime!Latched, Runtime!Root
    <2> QED BY <1>1, <1>4, <2>2, <2>3, FinishRoot
  <1>5. CASE ~rec.failed
    <2> DEFINE o == [pass.got EXCEPT !.rec = rec]
    <2>1. pass' = [pass EXCEPT !.pc = "gates", !.got = o] BY <1>1, <1>2, <1>5 DEF Runtime!PassState
    <2> HIDE DEF rec
    <2>2. o \in Runtime!Objects /\ o.btc = pass.got.btc /\ o.wrk = pass.got.wrk /\ o.node = pass.got.node
      BY <1>2, <1>3, ObjectWith
    <2> HIDE DEF o
    <2>3. /\ pass' \in Runtime!PassState /\ pass'.pc = "gates" /\ pass'.base = pass.base
          /\ pass'.root = pass.root
          /\ pass'.got = o
      <3>1. "gates" \in Runtime!Steps BY DEF Runtime!Steps
      <3> QED BY <1>2, <2>1, <2>2, <3>1, PassWith DEF Runtime!PassState
    <2>4. EvidenceFacts' BY <2>3 DEF EvidenceFacts
    <2>5. Copied(pass'.got) BY <2>2, <2>3, Copies DEF Copied
    <2> QED BY <1>1, <1>2, <2>3, <2>4, <2>5, GoOn
  <1> QED BY <1>4, <1>5

-----------------------------------------------------------------------------
(* The gates *)

\* What projectGates makes of a root.
LEMMA GatesFacts ==
  ASSUME NEW r \in Runtime!Root, NEW o \in Runtime!Objects, clock \in Nat, r.phase = "Failed" => r.failed
  PROVE  LET p == Runtime!projectGates(r, o) IN
         /\ p.gen = r.gen /\ p.op = r.op /\ p.deleting = r.deleting /\ p.genesis = r.genesis /\ p.wrk = r.wrk
         /\ p.phase \in {r.phase, "Failed"} /\ (p.phase = "Failed" => p.failed)
         /\ p.index # r.index => p.index = r.index + 1 /\ r.index # Runtime!NGates /\ Runtime!complete(r, o)
         /\ p.failed /\ ~r.failed =>
              \/ r.index # Runtime!NGates /\ Runtime!exceeded(r, o)
              \/ p.first # 0 /\ clock >= p.first + Deadline
  <1> DEFINE p == Runtime!projectGates(r, o)
             s == Runtime!initializeGates(r)
             f == Runtime!firstCeiling(r, o)
  <1>1. s = [r EXCEPT !.seeded = TRUE] BY DEF Runtime!initializeGates
  <1>2. CASE r.index = Runtime!NGates
    <2>1. p = s BY <1>2 DEF Runtime!projectGates
    <2> QED BY <1>1, <2>1 DEF Runtime!Root
  <1>3. CASE r.index # Runtime!NGates /\ (Runtime!exceeded(r, o) \/ Runtime!expired(r, o))
    <2>1. p = Runtime!Latched([s EXCEPT !.first = f]) BY <1>3 DEF Runtime!projectGates
    <2>2. f \in Nat BY FirstType
    <2>3. Runtime!expired(r, o) => f # 0 /\ clock >= f + Deadline BY DEF Runtime!expired
    <2> HIDE DEF f
    <2>4. /\ p.gen = r.gen /\ p.op = r.op /\ p.deleting = r.deleting /\ p.genesis = r.genesis /\ p.wrk = r.wrk
          /\ p.phase = "Failed" /\ p.failed /\ p.index = r.index /\ p.first = f
      BY <1>1, <2>1, <2>2 DEF Runtime!Root, Runtime!Latched
    <2> QED BY <1>3, <2>3, <2>4
  <1>4. CASE r.index # Runtime!NGates /\ ~(Runtime!exceeded(r, o) \/ Runtime!expired(r, o))
            /\ Runtime!complete(r, o)
    <2>1. p = [s EXCEPT !.index = @ + 1, !.first = 0] BY <1>4 DEF Runtime!projectGates
    <2> QED BY <1>1, <1>4, <2>1 DEF Runtime!Root
  <1>5. CASE r.index # Runtime!NGates /\ ~(Runtime!exceeded(r, o) \/ Runtime!expired(r, o))
            /\ ~Runtime!complete(r, o)
    <2>1. p = [s EXCEPT !.first = f] BY <1>5 DEF Runtime!projectGates
    <2> HIDE DEF f
    <2> QED BY <1>1, <2>1 DEF Runtime!Root
  <1> QED BY <1>2, <1>3, <1>4, <1>5

\* Each fact depends on one object, and on the worker's identity.
LEMMA EvidenceSame ==
  ASSUME NEW r, NEW q, r.wrk = q.wrk, NEW o, NEW p, NEW g
  PROVE  /\ o.rec = p.rec => ("prepared" \in Runtime!evidence(r, o, g)
                               => "prepared" \in Runtime!evidence(q, p, g))
         /\ o.wrk = p.wrk => \A f \in {"pox4", "contracts", "pox5"} :
                               f \in Runtime!evidence(r, o, g) => f \in Runtime!evidence(q, p, g)
         /\ o.node = p.node => ("set" \in Runtime!evidence(r, o, g) => "set" \in Runtime!evidence(q, p, g))
         /\ o.exe = p.exe /\ o.btc = p.btc => \A f \in {"height", "over"} :
                               f \in Runtime!evidence(r, o, g) => f \in Runtime!evidence(q, p, g)
  BY
  DEF Runtime!evidence, Runtime!pox4CohortSatisfied, Runtime!pox5CohortSatisfied,
      Runtime!contractCohortSatisfied, Runtime!requiredWorker,
         Runtime!preparedCohortSatisfied, Runtime!heightKnown

LEMMA FoundNow ==
  ASSUME UNCHANGED clock
  PROVE  \A f : found(f)' <=> f \in Runtime!evidence(pass'.root, pass'.got, pass'.base.index + 1)
  BY
  DEF found, Runtime!evidence, Runtime!pox4CohortSatisfied, Runtime!pox5CohortSatisfied,
      Runtime!contractCohortSatisfied, Runtime!requiredWorker,
         Runtime!preparedCohortSatisfied, Runtime!heightKnown, Runtime!preparedInTime, Runtime!fresh

LEMMA Needed ==
  ASSUME NEW g \in 1 .. Runtime!NGates
  PROVE  Runtime!needs(g) \subseteq {"prepared", "pox4", "contracts", "pox5", "set", "height"}
  <1>1. g \in {1, 2, 3, 4, 5, 6} BY DEF Runtime!NGates
  <1>2. CASE g = 1 BY <1>2 DEF Runtime!needs, Runtime!Names
  <1>3. CASE g = 2 BY <1>3 DEF Runtime!needs, Runtime!Names
  <1>4. CASE g = 3 BY <1>4 DEF Runtime!needs, Runtime!Names
  <1>5. CASE g = 4 BY <1>5 DEF Runtime!needs, Runtime!Names
  <1>6. CASE g = 5 BY <1>6 DEF Runtime!needs, Runtime!Names
  <1>7. CASE g = 6 BY <1>7 DEF Runtime!needs, Runtime!Names
  <1> QED BY <1>1, <1>2, <1>3, <1>4, <1>5, <1>6, <1>7

\* A pass leaves the gates with r.
LEMMA AfterStep ==
  ASSUME RuntimeInv, Runtime!Only, pass.pc # "idle", NEW r \in Runtime!Root, Runtime!AfterGates(r),
         pass'.pc # "idle" => Fits(pass.base, r, held')
  PROVE  RuntimeInv'
  <1>1. pass \in Runtime!PassState /\ pass.got \in Runtime!Objects BY RootFacts
  <1>2. CASE Runtime!Finish(r)
    <2>1. Runtime!TypeOK' BY <1>2, FinishType, OnlyType DEF RuntimeInv
    <2> QED BY <1>2, <2>1, RuntimeFinishStep
  <1>3. CASE ~r.failed /\ r.op = "Paused"
             /\ pass' = [pass EXCEPT !.pc = "pause", !.root = r, !.got.rec = Runtime!NoObjects.rec,
                                     !.got.node = Runtime!NoObjects.node]
    <2> DEFINE o == [pass.got EXCEPT !.rec = Runtime!NoObjects.rec, !.node = Runtime!NoObjects.node]
    <2>1. /\ o \in Runtime!Objects /\ o.btc = pass.got.btc /\ o.wrk = pass.got.wrk
          /\ o.node = Runtime!NoObjects.node
      BY <1>1, NothingType DEF Runtime!Objects
    <2>2. pass' = [pass EXCEPT !.pc = "pause", !.root = r, !.got = o] BY <1>1, <1>3 DEF Runtime!PassState
    <2> HIDE DEF o
    <2>3. "pause" \in Runtime!Steps BY DEF Runtime!Steps
    <2>4. /\ pass' \in Runtime!PassState /\ pass'.pc = "pause" /\ pass'.base = pass.base /\ pass'.root = r
          /\ pass'.got = o
      BY <1>1, <2>1, <2>2, <2>3 DEF Runtime!PassState
    <2>5. Runtime!TypeOK' BY <2>4, OnlyType DEF RuntimeInv
    <2>6. EvidenceFacts' BY <2>4 DEF EvidenceFacts
    <2>7. Copied(pass'.got) BY <2>1, <2>4, Copies DEF Copied
    <2>8. PassFacts' BY <1>3, <2>4, FitsNow DEF PassFacts, Deciding
    <2> QED BY <2>5, <2>6, <2>7, <2>8, PassKept
  <1> QED BY <1>2, <1>3 DEF Runtime!AfterGates

LEMMA TryStep ==
  ASSUME RuntimeInv, Runtime!TryGates PROVE RuntimeInv'
  <1>1. /\ pass.pc = "gates" /\ Runtime!Only
        /\ Runtime!AfterGates(pass.root) \/ pass' = [pass EXCEPT !.pc = "fresh wrk"]
    BY DEF Runtime!TryGates
  <1>2. /\ pass \in Runtime!PassState /\ pass.root \in Runtime!Root /\ Fits(pass.base, pass.root, held)
        /\ pass.root.index = pass.base.index /\ ~pass.root.failed
    BY <1>1, RootFacts DEF RuntimeInv, PassFacts, Deciding
  <1>3. CASE Runtime!AfterGates(pass.root)
    <2>1. pass'.pc # "idle" => Fits(pass.base, pass.root, held')
      BY <1>1, <1>2, HeldGrows, FitsGrow DEF Runtime!Only
    <2> QED BY <1>1, <1>2, <1>3, <2>1, AfterStep
  <1>4. CASE pass' = [pass EXCEPT !.pc = "fresh wrk"]
    <2>1. "fresh wrk" \in Runtime!Steps BY DEF Runtime!Steps
    <2>2. /\ pass' \in Runtime!PassState /\ pass'.pc = "fresh wrk" /\ pass'.base = pass.base
          /\ pass'.root = pass.root
          /\ pass'.got = pass.got
      BY <1>2, <1>4, <2>1 DEF Runtime!PassState
    <2>3. EvidenceFacts' BY <2>2 DEF EvidenceFacts
    <2>4. Copied(pass'.got) BY <2>2, Copies
    <2> QED BY <1>1, <1>2, <2>2, <2>3, <2>4, GoOn
  <1> QED BY <1>1, <1>3, <1>4

LEMMA ReadWorkerStep ==
  ASSUME RuntimeInv, Runtime!ReadWorker PROVE RuntimeInv'
  <1> DEFINE o == [pass.got EXCEPT !.rec = srv.rec, !.wrk = srv.wrk]
  <1>1. /\ pass.pc = "fresh wrk" /\ Runtime!Only
        /\ pass' = [pass EXCEPT !.pc = "fresh node", !.got.rec = srv.rec, !.got.wrk = srv.wrk]
    BY DEF Runtime!ReadWorker
  <1>2. /\ pass \in Runtime!PassState /\ pass.root \in Runtime!Root /\ Fits(pass.base, pass.root, held)
        /\ pass.got \in Runtime!Objects
        /\ pass.root.index = pass.base.index /\ ~pass.root.failed
    BY <1>1, RootFacts DEF RuntimeInv, PassFacts, Deciding
  <1>3. srv \in Runtime!Objects BY DEF RuntimeInv, Runtime!TypeOK
  <1>4. o \in Runtime!Objects /\ o.rec = srv.rec /\ o.wrk = srv.wrk /\ o.btc = pass.got.btc
            /\ o.node = pass.got.node
    BY <1>2, <1>3 DEF Runtime!Objects
  <1>5. pass' = [pass EXCEPT !.pc = "fresh node", !.got = o] BY <1>1, <1>2 DEF Runtime!PassState
  <1> HIDE DEF o
  <1>6. /\ pass' \in Runtime!PassState /\ pass'.pc = "fresh node" /\ pass'.base = pass.base
        /\ pass'.root = pass.root
        /\ pass'.got = o
    <2>1. "fresh node" \in Runtime!Steps BY DEF Runtime!Steps
    <2> QED BY <1>2, <1>4, <1>5, <2>1 DEF Runtime!PassState
  <1>7. Copied(pass'.got) BY <1>4, <1>6, Copies DEF Copied
  <1>8. EvidenceFacts'
    <2> DEFINE b == [pass'.base EXCEPT !.wrk = pass'.root.wrk]
               g == pass'.base.index + 1
    <2>1. UNCHANGED <<clock, srv>> BY <1>1 DEF Runtime!Only, Runtime!world
    <2> SUFFICES ASSUME pass'.base.index # Runtime!NGates
                 PROVE  \A f \in {"prepared", "pox4", "contracts", "pox5"} : found(f)' => f \in held'
      BY <1>6 DEF EvidenceFacts
    <2>2. Runtime!evidence(b, srv', g) \subseteq held' BY <1>1, <1>6, HeldGrows DEF Runtime!Only
    <2>3. b.wrk = pass'.root.wrk BY <1>2, <1>6, RootFacts DEF Runtime!Root
    <2> HIDE DEF b, g
    <2>4. \A f \in {"prepared", "pox4", "contracts", "pox5"} :
             f \in Runtime!evidence(pass'.root, pass'.got, g) => f \in Runtime!evidence(b, srv', g)
      <3>1. pass'.got.rec = srv'.rec /\ pass'.got.wrk = srv'.wrk BY <1>4, <1>6, <2>1
      <3> QED BY <2>3, <3>1, EvidenceSame
    <2> QED BY <2>1, <2>2, <2>4, FoundNow DEF g
  <1> QED BY <1>1, <1>2, <1>6, <1>7, <1>8, GoOn

LEMMA ReadNodeStep ==
  ASSUME RuntimeInv, Runtime!ReadNode PROVE RuntimeInv'
  <1> DEFINE n == IF pass.got.node.known THEN srv.node ELSE pass.got.node
             o == [pass.got EXCEPT !.node = n]
  <1>1. /\ pass.pc = "fresh node" /\ Runtime!Only
        /\ pass' = [pass EXCEPT !.pc = "confirm", !.got.node = n]
    BY DEF Runtime!ReadNode
  <1>2. /\ pass \in Runtime!PassState /\ pass.root \in Runtime!Root /\ Fits(pass.base, pass.root, held)
        /\ pass.got \in Runtime!Objects
        /\ pass.root.index = pass.base.index /\ ~pass.root.failed
    BY <1>1, RootFacts DEF RuntimeInv, PassFacts, Deciding
  <1>3. srv \in Runtime!Objects BY DEF RuntimeInv, Runtime!TypeOK
  <1>4. n \in Runtime!Node BY <1>2, <1>3 DEF Runtime!Objects
  <1>5. n = srv.node \/ (n = pass.got.node /\ ~n.known) OBVIOUS
  <1>6. pass' = [pass EXCEPT !.pc = "confirm", !.got = o] BY <1>1, <1>2 DEF Runtime!PassState
  <1> HIDE DEF n
  <1>7. o \in Runtime!Objects /\ o.rec = pass.got.rec /\ o.wrk = pass.got.wrk /\ o.btc = pass.got.btc
            /\ o.node = n
    BY <1>2, <1>4, ObjectWith
  <1> HIDE DEF o
  <1>8. /\ pass' \in Runtime!PassState /\ pass'.pc = "confirm" /\ pass'.base = pass.base
        /\ pass'.root = pass.root
        /\ pass'.got = o
    <2>1. "confirm" \in Runtime!Steps BY DEF Runtime!Steps
    <2> QED BY <1>2, <1>6, <1>7, <2>1 DEF Runtime!PassState
  <1>9. Copied(pass'.got) BY <1>5, <1>7, <1>8, Copies DEF Copied
  <1>10. EvidenceFacts'
    <2> DEFINE b == [pass'.base EXCEPT !.wrk = pass'.root.wrk]
               g == pass'.base.index + 1
    <2>1. UNCHANGED <<clock, srv>> BY <1>1 DEF Runtime!Only, Runtime!world
    <2> SUFFICES ASSUME pass'.base.index # Runtime!NGates
                 PROVE  /\ \A f \in {"prepared", "pox4", "contracts", "pox5"} : found(f)' => f \in held'
                        /\ found("set")' => "set" \in held'
      BY <1>8 DEF EvidenceFacts
    <2>2. Runtime!evidence(b, srv', g) \subseteq held' /\ held \subseteq held'
      BY <1>1, <1>8, HeldGrows DEF Runtime!Only
    <2>3. b.wrk = pass'.root.wrk BY <1>2, <1>8, RootFacts DEF Runtime!Root
    <2>4. \A f \in {"prepared", "pox4", "contracts", "pox5"} :
             f \in Runtime!evidence(pass'.root, pass'.got, g)
             => f \in Runtime!evidence(pass.root, pass.got, pass.base.index + 1)
      BY <1>7, <1>8, EvidenceSame
    <2>5. \A f \in {"prepared", "pox4", "contracts", "pox5"} : found(f) => f \in held
      BY <1>1, <1>8 DEF RuntimeInv, EvidenceFacts
    <2>6. \A f \in {"prepared", "pox4", "contracts", "pox5"} : found(f)' => f \in held'
      BY <2>1, <2>2, <2>4, <2>5, FoundNow DEF found
    <2>7. found("set")' => "set" \in held'
      <3>1. CASE n = srv.node
        <4> HIDE DEF b, g
        <4>1. pass'.got.node = srv'.node BY <1>7, <1>8, <2>1, <3>1
        <4>2. "set" \in Runtime!evidence(pass'.root, pass'.got, g) => "set" \in Runtime!evidence(b, srv', g)
          BY <2>3, <4>1, EvidenceSame
        <4> QED BY <2>1, <2>2, <4>2, FoundNow DEF g
      <3>2. CASE ~n.known
        <4>1. "set" \notin Runtime!evidence(pass'.root, pass'.got, g)
          BY <1>7, <1>8, <3>2 DEF Runtime!evidence, Runtime!preparedCohortSatisfied
        <4> QED BY <2>1, <4>1, FoundNow
      <3> QED BY <1>5, <3>1, <3>2
    <2> QED BY <2>6, <2>7
  <1> QED BY <1>1, <1>2, <1>8, <1>9, <1>10, GoOn

LEMMA AfterFacts ==
  ASSUME pass \in Runtime!PassState, NEW r, Runtime!AfterGates(r), pass'.pc # "idle"
  PROVE  pass'.base = pass.base /\ pass'.root = r
  <1>1. CASE Runtime!Finish(r)
    <2>1. r # pass.base => pass'.base = pass.base /\ pass'.root = r BY <1>1 DEF Runtime!Finish, Runtime!Idle
    <2>2. r = pass.base => pass'.pc = "idle" BY <1>1, IdleType DEF Runtime!Finish
    <2> QED BY <2>1, <2>2
  <1>2. CASE pass' = [pass EXCEPT !.pc = "pause", !.root = r, !.got.rec = Runtime!NoObjects.rec,
                                  !.got.node = Runtime!NoObjects.node]
    BY <1>2 DEF Runtime!PassState
  <1> QED BY <1>1, <1>2 DEF Runtime!AfterGates

LEMMA ConfirmStep ==
  ASSUME RuntimeInv, Runtime!ConfirmGates PROVE RuntimeInv'
  <1> DEFINE q == pass.root
             o == [pass.got EXCEPT !.exe = srv.exe, !.btc = srv.btc]
             r == Runtime!projectGates(q, o)
             g == q.index + 1
  <1>1. pass.pc = "confirm" /\ Runtime!Only /\ Runtime!AfterGates(r) BY DEF Runtime!ConfirmGates
  <1>2. /\ pass \in Runtime!PassState /\ pass.base \in Runtime!Root /\ q \in Runtime!Root
        /\ Fits(pass.base, q, held)
        /\ pass.got \in Runtime!Objects /\ q.index = pass.base.index /\ ~q.failed
    BY <1>1, RootFacts DEF RuntimeInv, PassFacts, Deciding
  <1>3. srv \in Runtime!Objects /\ clock \in Nat BY DEF RuntimeInv, Runtime!TypeOK
  <1>4. /\ o \in Runtime!Objects /\ o.exe = srv.exe /\ o.btc = srv.btc
        /\ o.rec = pass.got.rec /\ o.wrk = pass.got.wrk /\ o.node = pass.got.node
    BY <1>2, <1>3 DEF Runtime!Objects
  <1> HIDE DEF o
  <1>5. r \in Runtime!Root BY <1>2, <1>3, <1>4, GatesType
  <1>6. /\ r.gen = q.gen /\ r.op = q.op /\ r.deleting = q.deleting /\ r.genesis = q.genesis /\ r.wrk = q.wrk
        /\ r.phase \in {q.phase, "Failed"} /\ (r.phase = "Failed" => r.failed)
        /\ r.index # q.index => r.index = q.index + 1 /\ q.index # Runtime!NGates /\ Runtime!complete(q, o)
        /\ r.failed /\ ~q.failed =>
             \/ q.index # Runtime!NGates /\ Runtime!exceeded(q, o)
             \/ r.first # 0 /\ clock >= r.first + Deadline
    BY <1>2, <1>3, <1>4, GatesFacts DEF Fits
  <1> HIDE DEF r
  <1>7. ASSUME pass'.pc # "idle" PROVE Fits(pass.base, r, held')
    <2> DEFINE b == [pass'.base EXCEPT !.wrk = pass'.root.wrk]
    <2>1. UNCHANGED <<clock, srv>> BY <1>1 DEF Runtime!Only, Runtime!world
    <2>2. pass'.base = pass.base /\ pass'.root = r BY <1>1, <1>2, <1>7, AfterFacts
    <2>3. b.wrk = q.wrk BY <1>2, <1>6, <2>2 DEF Runtime!Root
    <2> HIDE DEF b
    <2>4. held \subseteq held' /\ (q.index # Runtime!NGates => Runtime!evidence(b, srv', g) \subseteq held')
      BY <1>1, <1>2, <1>7, <2>2, HeldGrows DEF Runtime!Only, b
    <2>5. ASSUME q.index # Runtime!NGates, NEW f \in Facts, f \in Runtime!evidence(q, o, g) PROVE f \in held'
      <3>1. CASE f \in {"prepared", "pox4", "contracts", "pox5", "set"}
        <4>1. f \in Runtime!evidence(q, pass.got, g) BY <1>4, <2>5, <3>1, EvidenceSame
        <4>2. found(f) BY <1>2, <4>1 DEF found
        <4> QED BY <1>1, <1>2, <2>4, <2>5, <3>1, <4>2 DEF RuntimeInv, EvidenceFacts
      <3>2. CASE f \in {"height", "over"}
        <4>1. o.exe = srv'.exe /\ o.btc = srv'.btc BY <1>4, <2>1
        <4>2. f \in Runtime!evidence(b, srv', g) BY <2>3, <2>5, <3>2, <4>1, EvidenceSame
        <4> QED BY <2>4, <2>5, <4>2
      <3> QED BY <2>5, <3>1, <3>2 DEF Facts
    <2>6. r.index # q.index => r.index = q.index + 1 /\ Runtime!needs(r.index) \subseteq held'
      <3> SUFFICES ASSUME r.index # q.index
                   PROVE  r.index = q.index + 1 /\ Runtime!needs(r.index) \subseteq held'
        OBVIOUS
      <3>1. r.index = q.index + 1 /\ q.index # Runtime!NGates /\ Runtime!complete(q, o) BY <1>6
      <3>2. q.index \in 0 .. Runtime!NGates BY <1>2 DEF Runtime!Root
      <3>3. g \in 1 .. Runtime!NGates BY <3>1, <3>2 DEF Runtime!NGates
      <3>4. Runtime!needs(g) \subseteq Facts BY <3>3, Needed DEF Facts
      <3>5. Runtime!needs(g) \subseteq Runtime!evidence(q, o, g) BY <3>1 DEF Runtime!complete, Runtime!Gate
      <3> QED BY <2>5, <3>1, <3>4, <3>5
    <2>7. q.index # Runtime!NGates /\ Runtime!exceeded(q, o) => "over" \in held'
      BY <2>5 DEF Runtime!exceeded, Runtime!Gate, Facts
    <2> QED BY <1>2, <1>6, <2>6, <2>7 DEF Fits, EndSeen
  <1> QED BY <1>1, <1>5, <1>7, AfterStep

LEMMA PauseStep ==
  ASSUME RuntimeInv, Runtime!ProjectPause PROVE RuntimeInv'
  <1> DEFINE q == pass.root
  <1>1. /\ pass.pc = "pause" /\ Runtime!Only
        /\ Runtime!Finish([q EXCEPT !.phase = IF Runtime!bitcoinPaused(cache.exe, q)
                                              /\ Runtime!workersPaused(q, pass.got.wrk)
                                      THEN "Paused" ELSE @])
    BY DEF Runtime!ProjectPause
  <1>2. /\ pass.base \in Runtime!Root /\ q \in Runtime!Root /\ Fits(pass.base, q, held) /\ q.op = "Paused"
        /\ ~q.failed
    BY <1>1, RootFacts DEF RuntimeInv, PassFacts, Deciding
  <1>3. CASE Runtime!bitcoinPaused(cache.exe, q) /\ Runtime!workersPaused(q, pass.got.wrk)
    <2> DEFINE r == [q EXCEPT !.phase = "Paused"]
    <2>1. Runtime!Finish(r) BY <1>1, <1>3
    <2>2. r \in Runtime!Root BY <1>2, RootWith DEF Runtime!Phases
    <2>3. srv.exe.ack \in Nat /\ srv.wrk.ack \in Nat /\ cache.exe.ack \in Nat /\ pass.got.wrk.ack \in Nat
      BY RootFacts DEF RuntimeInv, Runtime!TypeOK, Runtime!Objects, Runtime!Exe, Runtime!Wrk
    <2>4. PauseSeen(pass.base)
      <3>1. pass.base.op = "Paused" /\ pass.base.gen = q.gen BY <1>2 DEF Fits
      <3>2. srv.exe.ack >= q.gen BY <1>3, <2>3 DEF Runtime!bitcoinPaused, RuntimeInv, AckFacts
      <3>3. pass.base.wrk = "bound" => srv.wrk.ack >= q.gen
        BY <1>2, <1>3, <2>3 DEF Runtime!workersPaused, RuntimeInv, AckFacts, Fits
      <3> QED BY <3>1, <3>2, <3>3 DEF PauseSeen
    <2>5. Fits(pass.base, r, held) BY <1>2, <2>4 DEF Fits, Runtime!Root
    <2> HIDE DEF r
    <2> QED BY <1>1, <2>1, <2>2, <2>5, FinishRoot
  <1>4. CASE ~(Runtime!bitcoinPaused(cache.exe, q) /\ Runtime!workersPaused(q, pass.got.wrk))
    <2>1. [q EXCEPT !.phase = @] = q BY <1>2 DEF Runtime!Root
    <2>2. Runtime!Finish(q) BY <1>1, <1>4, <2>1
    <2> QED BY <1>1, <1>2, <2>2, FinishRoot
  <1> QED BY <1>3, <1>4

LEMMA RuntimeUnavailableStep ==
  ASSUME RuntimeInv, Runtime!Unavailable PROVE RuntimeInv'
  <1> DEFINE q == pass.root
  <1>1. /\ pass.pc # "idle" /\ Runtime!Only
        /\ Runtime!Finish([q EXCEPT !.phase = CASE q.deleting -> "Destroying"
                                        [] ~q.deleting /\ q.op # "Stopped" /\ q.failed -> "Failed"
                                        [] OTHER -> @])
    BY DEF Runtime!Unavailable
  <1>2. q \in Runtime!Root /\ Fits(pass.base, q, held) BY <1>1, RootFacts
  <1>3. ASSUME NEW v \in {"Destroying", "Failed"}, Runtime!Finish([q EXCEPT !.phase = v]),
            v = "Failed" => q.failed
        PROVE  RuntimeInv'
    <2>1. v \in Runtime!Phases /\ v \notin {"Paused", "Stopped"} BY DEF Runtime!Phases
    <2> QED BY <1>1, <1>2, <1>3, <2>1, FitsPhase, RootWith, FinishRoot
  <1>4. CASE Runtime!Finish(q) BY <1>1, <1>2, <1>4, FinishRoot
  <1>5. [q EXCEPT !.phase = @] = q BY <1>2 DEF Runtime!Root
  <1> QED BY <1>1, <1>3, <1>4, <1>5

LEMMA RuntimeWriteStep ==
  ASSUME RuntimeInv, Runtime!Write PROVE RuntimeInv'
  <1>1. /\ pass.pc = "write" /\ root = pass.base /\ root' = pass.root /\ pass' = Runtime!Idle
        /\ UNCHANGED <<clock, chain, live, srv, cache, budget>> /\ Runtime!Witness
    BY DEF Runtime!Write
  <1>2. pass.root \in Runtime!Root /\ Fits(root, root', held) BY <1>1, RootFacts
  <1>3. pass'.pc = "idle" /\ pass'.got = Runtime!NoObjects /\ pass' \in Runtime!PassState BY <1>1, IdleType
  <1>4. Runtime!TypeOK'
    <2>1. held' \subseteq Facts BY <1>1, WitnessType DEF RuntimeInv
    <2> QED BY <1>1, <1>2, <1>3, <2>1 DEF RuntimeInv, Runtime!TypeOK, Facts
  <1>5. SessionFacts' BY <1>1, <1>2 DEF Fits, RuntimeInv, SessionFacts
  <1>6. Copied(Runtime!NoObjects) /\ root'.op = root.op /\ root'.gen = root.gen BY <1>2, Copies DEF Fits
  <1>7. EndFacts' BY <1>1, <1>3, <1>6 DEF RuntimeInv, EndFacts, Copied, ControlEnded, NodeEnded
  <1>8. AckFacts' BY <1>1, <1>3, <1>6 DEF RuntimeInv, AckFacts, Copied
  <1>9. StampFacts' BY <1>1, <1>3, <1>6 DEF RuntimeInv, StampFacts, Copied
  <1>10. EvidenceFacts' /\ PassFacts' BY <1>3 DEF EvidenceFacts, PassFacts
  <1> QED BY <1>4, <1>5, <1>7, <1>8, <1>9, <1>10 DEF RuntimeInv

LEMMA ConflictStep ==
  ASSUME RuntimeInv, Runtime!Conflict PROVE RuntimeInv'
  <1>1. pass' = Runtime!Idle /\ Runtime!Only BY DEF Runtime!Conflict
  <1>2. Runtime!TypeOK' BY <1>1, IdleType, OnlyType DEF RuntimeInv
  <1> QED BY <1>1, <1>2, PassRest

LEMMA PassSteps ==
  ASSUME RuntimeInv, Runtime!Pass PROVE RuntimeInv'
  BY RuntimeStartStep, SessionsStep, EndSteps, StopStep, RecordsStep, PreparationStep, TryStep, ReadWorkerStep,
     ReadNodeStep, ConfirmStep, PauseStep, RuntimeUnavailableStep, RuntimeWriteStep, ConflictStep
         DEF Runtime!Pass

-----------------------------------------------------------------------------
(* Everyone else *)

\* The copies of a pass only age.
LEMMA FoundBefore ==
  ASSUME RuntimeInv, Runtime!TypeOK', pass' = pass, clock <= clock'
  PROVE  \A f \in {"prepared", "pox4", "contracts", "pox5", "set"} : found(f)' => found(f)
  <1>1. /\ clock \in Nat /\ clock' \in Nat /\ pass.got.wrk.at \in Nat /\ pass.got.node.at \in Nat
        /\ pass.got.wrk.at <= clock /\ pass.got.node.at <= clock
    BY RootFacts
    DEF RuntimeInv, Runtime!TypeOK, StampFacts, Runtime!Objects, Runtime!Wrk, Runtime!Node, Runtime!Times
  <1>2. Runtime!fresh(pass.got.wrk.at)' => Runtime!fresh(pass.got.wrk.at) BY <1>1 DEF Runtime!fresh
  <1>3. Runtime!fresh(pass.got.node.at)' => Runtime!fresh(pass.got.node.at) BY <1>1 DEF Runtime!fresh
  <1> QED BY <1>2, <1>3 DEF found, Runtime!evidence, Runtime!pox4CohortSatisfied, Runtime!pox5CohortSatisfied,
            Runtime!contractCohortSatisfied, Runtime!requiredWorker, Runtime!preparedCohortSatisfied,
            Runtime!preparedInTime

\* A step that leaves the pass alone and takes back nothing that it relies on.
LEMMA Moved ==
  ASSUME RuntimeInv, Runtime!TypeOK', SessionFacts', AckFacts', StampFacts', Runtime!Witness, pass' = pass,
         clock <= clock',
         ControlEnded => ControlEnded', NodeEnded => NodeEnded',
         srv'.btc.term => srv.btc.term \/ ControlEnded', srv'.node.term => srv.node.term \/ NodeEnded',
         cache'.btc \in {cache.btc, srv.btc}, cache'.node \in {cache.node, srv.node},
         srv.wrk.pod # "none" => srv'.wrk.pod # "none", srv.wrk.pod = "dead" => srv'.wrk.pod = "dead",
         srv.wrk.pod = "lost" => srv'.wrk.pod = "lost", srv.rec.failed => srv'.rec.failed,
         srv.exe.ack <= srv'.exe.ack, srv.wrk.ack <= srv'.wrk.ack
  PROVE  RuntimeInv'
  <1>1. EndFacts' BY DEF RuntimeInv, EndFacts
  <1>2. EvidenceFacts'
    <2>1. pass.pc # "idle" => held \subseteq held' BY HeldGrows
    <2> QED BY <2>1, FoundBefore DEF RuntimeInv, EvidenceFacts
  <1>3. PassFacts'
    <2> SUFFICES ASSUME pass.pc # "idle" PROVE PassFacts' BY DEF PassFacts
    <2> DEFINE b == pass.base
               r == pass.root
    <2>1. Fits(b, r, held) /\ b \in Runtime!Root /\ r \in Runtime!Root BY RootFacts
    <2>2. held \subseteq held' BY HeldGrows
    <2>3. PauseSeen(b) => PauseSeen(b)'
      <3>1. /\ srv.exe.ack \in Nat /\ srv.wrk.ack \in Nat /\ srv'.exe.ack \in Nat /\ srv'.wrk.ack \in Nat
            /\ b.gen \in Nat
        BY <2>1 DEF RuntimeInv, Runtime!TypeOK, Runtime!Objects, Runtime!Exe, Runtime!Wrk, Runtime!Root
      <3> QED BY <3>1 DEF PauseSeen
    <2>4. EndSeen(r) => EndSeen(r)' BY DEF EndSeen
    <2>5. clock >= r.first + Deadline => clock' >= r.first + Deadline
      <3>1. r.first \in Nat /\ clock \in Nat /\ clock' \in Nat
        BY <2>1 DEF RuntimeInv, Runtime!TypeOK, Runtime!Root, Runtime!Times
      <3> SUFFICES ASSUME clock >= r.first + Deadline PROVE clock' >= r.first + Deadline OBVIOUS
      <3>2. CASE r.first + Deadline \in Nat BY <3>1, <3>2
      <3> QED BY <3>1, <3>2, RuntimeBounds
    <2>6. Fits(b, r, held)' BY <2>1, <2>2, <2>3, <2>4, <2>5 DEF Fits
    <2> QED BY <2>6 DEF RuntimeInv, PassFacts
  <1> QED BY <1>1, <1>2, <1>3 DEF RuntimeInv

LEMMA RuntimeSpendType ==
  ASSUME Runtime!TypeOK, NEW k \in Runtime!Kinds, Runtime!Spend(k) PROVE budget' \in [Runtime!Kinds -> Nat]
  BY DEF Runtime!TypeOK, Runtime!Spend

\* Someone edits the root.
LEMMA RootMoved ==
  ASSUME RuntimeInv, NEW r \in Runtime!Root, root' = r, UNCHANGED <<clock, chain, live, srv, cache, pass>>,
         Runtime!Witness,
         budget' \in [Runtime!Kinds -> Nat], root.op = "Stopped" => r.op = "Stopped",
         r.gen > root.gen \/ (r.gen = root.gen /\ r.op = root.op), r.phase = "Failed" => r.failed,
         r.wrk = root.wrk \/ (root.wrk = "unlisted" /\ r.wrk = "none"),
         root.genesis => r.genesis, r.genesis => r.wrk # "unlisted"
  PROVE  RuntimeInv'
  <1>1. Runtime!TypeOK'
    <2>1. held' \subseteq Facts BY WitnessType DEF RuntimeInv
    <2> QED BY <2>1 DEF RuntimeInv, Runtime!TypeOK, Facts
  <1>2. SessionFacts' BY DEF RuntimeInv, SessionFacts
  <1>3. /\ srv.exe.ack \in Nat /\ srv.wrk.ack \in Nat /\ cache.exe.ack \in Nat /\ cache.wrk.ack \in Nat
        /\ root.gen \in Nat /\ r.gen \in Nat /\ clock \in Nat
    BY DEF RuntimeInv, Runtime!TypeOK, Runtime!Objects, Runtime!Exe, Runtime!Wrk, Runtime!Root
  <1>4. AckFacts' BY <1>3 DEF RuntimeInv, AckFacts
  <1>5. StampFacts' BY DEF RuntimeInv, StampFacts
  <1>6. (ControlEnded => ControlEnded') /\ (NodeEnded => NodeEnded') BY DEF ControlEnded, NodeEnded
  <1> QED BY <1>1, <1>2, <1>3, <1>4, <1>5, <1>6, Moved

LEMMA Edited ==
  ASSUME NEW r \in Runtime!Root, root' = [r EXCEPT !.gen = @ + 1]
  PROVE  /\ root' \in Runtime!Root /\ root'.gen = r.gen + 1 /\ r.gen \in Nat
         /\ root'.op = r.op /\ root'.deleting = r.deleting /\ root'.genesis = r.genesis
         /\ root'.phase = r.phase /\ root'.failed = r.failed /\ root'.wrk = r.wrk
  BY DEF Runtime!Root

LEMMA UserSteps ==
  ASSUME RuntimeInv, Runtime!Pause \/ Runtime!Stop \/ Runtime!Delete \/ Runtime!Capture PROVE RuntimeInv'
  <1>1. /\ root \in Runtime!Root /\ root.gen \in Nat /\ (root.phase = "Failed" => root.failed)
        /\ (root.genesis => root.wrk # "unlisted")
    BY DEF RuntimeInv, Runtime!TypeOK, Runtime!Root, SessionFacts
  <1>2. CASE Runtime!Pause
    <2> DEFINE r == [root EXCEPT !.op = IF @ = "Running" THEN "Paused" ELSE "Running"]
    <2>1. /\ r \in Runtime!Root /\ r.gen = root.gen /\ r.genesis = root.genesis /\ r.phase = root.phase
          /\ r.failed = root.failed /\ r.wrk = root.wrk
      BY <1>1 DEF Runtime!Root
    <2>2. /\ root.op # "Stopped" /\ Runtime!Spend("Pause") /\ root' = [r EXCEPT !.gen = @ + 1]
          /\ UNCHANGED <<clock, chain, live, srv, cache, pass>> /\ Runtime!Witness
      BY <1>2 DEF Runtime!Pause, Runtime!Edit
    <2> HIDE DEF r
    <2>3. budget' \in [Runtime!Kinds -> Nat] BY <2>2, RuntimeSpendType DEF RuntimeInv, Runtime!Kinds
    <2>4. /\ root' \in Runtime!Root /\ root'.gen = root.gen + 1 /\ root'.op = r.op
          /\ root'.genesis = root.genesis
          /\ root'.phase = root.phase /\ root'.failed = root.failed /\ root'.wrk = root.wrk
      BY <2>1, <2>2, Edited
    <2>5. root'.gen > root.gen BY <1>1, <2>4
    <2> QED BY <1>1, <2>1, <2>2, <2>3, <2>4, <2>5, RootMoved
  <1>3. CASE Runtime!Stop
    <2> DEFINE r == [root EXCEPT !.op = "Stopped"]
    <2>1. /\ r \in Runtime!Root /\ r.gen = root.gen /\ r.genesis = root.genesis /\ r.phase = root.phase
          /\ r.failed = root.failed /\ r.wrk = root.wrk /\ r.op = "Stopped"
      BY <1>1 DEF Runtime!Root
    <2>2. /\ Runtime!Spend("Stop") /\ root' = [r EXCEPT !.gen = @ + 1]
          /\ UNCHANGED <<clock, chain, live, srv, cache, pass>> /\ Runtime!Witness
      BY <1>3 DEF Runtime!Stop, Runtime!Edit
    <2> HIDE DEF r
    <2>3. budget' \in [Runtime!Kinds -> Nat] BY <2>2, RuntimeSpendType DEF RuntimeInv, Runtime!Kinds
    <2>4. /\ root' \in Runtime!Root /\ root'.gen = root.gen + 1 /\ root'.op = r.op
          /\ root'.genesis = root.genesis
          /\ root'.phase = root.phase /\ root'.failed = root.failed /\ root'.wrk = root.wrk
      BY <2>1, <2>2, Edited
    <2>5. root'.gen > root.gen BY <1>1, <2>4
    <2> QED BY <1>1, <2>1, <2>2, <2>3, <2>4, <2>5, RootMoved
  <1>4. CASE Runtime!Delete
    <2>1. Runtime!Spend("Delete") /\ root' = [root EXCEPT !.deleting = TRUE]
          /\ UNCHANGED <<clock, chain, live, srv, cache, pass>> /\ Runtime!Witness
      BY <1>4 DEF Runtime!Delete
    <2>2. /\ root' \in Runtime!Root /\ root'.gen = root.gen /\ root'.genesis = root.genesis
          /\ root'.phase = root.phase
          /\ root'.failed = root.failed /\ root'.wrk = root.wrk /\ root'.op = root.op
      BY <1>1, <2>1 DEF Runtime!Root
    <2>3. budget' \in [Runtime!Kinds -> Nat] BY <2>1, RuntimeSpendType DEF RuntimeInv, Runtime!Kinds
    <2> QED BY <1>1, <2>1, <2>2, <2>3, RootMoved
  <1>5. CASE Runtime!Capture
    <2>1. /\ ~root.genesis /\ UNCHANGED <<clock, chain, live, srv, cache, pass>> /\ Runtime!Witness
          /\ root' = IF root.wrk = "unlisted" THEN [root EXCEPT !.wrk = "none"]
                     ELSE [root EXCEPT !.genesis = TRUE, !.phase = "Initializing"]
      BY <1>5 DEF Runtime!Capture
    <2>2. budget' \in [Runtime!Kinds -> Nat] BY <1>5 DEF Runtime!Capture, RuntimeInv, Runtime!TypeOK
    <2>3. CASE root.wrk = "unlisted"
      <3>1. /\ root' \in Runtime!Root /\ root'.gen = root.gen /\ root'.genesis = root.genesis
            /\ root'.phase = root.phase /\ root'.failed = root.failed /\ root'.wrk = "none"
                /\ root'.op = root.op
        BY <1>1, <2>1, <2>3 DEF Runtime!Root
      <3> QED BY <1>1, <2>1, <2>2, <2>3, <3>1, RootMoved
    <2>4. CASE root.wrk # "unlisted"
      <3>1. /\ root' \in Runtime!Root /\ root'.gen = root.gen /\ root'.genesis
            /\ root'.phase = "Initializing" /\ root'.failed = root.failed /\ root'.wrk = root.wrk
            /\ root'.op = root.op
        BY <1>1, <2>1, <2>4 DEF Runtime!Root, Runtime!Phases
      <3> QED BY <1>1, <2>1, <2>2, <2>4, <3>1, RootMoved
    <2> QED BY <2>3, <2>4
  <1> QED BY <1>2, <1>3, <1>4, <1>5

\* Time passes, an informer catches up, somebody mines, a process ends.
LEMMA QuietSteps ==
  ASSUME RuntimeInv, Runtime!Tick \/ Runtime!Sync \/ Runtime!Exceed \/ Runtime!EndControl \/ Runtime!EndNode
  PROVE  RuntimeInv'
  <1>1. /\ UNCHANGED <<root, srv, pass>> /\ Runtime!Witness
        /\ live' = live \/ live' = [live EXCEPT !["ctl"] = FALSE] \/ live' = [live EXCEPT !["node"] = FALSE]
        /\ clock' = clock \/ clock' = clock + 1
        /\ chain' = chain \/ chain' = chain + 1
    BY DEF Runtime!Tick, Runtime!Sync, Runtime!Exceed, Runtime!EndControl, Runtime!EndNode
  <1>2. \/ cache' = cache \/ cache' = [cache EXCEPT !.rec = srv.rec] \/ cache' = [cache EXCEPT !.exe = srv.exe]
        \/ cache' = [cache EXCEPT !.btc = srv.btc, !.wrk = srv.wrk, !.node = srv.node]
    BY DEF Runtime!Tick, Runtime!Sync, Runtime!Exceed, Runtime!EndControl, Runtime!EndNode
  <1>3. /\ srv \in Runtime!Objects /\ cache \in Runtime!Objects /\ clock \in Nat /\ clock' \in Nat
        /\ clock <= clock'
        /\ chain' \in Nat
    BY <1>1 DEF RuntimeInv, Runtime!TypeOK
  <1>4. /\ cache' \in Runtime!Objects /\ cache'.btc \in {cache.btc, srv.btc}
        /\ cache'.wrk \in {cache.wrk, srv.wrk}
        /\ cache'.node \in {cache.node, srv.node} /\ cache'.exe \in {cache.exe, srv.exe}
    BY <1>2, <1>3 DEF Runtime!Objects
  <1>5. /\ live' \in [{"ctl", "wrk", "node"} -> BOOLEAN] /\ live'["wrk"] = live["wrk"]
        /\ (live'["ctl"] => live["ctl"]) /\ (live'["node"] => live["node"])
    BY <1>1 DEF RuntimeInv, Runtime!TypeOK
  <1>6. budget' \in [Runtime!Kinds -> Nat]
    <2>1. Runtime!Spend("Tick") \/ Runtime!Spend("Exceed") \/ UNCHANGED budget
      BY DEF Runtime!Tick, Runtime!Sync, Runtime!Exceed, Runtime!EndControl, Runtime!EndNode
    <2> QED BY <2>1, RuntimeSpendType DEF RuntimeInv, Runtime!Kinds, Runtime!TypeOK
  <1>7. Runtime!TypeOK'
    <2>1. held' \subseteq Facts BY <1>1, WitnessType DEF RuntimeInv
    <2> QED BY <1>1, <1>3, <1>4, <1>5, <1>6, <2>1 DEF RuntimeInv, Runtime!TypeOK, Facts
  <1>8. SessionFacts' BY <1>1, <1>5 DEF RuntimeInv, SessionFacts
  <1>9. /\ srv.exe.ack \in Nat /\ srv.wrk.ack \in Nat /\ pass.got.wrk.at \in Nat /\ pass.got.node.at \in Nat
        /\ srv.wrk.at \in Nat /\ srv.node.at \in Nat /\ cache.wrk.at \in Nat /\ cache.node.at \in Nat
    BY RootFacts
    DEF RuntimeInv, Runtime!TypeOK, Runtime!Objects, Runtime!Exe, Runtime!Wrk, Runtime!Node, Runtime!Times
  <1>10. AckFacts' BY <1>1, <1>4, <1>9 DEF RuntimeInv, AckFacts
  <1>11. StampFacts' BY <1>1, <1>3, <1>4, <1>9 DEF RuntimeInv, StampFacts
  <1>12. (ControlEnded => ControlEnded') /\ (NodeEnded => NodeEnded')
    BY <1>1, <1>5 DEF ControlEnded, NodeEnded
  <1> QED BY <1>1, <1>3, <1>4, <1>7, <1>8, <1>9, <1>10, <1>11, <1>12, Moved

\* One of the other objects changes.
LEMMA ObjectMoved ==
  ASSUME RuntimeInv, srv' \in Runtime!Objects, UNCHANGED <<clock, root, cache, pass>>, Runtime!Witness,
         chain' \in Nat,
         live' \in [{"ctl", "wrk", "node"} -> BOOLEAN], budget' \in [Runtime!Kinds -> Nat],
         SessionFacts', ControlEnded => ControlEnded', NodeEnded => NodeEnded',
         srv'.btc.term => srv.btc.term \/ ControlEnded', srv'.node.term => srv.node.term \/ NodeEnded',
         srv'.rec = srv.rec \/ ~srv.rec.failed,
         srv'.exe = srv.exe \/ (/\ srv.exe.ack <= srv'.exe.ack /\ srv'.exe.ack <= root.gen
                                /\ srv'.exe.ack = root.gen => srv'.exe.paused = (root.op = "Paused")
                                /\ srv'.exe.paused => ~srv'.exe.armed),
         srv.wrk.ack <= srv'.wrk.ack, srv'.wrk.ack <= root.gen, srv'.wrk.at <= clock,
         srv'.wrk.ack = root.gen => srv'.wrk.paused = (root.op = "Paused"),
         srv.wrk.pod # "none" => srv'.wrk.pod # "none", srv.wrk.pod = "dead" => srv'.wrk.pod = "dead",
         srv.wrk.pod = "lost" => srv'.wrk.pod = "lost", srv'.node.at <= clock
  PROVE  RuntimeInv'
  <1>1. Runtime!TypeOK'
    <2>1. held' \subseteq Facts BY WitnessType DEF RuntimeInv
    <2> QED BY <2>1 DEF RuntimeInv, Runtime!TypeOK, Facts
  <1>2. /\ srv.exe.ack \in Nat /\ srv'.exe.ack \in Nat /\ srv.wrk.ack \in Nat /\ srv'.wrk.ack \in Nat
        /\ cache.exe.ack \in Nat /\ cache.wrk.ack \in Nat /\ pass.got.wrk.ack \in Nat /\ clock \in Nat
    BY RootFacts DEF RuntimeInv, Runtime!TypeOK, Runtime!Objects, Runtime!Exe, Runtime!Wrk
  <1>3. srv.exe.ack <= srv'.exe.ack BY <1>2
  <1>4. AckFacts' BY <1>2, <1>3 DEF RuntimeInv, AckFacts
  <1>5. StampFacts' BY DEF RuntimeInv, StampFacts
  <1>6. clock <= clock' BY <1>2
  <1> QED BY <1>1, <1>3, <1>4, <1>5, <1>6, Moved

\* What is so of the objects, for the steps below.
LEMMA ObjectNow ==
  ASSUME RuntimeInv
  PROVE  /\ srv \in Runtime!Objects /\ root \in Runtime!Root /\ clock \in Nat /\ chain \in Nat
             /\ root.gen \in Nat
         /\ srv.wrk.ack \in Nat /\ srv.wrk.ack <= root.gen /\ srv.wrk.at <= clock /\ srv.node.at <= clock
         /\ srv.wrk.ack = root.gen => srv.wrk.paused = (root.op = "Paused")
         /\ live \in [{"ctl", "wrk", "node"} -> BOOLEAN] /\ budget \in [Runtime!Kinds -> Nat]
         /\ srv.exe.ack \in Nat /\ clock <= clock /\ srv.wrk.ack <= srv.wrk.ack
  BY
  DEF RuntimeInv, Runtime!TypeOK, Runtime!Objects, Runtime!Wrk, Runtime!Exe, Runtime!Root, AckFacts, StampFacts

\* A process other than the worker's and the node's.
LEMMA ExeMoved ==
  ASSUME RuntimeInv, NEW v \in Runtime!Exe, Runtime!object([srv EXCEPT !.exe = v]), chain' \in Nat,
         UNCHANGED live,
         budget' \in [Runtime!Kinds -> Nat],
         srv.exe.ack <= v.ack, v.ack <= root.gen, v.ack = root.gen => v.paused = (root.op = "Paused"),
         v.paused => ~v.armed
  PROVE  RuntimeInv'
  <1>1. srv' = [srv EXCEPT !.exe = v] /\ UNCHANGED <<clock, root, cache, pass>> /\ Runtime!Witness
    BY DEF Runtime!object
  <1>2. /\ srv' \in Runtime!Objects /\ srv'.exe = v /\ srv'.rec = srv.rec /\ srv'.btc = srv.btc
        /\ srv'.wrk = srv.wrk
        /\ srv'.node = srv.node
    BY <1>1, ObjectNow, ObjectWith
  <1>3. SessionFacts' BY <1>1, <1>2 DEF RuntimeInv, SessionFacts
  <1>4. (ControlEnded => ControlEnded') /\ (NodeEnded => NodeEnded') BY <1>1, <1>2 DEF ControlEnded, NodeEnded
  <1> QED BY <1>1, <1>2, <1>3, <1>4, ObjectNow, ObjectMoved

LEMMA ControlSteps ==
  ASSUME RuntimeInv, Runtime!Arm \/ Runtime!Receive \/ Runtime!Beat PROVE RuntimeInv'
  <1>1. srv.exe \in Runtime!Exe /\ srv.btc \in Runtime!Btc BY ObjectNow DEF Runtime!Objects
  <1>2. /\ srv.exe.ack \in Nat /\ srv.exe.ack <= root.gen
        /\ srv.exe.ack = root.gen => srv.exe.paused = (root.op = "Paused")
        /\ srv.exe.paused => ~srv.exe.armed
    BY ObjectNow DEF RuntimeInv, AckFacts
  <1>3. CASE Runtime!Arm
    <2> DEFINE v == [srv.exe EXCEPT !.armed = TRUE]
    <2>1. /\ ~srv.exe.paused /\ Runtime!Spend("Block") /\ Runtime!object([srv EXCEPT !.exe = v])
          /\ UNCHANGED <<chain, live>>
      BY <1>3, ObjectNow DEF Runtime!Arm, Runtime!Objects
    <2>2. v \in Runtime!Exe /\ v.ack = srv.exe.ack /\ v.paused = srv.exe.paused BY <1>1 DEF Runtime!Exe
    <2> HIDE DEF v
    <2>3. budget' \in [Runtime!Kinds -> Nat] BY <2>1, RuntimeSpendType DEF RuntimeInv, Runtime!Kinds
    <2> QED BY <1>2, <2>1, <2>2, <2>3, ObjectNow, ExeMoved
  <1>4. CASE Runtime!Receive
    <2> DEFINE v == [srv.exe EXCEPT !.armed = FALSE]
    <2>1. /\ chain' = chain + 1 /\ Runtime!object([srv EXCEPT !.exe = v]) /\ UNCHANGED <<live, budget>>
      BY <1>4, ObjectNow DEF Runtime!Receive, Runtime!Objects
    <2>2. v \in Runtime!Exe /\ v.ack = srv.exe.ack /\ v.paused = srv.exe.paused /\ ~v.armed
      BY <1>1 DEF Runtime!Exe
    <2> HIDE DEF v
    <2>3. chain' \in Nat /\ budget' \in [Runtime!Kinds -> Nat] BY <2>1, ObjectNow
    <2> QED BY <1>2, <2>1, <2>2, <2>3, ExeMoved
  <1>5. CASE Runtime!Beat
    <2> DEFINE v == [srv.exe EXCEPT !.height = chain, !.at = clock, !.proc = srv.btc.proc, !.ack = root.gen,
                                    !.paused = root.op = "Paused"]
    <2>1. /\ root.op = "Paused" => ~srv.exe.armed
          /\ Runtime!Spend("Report") /\ Runtime!object([srv EXCEPT !.exe = v]) /\ UNCHANGED <<chain, live>>
      BY <1>5, ObjectNow DEF Runtime!Beat, Runtime!Objects
    <2>2. v \in Runtime!Exe /\ v.ack = root.gen /\ v.paused = (root.op = "Paused") /\ v.armed = srv.exe.armed
      BY <1>1, ObjectNow DEF Runtime!Exe, Runtime!Btc, Runtime!Times
    <2> HIDE DEF v
    <2>3. budget' \in [Runtime!Kinds -> Nat] BY <2>1, RuntimeSpendType DEF RuntimeInv, Runtime!Kinds
    <2>4. srv.exe.ack <= v.ack /\ v.ack <= root.gen BY <1>2, <2>2, ObjectNow
    <2>5. v.paused => ~v.armed
      <3>1. CASE root.op = "Paused" BY <2>1, <2>2, <3>1
      <3>2. CASE root.op # "Paused" BY <2>2, <3>2
      <3> QED BY <3>1, <3>2
    <2> QED BY <2>1, <2>2, <2>3, <2>4, <2>5, ObjectNow, ExeMoved
  <1> QED BY <1>3, <1>4, <1>5

LEMMA RecMoved ==
  ASSUME RuntimeInv, Runtime!Prepare PROVE RuntimeInv'
  <1>1. /\ ~srv.rec.failed /\ UNCHANGED <<chain, live, budget>>
        /\ \E v \in {[srv.rec EXCEPT !.first = clock], [srv.rec EXCEPT !.prepared = clock],
                     [srv.rec EXCEPT !.failed = TRUE]} : Runtime!object([srv EXCEPT !.rec = v])
    BY ObjectNow DEF Runtime!Prepare, Runtime!Objects
  <1>2. PICK v : /\ v \in {[srv.rec EXCEPT !.first = clock], [srv.rec EXCEPT !.prepared = clock],
                           [srv.rec EXCEPT !.failed = TRUE]}
                 /\ Runtime!object([srv EXCEPT !.rec = v])
    BY <1>1
  <1>3. v \in Runtime!Rec BY <1>2, ObjectNow DEF Runtime!Objects, Runtime!Rec, Runtime!Times
  <1>4. srv' = [srv EXCEPT !.rec = v] /\ UNCHANGED <<clock, root, cache, pass>> /\ Runtime!Witness
    BY <1>2 DEF Runtime!object
  <1>5. /\ srv' \in Runtime!Objects /\ srv'.exe = srv.exe /\ srv'.btc = srv.btc /\ srv'.wrk = srv.wrk
        /\ srv'.node = srv.node
    BY <1>3, <1>4, ObjectNow, ObjectWith
  <1>6. SessionFacts' BY <1>1, <1>4, <1>5 DEF RuntimeInv, SessionFacts
  <1>7. (ControlEnded => ControlEnded') /\ (NodeEnded => NodeEnded')
    BY <1>1, <1>4, <1>5 DEF ControlEnded, NodeEnded
  <1> QED BY <1>1, <1>4, <1>5, <1>6, <1>7, ObjectNow, ObjectMoved

LEMMA BtcSteps ==
  ASSUME RuntimeInv, Runtime!Rebind \/ Runtime!RecordControl PROVE RuntimeInv'
  <1>0. srv.btc \in Runtime!Btc BY ObjectNow DEF Runtime!Objects
  <1>1. PICK v \in Runtime!Btc : /\ Runtime!object([srv EXCEPT !.btc = v]) /\ chain' = chain
                                 /\ v.term => ControlEnded'
                                 /\ (ControlEnded => ControlEnded') /\ (NodeEnded => NodeEnded')
                                 /\ live' \in [{"ctl", "wrk", "node"} -> BOOLEAN] /\ live'["wrk"] = live["wrk"]
                                 /\ budget' \in [Runtime!Kinds -> Nat]
    <2>1. CASE Runtime!Rebind
      <3> DEFINE v == [srv.btc EXCEPT !.proc = srv.btc.proc + 1]
      <3>1. /\ root.op = "Running" /\ Runtime!object([srv EXCEPT !.btc = v]) /\ chain' = chain
            /\ live' = [live EXCEPT !["ctl"] = TRUE]
            /\ UNCHANGED budget \/ Runtime!Spend("Rebind")
        BY <2>1, ObjectNow DEF Runtime!Rebind, Runtime!mayStart, Runtime!Objects
      <3>2. v \in Runtime!Btc /\ v.term = srv.btc.term BY <1>0 DEF Runtime!Btc
      <3>3. ~srv.btc.term /\ ~ControlEnded BY <3>1 DEF RuntimeInv, EndFacts, ControlEnded
      <3> HIDE DEF v
      <3>4. srv' = [srv EXCEPT !.btc = v] /\ root' = root BY <3>1 DEF Runtime!object
      <3>5. srv'.node = srv.node BY <3>2, <3>4, ObjectNow, ObjectWith
      <3>6. NodeEnded => NodeEnded' BY <3>1, <3>4, <3>5, ObjectNow DEF NodeEnded
      <3>7. budget' \in [Runtime!Kinds -> Nat]
        BY <3>1, RuntimeSpendType, ObjectNow DEF RuntimeInv, Runtime!Kinds
      <3> QED BY <3>1, <3>2, <3>3, <3>6, <3>7, ObjectNow
    <2>2. CASE Runtime!RecordControl
      <3> DEFINE v == [srv.btc EXCEPT !.term = TRUE, !.gen = root.gen]
      <3>1. /\ root.op = "Stopped" /\ ~live["ctl"] /\ Runtime!object([srv EXCEPT !.btc = v])
            /\ UNCHANGED <<chain, live, budget>>
        BY <2>2, ObjectNow DEF Runtime!RecordControl, Runtime!Objects
      <3>2. v \in Runtime!Btc BY <1>0, ObjectNow DEF Runtime!Btc
      <3> HIDE DEF v
      <3>3. srv' = [srv EXCEPT !.btc = v] /\ root' = root BY <3>1 DEF Runtime!object
      <3>4. srv'.node = srv.node BY <3>2, <3>3, ObjectNow, ObjectWith
      <3>5. ControlEnded' /\ (NodeEnded => NodeEnded') BY <3>1, <3>3, <3>4 DEF NodeEnded, ControlEnded
      <3> QED BY <3>1, <3>2, <3>5, ObjectNow
    <2> QED BY <2>1, <2>2
  <1>2. srv' = [srv EXCEPT !.btc = v] /\ UNCHANGED <<clock, root, cache, pass>> /\ Runtime!Witness
    BY <1>1 DEF Runtime!object
  <1>3. /\ srv' \in Runtime!Objects /\ srv'.rec = srv.rec /\ srv'.exe = srv.exe /\ srv'.btc = v
        /\ srv'.wrk = srv.wrk
        /\ srv'.node = srv.node
    BY <1>2, ObjectNow, ObjectWith
  <1>4. SessionFacts' BY <1>1, <1>2, <1>3 DEF RuntimeInv, SessionFacts
  <1> QED BY <1>1, <1>2, <1>3, <1>4, ObjectNow, ObjectMoved

LEMMA RoleType ==
  ASSUME NEW r \in Runtime!Root, root = r
  PROVE  Runtime!roleFact[1] \in {"none", "pox4", "contracts", "pox5"} /\ Runtime!roleFact[2] \in Nat
  <1> DEFINE g == IF root.index = Runtime!NGates THEN Runtime!NGates ELSE Runtime!Gate(root)
             k == CASE "pox4" \in Runtime!needs(g) -> "pox4" [] "pox5" \in Runtime!needs(g) -> "pox5"
                    [] "contracts" \in Runtime!needs(g) -> "contracts" [] OTHER -> "none"
  <1>1. root.index \in 0 .. Runtime!NGates BY DEF Runtime!Root
  <1>2. g \in 1 .. Runtime!NGates BY <1>1 DEF Runtime!Gate, Runtime!NGates
  <1>3. Cycle[g] \in Nat BY <1>2, RuntimeBounds
  <1>4. Runtime!roleFact = <<k, Cycle[g]>> BY DEF Runtime!roleFact
  <1> HIDE DEF g
  <1>5. k \in {"none", "pox4", "contracts", "pox5"} OBVIOUS
  <1> HIDE DEF k
  <1> QED BY <1>3, <1>4, <1>5

LEMMA WrkMoved ==
  ASSUME RuntimeInv, NEW v \in Runtime!Wrk, Runtime!object([srv EXCEPT !.wrk = v]), UNCHANGED chain,
         NEW l \in BOOLEAN, live' = [live EXCEPT !["wrk"] = l], budget' \in [Runtime!Kinds -> Nat],
         srv.wrk.ack <= v.ack, v.ack <= root.gen, v.at <= clock,
         v.ack = root.gen => v.paused = (root.op = "Paused"),
         v.pod = srv.wrk.pod \/ (srv.wrk.pod = "none" /\ v.pod = "live" /\ root.genesis)
           \/ (srv.wrk.pod = "live" /\ v.pod \in {"dead", "lost"}),
         v.pod \in {"none", "dead"} => ~l
  PROVE  RuntimeInv'
  <1>1. srv' = [srv EXCEPT !.wrk = v] /\ UNCHANGED <<clock, root, cache, pass>> /\ Runtime!Witness
    BY DEF Runtime!object
  <1>2. /\ srv' \in Runtime!Objects /\ srv'.exe = srv.exe /\ srv'.rec = srv.rec /\ srv'.btc = srv.btc
        /\ srv'.wrk = v
        /\ srv'.node = srv.node
    BY <1>1, ObjectNow, ObjectWith
  <1>3. /\ live' \in [{"ctl", "wrk", "node"} -> BOOLEAN] /\ live'["wrk"] = l /\ live'["ctl"] = live["ctl"]
        /\ live'["node"] = live["node"]
    BY ObjectNow
  <1>4. SessionFacts' BY <1>1, <1>2, <1>3 DEF RuntimeInv, SessionFacts
  <1>5. (ControlEnded => ControlEnded') /\ (NodeEnded => NodeEnded')
    BY <1>1, <1>2, <1>3 DEF ControlEnded, NodeEnded
  <1> QED BY <1>1, <1>2, <1>3, <1>4, <1>5, ObjectNow, ObjectMoved

LEMMA WorkerSteps ==
  ASSUME RuntimeInv,
         \/ Runtime!StartWorker \/ Runtime!ReportWorker \/ Runtime!RegressWorker
         \/ Runtime!EndWorker \/ Runtime!LoseWorker
  PROVE  RuntimeInv'
  <1>1. /\ srv.wrk \in Runtime!Wrk /\ live["wrk"] \in BOOLEAN /\ live = [live EXCEPT !["wrk"] = @]
        /\ srv.wrk.pod \in {"none", "dead"} => ~live["wrk"]
    BY ObjectNow DEF Runtime!Objects, RuntimeInv, SessionFacts
  <1>2. CASE Runtime!StartWorker
    <2> DEFINE v == [srv.wrk EXCEPT !.pod = "live"]
    <2>1. /\ srv.wrk.pod = "none" /\ root.genesis /\ Runtime!object([srv EXCEPT !.wrk = v])
          /\ live' = [live EXCEPT !["wrk"] = TRUE] /\ UNCHANGED <<chain, budget>>
      BY <1>2, ObjectNow DEF Runtime!StartWorker, Runtime!mayStart, Runtime!Objects
    <2>2. v \in Runtime!Wrk /\ v.ack = srv.wrk.ack /\ v.at = srv.wrk.at /\ v.paused = srv.wrk.paused
              /\ v.pod = "live"
      BY <1>1 DEF Runtime!Wrk
    <2> HIDE DEF v
    <2> QED BY <2>1, <2>2, ObjectNow, WrkMoved
  <1>3. CASE Runtime!ReportWorker
    <2> DEFINE v == [srv.wrk EXCEPT !.fact = Runtime!roleFact[1], !.cycle = Runtime!roleFact[2], !.at = clock,
                                    !.ready = TRUE,
                                    !.ack = root.gen, !.paused = root.op = "Paused"]
    <2>1. Runtime!object([srv EXCEPT !.wrk = v]) /\ Runtime!Spend("Report") /\ UNCHANGED <<chain, live>>
      BY <1>3, ObjectNow DEF Runtime!ReportWorker, Runtime!Objects
    <2>2. Runtime!roleFact[1] \in {"none", "pox4", "contracts", "pox5"} /\ Runtime!roleFact[2] \in Nat
      BY ObjectNow, RoleType
    <2>3. /\ v \in Runtime!Wrk /\ v.ack = root.gen /\ v.at = clock /\ v.paused = (root.op = "Paused")
          /\ v.pod = srv.wrk.pod
      BY <1>1, <2>2, ObjectNow DEF Runtime!Wrk, Runtime!Times
    <2> HIDE DEF v
    <2>4. budget' \in [Runtime!Kinds -> Nat] BY <2>1, RuntimeSpendType DEF RuntimeInv, Runtime!Kinds
    <2>5. v.ack <= root.gen BY <2>3, ObjectNow
    <2> QED BY <1>1, <2>1, <2>3, <2>4, <2>5, ObjectNow, WrkMoved
  <1>4. CASE Runtime!RegressWorker
    <2> DEFINE v == [srv.wrk EXCEPT !.fact = "none", !.ready = FALSE, !.at = clock]
    <2>1. Runtime!object([srv EXCEPT !.wrk = v]) /\ Runtime!Spend("Regress") /\ UNCHANGED <<chain, live>>
      BY <1>4, ObjectNow DEF Runtime!RegressWorker, Runtime!Objects
    <2>2. /\ v \in Runtime!Wrk /\ v.ack = srv.wrk.ack /\ v.at = clock /\ v.paused = srv.wrk.paused
          /\ v.pod = srv.wrk.pod
      BY <1>1, ObjectNow DEF Runtime!Wrk, Runtime!Times
    <2> HIDE DEF v
    <2>3. budget' \in [Runtime!Kinds -> Nat] BY <2>1, RuntimeSpendType DEF RuntimeInv, Runtime!Kinds
    <2> QED BY <1>1, <2>1, <2>2, <2>3, ObjectNow, WrkMoved
  <1>5. CASE Runtime!EndWorker
    <2> DEFINE v == [srv.wrk EXCEPT !.pod = "dead"]
    <2>1. /\ srv.wrk.pod = "live" /\ Runtime!object([srv EXCEPT !.wrk = v])
          /\ live' = [live EXCEPT !["wrk"] = FALSE] /\ UNCHANGED <<chain, budget>>
      BY <1>5, ObjectNow DEF Runtime!EndWorker, Runtime!Objects
    <2>2. v \in Runtime!Wrk /\ v.ack = srv.wrk.ack /\ v.at = srv.wrk.at /\ v.paused = srv.wrk.paused
              /\ v.pod = "dead"
      BY <1>1 DEF Runtime!Wrk
    <2> HIDE DEF v
    <2> QED BY <2>1, <2>2, ObjectNow, WrkMoved
  <1>6. CASE Runtime!LoseWorker
    <2> DEFINE v == [srv.wrk EXCEPT !.pod = "lost"]
    <2>1. /\ srv.wrk.pod = "live" /\ Runtime!object([srv EXCEPT !.wrk = v]) /\ Runtime!Spend("Lost")
          /\ UNCHANGED <<chain, live>>
      BY <1>6, ObjectNow DEF Runtime!LoseWorker, Runtime!Objects
    <2>2. v \in Runtime!Wrk /\ v.ack = srv.wrk.ack /\ v.at = srv.wrk.at /\ v.paused = srv.wrk.paused
              /\ v.pod = "lost"
      BY <1>1 DEF Runtime!Wrk
    <2> HIDE DEF v
    <2>3. budget' \in [Runtime!Kinds -> Nat] BY <2>1, RuntimeSpendType DEF RuntimeInv, Runtime!Kinds
    <2> QED BY <1>1, <2>1, <2>2, <2>3, ObjectNow, WrkMoved
  <1> QED BY <1>2, <1>3, <1>4, <1>5, <1>6

LEMMA NodeMoved ==
  ASSUME RuntimeInv, NEW v \in Runtime!Node, Runtime!object([srv EXCEPT !.node = v]), UNCHANGED chain,
         NEW l \in BOOLEAN, live' = [live EXCEPT !["node"] = l],
         budget' \in [Runtime!Kinds -> Nat], v.at <= clock,
         srv.node.rolled => v.rolled, root.op = "Stopped" /\ ~srv.node.up /\ ~live["node"] => ~v.up /\ ~l,
         v.term => srv.node.term \/ v.rolled \/ (root.op = "Stopped" /\ ~v.up /\ ~l)
  PROVE  RuntimeInv'
  <1>1. srv' = [srv EXCEPT !.node = v] /\ UNCHANGED <<clock, root, cache, pass>> /\ Runtime!Witness
    BY DEF Runtime!object
  <1>2. /\ srv' \in Runtime!Objects /\ srv'.exe = srv.exe /\ srv'.rec = srv.rec /\ srv'.btc = srv.btc
        /\ srv'.wrk = srv.wrk /\ srv'.node = v
    BY <1>1, ObjectNow, ObjectWith
  <1>3. /\ live' \in [{"ctl", "wrk", "node"} -> BOOLEAN] /\ live'["wrk"] = live["wrk"]
        /\ live'["ctl"] = live["ctl"] /\ live'["node"] = l
    BY ObjectNow
  <1>4. SessionFacts' BY <1>1, <1>2, <1>3 DEF RuntimeInv, SessionFacts
  <1>5. (ControlEnded => ControlEnded') /\ (NodeEnded => NodeEnded') /\ (v.term => srv.node.term \/ NodeEnded')
    BY <1>1, <1>2, <1>3 DEF ControlEnded, NodeEnded
  <1> QED BY <1>1, <1>2, <1>3, <1>4, <1>5, ObjectNow, ObjectMoved

LEMMA NodeSteps ==
  ASSUME RuntimeInv,
         \/ Runtime!StartNode \/ Runtime!ReportNode \/ Runtime!RegressNode
         \/ Runtime!RollNode \/ Runtime!ScaleNode \/ Runtime!RecordNode
  PROVE  RuntimeInv'
  <1>1. srv.node \in Runtime!Node /\ live["node"] \in BOOLEAN /\ live = [live EXCEPT !["node"] = @]
    BY ObjectNow DEF Runtime!Objects
  <1>2. CASE Runtime!StartNode
    <2> DEFINE v == [srv.node EXCEPT !.up = TRUE]
    <2>1. /\ srv.node.up \/ root.op # "Stopped"
          /\ Runtime!object([srv EXCEPT !.node = v]) /\ live' = [live EXCEPT !["node"] = TRUE]
          /\ UNCHANGED <<chain, budget>>
      BY <1>2, ObjectNow DEF Runtime!StartNode, Runtime!mayStart, Runtime!Objects
    <2>2. v \in Runtime!Node /\ v.at = srv.node.at /\ v.rolled = srv.node.rolled /\ v.term = srv.node.term
      BY <1>1 DEF Runtime!Node
    <2> HIDE DEF v
    <2> QED BY <2>1, <2>2, ObjectNow, NodeMoved
  <1>3. CASE Runtime!ReportNode
    <2> DEFINE v == [srv.node EXCEPT !.term = FALSE, !.ready = TRUE, !.set = Runtime!roleFact[2], !.at = clock]
    <2>1. /\ live["node"] /\ Runtime!object([srv EXCEPT !.node = v]) /\ Runtime!Spend("Report")
          /\ UNCHANGED <<chain, live>>
      BY <1>3, ObjectNow DEF Runtime!ReportNode, Runtime!Objects
    <2>2. Runtime!roleFact[2] \in Nat BY ObjectNow, RoleType
    <2>3. v \in Runtime!Node /\ v.at = clock /\ v.rolled = srv.node.rolled /\ ~v.term
      BY <1>1, <2>2, ObjectNow DEF Runtime!Node, Runtime!Times
    <2> HIDE DEF v
    <2>4. budget' \in [Runtime!Kinds -> Nat] BY <2>1, RuntimeSpendType DEF RuntimeInv, Runtime!Kinds
    <2> QED BY <1>1, <2>1, <2>3, <2>4, ObjectNow, NodeMoved
  <1>4. CASE Runtime!RegressNode
    <2> DEFINE v == [srv.node EXCEPT !.ready = FALSE]
    <2>1. /\ live["node"] /\ Runtime!object([srv EXCEPT !.node = v]) /\ Runtime!Spend("Regress")
          /\ UNCHANGED <<chain, live>>
      BY <1>4, ObjectNow DEF Runtime!RegressNode, Runtime!Objects
    <2>2. v \in Runtime!Node /\ v.at = srv.node.at /\ v.rolled = srv.node.rolled /\ v.term = srv.node.term
      BY <1>1 DEF Runtime!Node
    <2> HIDE DEF v
    <2>3. budget' \in [Runtime!Kinds -> Nat] BY <2>1, RuntimeSpendType DEF RuntimeInv, Runtime!Kinds
    <2> QED BY <1>1, <2>1, <2>2, <2>3, ObjectNow, NodeMoved
  <1>5. CASE Runtime!RollNode
    <2> DEFINE v == [srv.node EXCEPT !.term = TRUE, !.ready = FALSE, !.rolled = TRUE]
    <2>1. /\ live["node"] /\ Runtime!object([srv EXCEPT !.node = v]) /\ Runtime!Spend("Roll")
          /\ live' = [live EXCEPT !["node"] = FALSE] /\ UNCHANGED chain
      BY <1>5, ObjectNow DEF Runtime!RollNode, Runtime!Objects
    <2>2. v \in Runtime!Node /\ v.at = srv.node.at /\ v.rolled BY <1>1 DEF Runtime!Node
    <2> HIDE DEF v
    <2>3. budget' \in [Runtime!Kinds -> Nat] BY <2>1, RuntimeSpendType DEF RuntimeInv, Runtime!Kinds
    <2> QED BY <2>1, <2>2, <2>3, ObjectNow, NodeMoved
  <1>6. CASE Runtime!ScaleNode
    <2> DEFINE v == [srv.node EXCEPT !.up = FALSE]
    <2>1. Runtime!object([srv EXCEPT !.node = v]) /\ UNCHANGED <<chain, live, budget>>
      BY <1>6, ObjectNow DEF Runtime!ScaleNode, Runtime!Objects
    <2>2. v \in Runtime!Node /\ v.at = srv.node.at /\ v.rolled = srv.node.rolled /\ v.term = srv.node.term
              /\ ~v.up
      BY <1>1 DEF Runtime!Node
    <2> HIDE DEF v
    <2> QED BY <1>1, <2>1, <2>2, ObjectNow, NodeMoved
  <1>7. CASE Runtime!RecordNode
    <2> DEFINE v == [srv.node EXCEPT !.term = TRUE, !.ready = FALSE]
    <2>1. /\ root.op = "Stopped" /\ ~srv.node.up /\ ~live["node"]
          /\ Runtime!object([srv EXCEPT !.node = v]) /\ UNCHANGED <<chain, live, budget>>
      BY <1>7, ObjectNow DEF Runtime!RecordNode, Runtime!Objects
    <2>2. v \in Runtime!Node /\ v.at = srv.node.at /\ v.rolled = srv.node.rolled /\ v.up = srv.node.up
      BY <1>1 DEF Runtime!Node
    <2> HIDE DEF v
    <2> QED BY <1>1, <2>1, <2>2, ObjectNow, NodeMoved
  <1> QED BY <1>2, <1>3, <1>4, <1>5, <1>6, <1>7

LEMMA RuntimeOtherSteps ==
  ASSUME RuntimeInv, Runtime!Others PROVE RuntimeInv'
  BY UserSteps, QuietSteps, ControlSteps, RecMoved, BtcSteps, WorkerSteps, NodeSteps DEF Runtime!Others

LEMMA RuntimeStep ==
  ASSUME RuntimeInv, [Runtime!Next]_(Runtime!vars) PROVE RuntimeInv'
  <1>1. CASE Runtime!Next BY <1>1, PassSteps, RuntimeOtherSteps DEF Runtime!Next
  <1>2. CASE UNCHANGED Runtime!vars
    <2>1. UNCHANGED <<clock, chain, live, root, srv, cache, pass, held, budget>> BY <1>2 DEF Runtime!vars
    <2>2. Runtime!TypeOK' BY <2>1 DEF RuntimeInv, Runtime!TypeOK
    <2>3. SessionFacts' /\ EndFacts' /\ AckFacts' /\ StampFacts'
      BY <2>1 DEF RuntimeInv, SessionFacts, EndFacts, AckFacts, StampFacts, ControlEnded, NodeEnded
    <2>4. clock <= clock' BY <2>1 DEF RuntimeInv, Runtime!TypeOK
    <2>5. EvidenceFacts' BY <2>1, <2>2, <2>4, FoundBefore DEF RuntimeInv, EvidenceFacts
    <2>6. PassFacts' BY <2>1 DEF RuntimeInv, PassFacts, Fits, PauseSeen, EndSeen, ControlEnded, NodeEnded
    <2> QED BY <2>2, <2>3, <2>5, <2>6 DEF RuntimeInv
  <1> QED BY <1>1, <1>2

LEMMA RuntimeInitially ==
  ASSUME Runtime!Init PROVE RuntimeInv
  <1>1. PICK n \in Nat, e \in {"unlisted", "none"} :
          /\ n <= Runtime!NGates /\ (n > 0 => e = "none")
          /\ chain = IF n = 0 THEN 0 ELSE Ceiling[n]
          /\ root = [Runtime!NoRoot EXCEPT !.gen = 1, !.genesis = n > 0, !.seeded = n > 0, !.index = n,
                                   !.phase = IF n = 0 THEN "" ELSE "Initializing", !.wrk = e]
          /\ srv = [Runtime!NoObjects EXCEPT !.node.known = TRUE, !.node.up = n > 0,
                                     !.btc.proc = IF n = 0 THEN 0 ELSE 1]
          /\ live = [p \in {"ctl", "wrk", "node"} |-> n > 0 /\ p # "wrk"]
    <2>1. budget \in RuntimeCases /\ budget["From"] \in Nat /\ budget["From"] <= Runtime!NGates
      BY RuntimeBounds DEF Runtime!Init, Runtime!Kinds
    <2>2. PICK n \in {budget["From"]}, e \in {"unlisted", "none"} :
            /\ n > 0 => e = "none"
            /\ chain = IF n = 0 THEN 0 ELSE Ceiling[n]
            /\ root = [Runtime!NoRoot EXCEPT !.gen = 1, !.genesis = n > 0, !.seeded = n > 0, !.index = n,
                                     !.phase = IF n = 0 THEN "" ELSE "Initializing", !.wrk = e]
            /\ srv = [Runtime!NoObjects EXCEPT !.node.known = TRUE, !.node.up = n > 0,
                                       !.btc.proc = IF n = 0 THEN 0 ELSE 1]
            /\ live = [p \in {"ctl", "wrk", "node"} |-> n > 0 /\ p # "wrk"]
      BY ZenonT(30) DEF Runtime!Init
    <2>3. n \in Nat /\ n <= Runtime!NGates BY <2>1, <2>2
    <2> QED BY <2>2, <2>3, Zenon
  <1>2. /\ clock = 1 /\ budget \in [Runtime!Kinds -> Nat] /\ pass = Runtime!Idle /\ held = {}
        /\ cache = srv \/ cache = [srv EXCEPT !.node = Runtime!NoObjects.node]
    BY RuntimeBounds DEF Runtime!Init
  <1>3. chain \in Nat
    <2>1. n # 0 => n \in 1 .. Runtime!NGates BY <1>1 DEF Runtime!NGates
    <2> QED BY <1>1, <2>1, RuntimeBounds
  <1>4. /\ root \in Runtime!Root /\ root.gen = 1 /\ root.genesis = (n > 0) /\ root.phase # "Failed"
        /\ root.wrk = e
    <2>1. n \in 0 .. Runtime!NGates BY <1>1 DEF Runtime!NGates
    <2> DEFINE x == n > 0
               q == IF n = 0 THEN "" ELSE "Initializing"
    <2>2. x \in BOOLEAN /\ q \in Runtime!Phases \ {"Failed"} BY DEF Runtime!Phases
    <2>3. root = [Runtime!NoRoot EXCEPT !.gen = 1, !.genesis = x, !.seeded = x, !.index = n, !.phase = q,
              !.wrk = e]
      BY <1>1, Zenon
    <2> HIDE DEF q, x
    <2>4. root = [gen |-> 1, op |-> "Running", deleting |-> FALSE, genesis |-> x, phase |-> q, failed |-> FALSE,
                  seeded |-> x, index |-> n, first |-> 0, wrk |-> e]
      BY <2>3 DEF Runtime!NoRoot
    <2>5. root \in Runtime!Root BY <2>1, <2>2, <2>4 DEF Runtime!Root, Runtime!Times
    <2>6. root.gen = 1 /\ root.genesis = x /\ root.phase = q /\ root.wrk = e BY <2>4, Zenon
    <2> QED BY <2>2, <2>5, <2>6 DEF x
  <1>5. /\ srv \in Runtime!Objects /\ srv.exe = Runtime!NoObjects.exe /\ srv.wrk = Runtime!NoObjects.wrk
        /\ ~srv.btc.term
        /\ ~srv.node.term /\ srv.node.at = 0
    <2>1. PICK u \in BOOLEAN, p \in Nat :
            srv = [Runtime!NoObjects EXCEPT !.node.known = TRUE, !.node.up = u, !.btc.proc = p]
      <3>1. (IF n = 0 THEN 0 ELSE 1) \in Nat /\ (n > 0) \in BOOLEAN OBVIOUS
      <3> QED BY <1>1, <3>1, Zenon
    <2>2. Runtime!NoObjects.btc \in Runtime!Btc /\ Runtime!NoObjects.node \in Runtime!Node
              /\ Runtime!NoObjects \in Runtime!Objects
      BY NothingType DEF Runtime!Objects
    <2>3. [Runtime!NoObjects.btc EXCEPT !.proc = p] \in Runtime!Btc
          /\ [Runtime!NoObjects.node EXCEPT !.known = TRUE, !.up = u] \in Runtime!Node
      BY <2>2 DEF Runtime!Btc, Runtime!Node
    <2>4. srv = [Runtime!NoObjects EXCEPT !.btc = [Runtime!NoObjects.btc EXCEPT !.proc = p],
                                  !.node = [Runtime!NoObjects.node EXCEPT !.known = TRUE, !.up = u]]
      BY <2>1, <2>2 DEF Runtime!Objects
    <2>5. srv \in Runtime!Objects /\ srv.exe = Runtime!NoObjects.exe /\ srv.wrk = Runtime!NoObjects.wrk
          /\ srv.btc = [Runtime!NoObjects.btc EXCEPT !.proc = p]
          /\ srv.node = [Runtime!NoObjects.node EXCEPT !.known = TRUE, !.up = u]
      BY <2>2, <2>3, <2>4 DEF Runtime!Objects
    <2> QED BY <2>2, <2>5, NothingType DEF Runtime!Btc, Runtime!Node
  <1>6. /\ cache \in Runtime!Objects /\ cache.exe = Runtime!NoObjects.exe
        /\ cache.wrk = Runtime!NoObjects.wrk /\ ~cache.btc.term
        /\ ~cache.node.term /\ cache.node.at = 0
    BY <1>2, <1>5, NothingType DEF Runtime!Objects
  <1>7. live \in [{"ctl", "wrk", "node"} -> BOOLEAN] /\ ~live["wrk"] BY <1>1
  <1>8. /\ Runtime!NoObjects.wrk.pod = "none" /\ Runtime!NoObjects.exe.ack = 0 /\ ~Runtime!NoObjects.exe.paused
        /\ Runtime!NoObjects.wrk.ack = 0 /\ Runtime!NoObjects.wrk.at = 0
    BY DEF Runtime!NoObjects
  <1>9. pass \in Runtime!PassState /\ pass.pc = "idle" /\ pass.got = Runtime!NoObjects BY <1>2, IdleType
  <1>10. Runtime!TypeOK BY <1>2, <1>3, <1>4, <1>5, <1>6, <1>7, <1>9 DEF Runtime!TypeOK
  <1>11. SessionFacts BY <1>1, <1>4, <1>5, <1>7, <1>8 DEF SessionFacts
  <1>12. EndFacts BY <1>5, <1>6, <1>9, NothingType DEF EndFacts
  <1>13. AckFacts BY <1>4, <1>5, <1>6, <1>8, <1>9 DEF AckFacts
  <1>14. StampFacts BY <1>2, <1>5, <1>6, <1>8, <1>9, NothingType DEF StampFacts
  <1>15. EvidenceFacts /\ PassFacts BY <1>9 DEF EvidenceFacts, PassFacts
  <1> QED BY <1>10, <1>11, <1>12, <1>13, <1>14, <1>15 DEF RuntimeInv

\* Only a pass decides.
LEMMA DecidedByPass ==
  ASSUME RuntimeInv, [Runtime!Next]_(Runtime!vars), ~Runtime!Write
  PROVE  /\ root'.index = root.index /\ root'.failed = root.failed
         /\ root'.phase \in {root.phase, "Initializing"}
  <1>1. root \in Runtime!Root BY DEF RuntimeInv, Runtime!TypeOK
  <1>2. CASE UNCHANGED Runtime!vars BY <1>2 DEF Runtime!vars
  <1>3. CASE Runtime!Pass
    <2>1. UNCHANGED Runtime!world
      BY <1>3
      DEF Runtime!Pass, Runtime!Start, Runtime!ProjectWorkers, Runtime!ProjectDeletion, Runtime!ProjectStop,
          Runtime!ProjectFailure, Runtime!ProjectUncaptured,
         Runtime!ProjectRecords, Runtime!ProjectPreparation, Runtime!TryGates, Runtime!ReadWorker,
         Runtime!ReadNode, Runtime!ConfirmGates, Runtime!ProjectPause,
         Runtime!Unavailable, Runtime!Conflict, Runtime!Only
    <2> QED BY <2>1 DEF Runtime!world
  <1>4. CASE Runtime!Pause
    <2>1. \E v : root' = [[root EXCEPT !.op = v] EXCEPT !.gen = @ + 1] BY <1>4 DEF Runtime!Pause, Runtime!Edit
    <2> QED BY <1>1, <2>1 DEF Runtime!Root
  <1>5. CASE Runtime!Stop
    <2>1. root' = [[root EXCEPT !.op = "Stopped"] EXCEPT !.gen = @ + 1] BY <1>5 DEF Runtime!Stop, Runtime!Edit
    <2> QED BY <1>1, <2>1 DEF Runtime!Root
  <1>6. CASE Runtime!Delete BY <1>1, <1>6 DEF Runtime!Delete, Runtime!Root
  <1>7. CASE Runtime!Capture BY <1>1, <1>7 DEF Runtime!Capture, Runtime!Root
  <1>8. CASE Runtime!Others /\ ~Runtime!Pause /\ ~Runtime!Stop /\ ~Runtime!Delete /\ ~Runtime!Capture
    <2>1. UNCHANGED root
      BY <1>8
      DEF Runtime!Others, Runtime!Tick, Runtime!Sync, Runtime!Arm, Runtime!Receive, Runtime!Exceed,
          Runtime!Beat, Runtime!Rebind, Runtime!EndControl, Runtime!RecordControl, Runtime!Prepare,
         Runtime!StartWorker, Runtime!ReportWorker, Runtime!RegressWorker, Runtime!EndWorker,
         Runtime!LoseWorker, Runtime!StartNode, Runtime!ReportNode, Runtime!RegressNode,
         Runtime!RollNode, Runtime!ScaleNode, Runtime!EndNode, Runtime!RecordNode, Runtime!object
    <2> QED BY <2>1
  <1> QED BY <1>2, <1>3, <1>4, <1>5, <1>6, <1>7, <1>8 DEF Runtime!Next

LEMMA Decided ==
  ASSUME RuntimeInv, Runtime!Write PROVE Runtime!GateDecision /\ Runtime!PhaseDecision
  <1>1. Fits(root, root', held) BY RootFacts DEF Runtime!Write
  <1>2. Runtime!GateDecision BY <1>1 DEF Fits, Runtime!GateDecision
  <1>3. Runtime!PhaseDecision
    <2>1. ASSUME root'.phase = "Paused", root.phase # "Paused"
          PROVE  /\ root.op = "Paused" /\ ~srv.exe.armed /\ srv.exe.paused
                 /\ root.wrk = "bound" => srv.wrk.paused
      <3>1. PauseSeen(root) BY <1>1, <2>1 DEF Fits
      <3>2. srv.exe.ack = root.gen /\ (root.wrk = "bound" => srv.wrk.ack = root.gen)
        <4>1. /\ srv.exe.ack \in Nat /\ srv.wrk.ack \in Nat /\ root.gen \in Nat
              /\ srv.exe.ack <= root.gen /\ srv.wrk.ack <= root.gen
          BY ObjectNow DEF RuntimeInv, AckFacts
        <4> QED BY <3>1, <4>1 DEF PauseSeen
      <3> QED BY <3>1, <3>2 DEF RuntimeInv, AckFacts, PauseSeen
    <2>2. ASSUME root'.phase = "Stopped", root.phase # "Stopped"
          PROVE  /\ ~live["ctl"]
                 /\ live["wrk"] => root'.wrk = "none"
                 /\ live["node"] => srv.node.rolled
      <3>1. EndSeen(root') BY <1>1, <2>2 DEF Fits
      <3>2. ~live["ctl"] /\ (live["node"] => srv.node.rolled) BY <3>1 DEF EndSeen, ControlEnded, NodeEnded
      <3>3. root'.wrk \in {"unlisted", "none", "bound", "ended"} BY RootFacts DEF Runtime!Write, Runtime!Root
      <3>4. live["wrk"] => root'.wrk = "none"
        BY <1>1, <3>1, <3>3 DEF EndSeen, Fits, RuntimeInv, SessionFacts
      <3> QED BY <3>2, <3>4
    <2> QED BY <2>1, <2>2 DEF Runtime!PhaseDecision
  <1> QED BY <1>2, <1>3

\* What a step decides about the gates and the phase is earned.
LEMMA DecisionsEarned ==
  ASSUME RuntimeInv, [Runtime!Next]_(Runtime!vars) PROVE Runtime!GateDecision /\ Runtime!PhaseDecision
  <1>1. CASE Runtime!Write BY <1>1, Decided
  <1>2. CASE ~Runtime!Write
    <2>1. /\ root'.index = root.index /\ root'.failed = root.failed
          /\ root'.phase \in {root.phase, "Initializing"}
      BY <1>2, DecidedByPass
    <2> QED BY <2>1 DEF Runtime!GateDecision, Runtime!PhaseDecision
  <1> QED BY <1>1, <1>2

\* The root, the objects, their copies and the pass keep their types, from any gate on and whatever
\* happens: what a pass writes is a status of the root that it read.
THEOREM RuntimeTypes == Runtime!Spec => []Runtime!TypeOK
  <1>1. RuntimeInv => Runtime!TypeOK BY DEF RuntimeInv
  <1> QED BY <1>1, RuntimeInitially, RuntimeStep, PTL DEF Runtime!Spec

-----------------------------------------------------------------------------
(* The network *)

NetworkInv ==
    /\ scene = "Worker" => Worker!TypeOK /\ Worker!WorkerInv
    /\ scene = "Authority" => Authority!TypeOK /\ AuthorityInv
    /\ scene = "Stacker" => Stacker!StackerInv
    /\ scene = "Health" => HealthInv
    /\ scene = "Base" => FoundationInv
    /\ scene = "Runtime" => RuntimeInv

LEMMA Initially ==
  ASSUME Init PROVE NetworkInv
  <1> USE NetworkAssumption
  <1>1. CASE WorkerInit BY <1>1, Worker!InitInv DEF WorkerInit, NetworkInv
  <1>2. CASE AuthorityInit BY <1>2, AuthorityInitially DEF AuthorityInit, NetworkInv
  <1>3. CASE StackerInit BY <1>3, Stacker!Initially DEF StackerInit, NetworkInv
  <1>4. CASE HealthInit BY <1>4, HealthInitially DEF HealthInit, NetworkInv
  <1>5. CASE BaseInit BY <1>5, FoundationInitially DEF BaseInit, NetworkInv
  <1>6. CASE RuntimeInit BY <1>6, RuntimeInitially DEF RuntimeInit, NetworkInv
  <1>7. CASE ContractInit BY <1>7 DEF ContractInit, NetworkInv
  <1> QED BY <1>1, <1>2, <1>3, <1>4, <1>5, <1>6, <1>7 DEF Init

\* A step of the network stays in its scene.
LEMMA SceneKept ==
  ASSUME [Next]_all PROVE scene' = scene
  BY DEF Next, all, WorkerNext, AuthorityNext, StackerNext, ContractNext, RuntimeNext, HealthNext, BaseNext

\* In the scene of a part, a step of the network is one of that part.
LEMMA WorkerScene ==
  ASSUME [Next]_all, scene = "Worker" PROVE [Worker!Next]_(Worker!vars)
  <1>1. CASE UNCHANGED all BY <1>1 DEF all, Worker!vars
  <1>2. CASE Next
    BY <1>2 DEF Next, WorkerNext, AuthorityNext, StackerNext, ContractNext, RuntimeNext, HealthNext, BaseNext
  <1> QED BY <1>1, <1>2

LEMMA AuthorityScene ==
  ASSUME [Next]_all, scene = "Authority" PROVE [Authority!Next]_(Authority!vars)
  <1>1. CASE UNCHANGED all BY <1>1 DEF all, Authority!vars
  <1>2. CASE Next
    BY <1>2 DEF Next, WorkerNext, AuthorityNext, StackerNext, ContractNext, RuntimeNext, HealthNext, BaseNext
  <1> QED BY <1>1, <1>2

LEMMA StackerScene ==
  ASSUME [Next]_all, scene = "Stacker" PROVE [Stacker!Next]_(Stacker!vars)
  <1>1. CASE UNCHANGED all BY <1>1 DEF all, Stacker!vars
  <1>2. CASE Next
    BY <1>2 DEF Next, WorkerNext, AuthorityNext, StackerNext, ContractNext, RuntimeNext, HealthNext, BaseNext
  <1> QED BY <1>1, <1>2

LEMMA HealthScene ==
  ASSUME [Next]_all, scene = "Health" PROVE [Health!Next]_(Health!vars)
  <1>1. CASE UNCHANGED all BY <1>1 DEF all, Health!vars
  <1>2. CASE Next
    BY <1>2 DEF Next, WorkerNext, AuthorityNext, StackerNext, ContractNext, RuntimeNext, HealthNext, BaseNext
  <1> QED BY <1>1, <1>2

LEMMA BaseScene ==
  ASSUME [Next]_all, scene = "Base" PROVE [Base!Next]_(Base!vars)
  <1>1. CASE UNCHANGED all BY <1>1 DEF all, Base!vars
  <1>2. CASE Next
    BY <1>2 DEF Next, WorkerNext, AuthorityNext, StackerNext, ContractNext, RuntimeNext, HealthNext, BaseNext
  <1> QED BY <1>1, <1>2

LEMMA RuntimeScene ==
  ASSUME [Next]_all, scene = "Runtime" PROVE [Runtime!Next]_(Runtime!vars)
  <1>1. CASE UNCHANGED all BY <1>1 DEF all, Runtime!vars
  <1>2. CASE Next
    BY <1>2 DEF Next, WorkerNext, AuthorityNext, StackerNext, ContractNext, RuntimeNext, HealthNext, BaseNext
  <1> QED BY <1>1, <1>2

LEMMA NetworkStep ==
  ASSUME NetworkInv, [Next]_all PROVE NetworkInv'
  <1> USE NetworkAssumption
  <1>1. scene = "Worker" => (Worker!TypeOK /\ Worker!WorkerInv)'
    BY WorkerScene, Worker!TypeStep, Worker!WorkerStep DEF NetworkInv
  <1>2. scene = "Authority" => (Authority!TypeOK /\ AuthorityInv)'
    BY AuthorityScene, AuthorityTypeStep, AuthorityStep DEF NetworkInv
  <1>3. scene = "Stacker" => (Stacker!StackerInv)'
    BY StackerScene, Stacker!NextStep DEF NetworkInv
  <1>4. scene = "Health" => (HealthInv)'
    BY HealthScene, HealthStep DEF NetworkInv
  <1>5. scene = "Base" => (FoundationInv)'
    BY BaseScene, FoundationStep DEF NetworkInv
  <1>6. scene = "Runtime" => (RuntimeInv)'
    BY RuntimeScene, RuntimeStep DEF NetworkInv
  <1> QED BY <1>1, <1>2, <1>3, <1>4, <1>5, <1>6, SceneKept DEF NetworkInv

LEMMA NetworkInvariant == Spec => []NetworkInv
  <1>1. Init => NetworkInv BY Initially
  <1>2. NetworkInv /\ [Next]_all => NetworkInv' BY NetworkStep
  <1> QED BY <1>1, <1>2, PTL DEF Spec

-----------------------------------------------------------------------------
(* The theorems *)

\* A session recorded as Settled left nothing open and its process submits nothing more; one
\* recorded as terminated has no process; the actors of a stopped network go only when no
\* submission is open or the ledger says Unsettled (ProjectSession, Runtime.Reconcile,
\* Reconciler.Reconcile, CheckActorStop).
THEOREM WorkerEnd == Spec => []WorkerEndTrue
  <1>1. NetworkInv => WorkerEndTrue
    BY NetworkAssumption, Worker!EndTrue DEF NetworkInv, WorkerEndTrue
  <1> QED BY <1>1, NetworkInvariant, PTL

\* Only the process of the bound Pod submits, and nothing it has read last forbids what it
\* submits, whatever reads fail meanwhile (Runtime.Reconcile, authorizeInvocation, outage.go).
THEOREM Submissions == Spec => []SubmissionsAuthorised
  <1>1. NetworkInv => SubmissionsAuthorised
    BY SubmissionAuthorised
    DEF NetworkInv, SubmissionsAuthorised, Worker!WorkerInv, Worker!SentInv
  <1> QED BY <1>1, NetworkInvariant, PTL

\* No nonce of a stacker carries two transactions, its counters account for each submission
\* once, and a drained role has nothing that can still execute (NonceStream, Drain).
THEOREM Nonces == Spec => []NoncesExact
  <1>1. NetworkInv => NoncesExact BY Stacker!NoncesTrue DEF NetworkInv, NoncesExact
  <1> QED BY <1>1, NetworkInvariant, PTL

\* However late a transaction executes, the stake is not locked for longer than the policy
\* says (Step of PoX4Role and StackerRole).
THEOREM Lock == Spec => []LockBounded
  <1>1. NetworkInv => LockBounded BY DEF NetworkInv, LockBounded, Stacker!StackerInv
  <1> QED BY <1>1, NetworkInvariant, PTL

\* A height sample that the root publishes was observed by its process at its time
\* (burnchainObservations, retainHeightSample, greatestSample).
THEOREM Samples == Spec => []SamplesTrue
  <1>1. NetworkInv => SamplesTrue
    BY DEF NetworkInv, SamplesTrue, HealthInv, SampleInv, Sampled, Health!SamplesTrue
  <1> QED BY <1>1, NetworkInvariant, PTL

\* A root is called operational only when its own spec, as it stands when the status is
\* written, asks for it and a retained override matched; Initialized is never taken back and
\* rests on a transfer beyond the last ceiling (projectOperation, ValidateSchedulingOverride,
\* postWaterfallObserved).
THEOREM Operation == Spec => OperationEarned
  <1>1. NetworkInv /\ [Next]_all =>
          (scene = "Health" => Health!OperationalDecision /\ Health!InitializedDecision)
    BY HealthScene, DecisionStep DEF NetworkInv
  <1>2. NetworkInv /\ [Next]_all =>
          [scene = "Health" => Health!OperationalDecision /\ Health!InitializedDecision]_<<root, pass>>
    BY <1>1
  <1> QED BY <1>2, NetworkInvariant, PTL DEF Spec, OperationEarned

\* No wake-up of the foundation is lost: at rest, every entry has its instance, its control and
\* its admission, and whatever was withdrawn is going (setupWatches, admissionEvents, report).
THEOREM Rest == Spec => []RestIsConverged
  <1>1. NetworkInv => RestIsConverged
    BY DEF NetworkInv, RestIsConverged, FoundationInv
  <1> QED BY <1>1, NetworkInvariant, PTL

\* The captured policy of an unfinished gate stays admitted through every edit and restart.
\* The network fails only by a loss at the hand of somebody else, or because a participant it
\* had captured was removed from the root before that referred to the capture: this removal
\* the foundation carries out itself (RecoverGenesis, bootstrapPolicyPending, Fail).
THEOREM CapturesKept == Spec => []CaptureKept
  <1>1. NetworkInv => CaptureKept
    BY FoundationKept DEF NetworkInv, CaptureKept
  <1> QED BY <1>1, NetworkInvariant, PTL

\* What a genesis captures is admitted when it does, and was defined during the pass, however
\* far the informer lags (reconcileTopology, resolve).
THEOREM Captures == Spec => CaptureTrue
  <1>1. NetworkInv /\ [Next]_all => (scene = "Base" => Base!CaptureDecision)
    BY BaseScene, CaptureOnly DEF NetworkInv
  <1>2. NetworkInv /\ [Next]_all => [scene = "Base" => Base!CaptureDecision]_genesis
    BY <1>1
  <1> QED BY <1>2, NetworkInvariant, PTL DEF Spec, CaptureTrue

\* Gate decisions are earned: whatever the informers lag and the processes do, a gate completes
\* only on evidence that was in the API server since the pass began, and the network fails only
\* for a loss, a failed preparation, a height beyond the ceiling or an expired gate
\* (reconcileGates, projectGates, projectPreparation).
THEOREM GateDecisions == Spec => GateDecisionsEarned
  <1>1. NetworkInv /\ [Next]_all => (scene = "Runtime" => Runtime!GateDecision)
    BY RuntimeScene, DecisionsEarned DEF NetworkInv
  <1>2. NetworkInv /\ [Next]_all => [scene = "Runtime" => Runtime!GateDecision]_root
    BY <1>1
  <1> QED BY <1>2, NetworkInvariant, PTL DEF Spec, GateDecisionsEarned

\* Paused and Stopped are published only when everything that has to obey does, a node whose Pod
\* was replaced excepted (bitcoinPaused, workersPaused, Reconcile).
THEOREM PhasesPublished == Spec => PhasesTrue
  <1>1. NetworkInv /\ [Next]_all => (scene = "Runtime" => Runtime!PhaseDecision)
    BY RuntimeScene, DecisionsEarned DEF NetworkInv
  <1>2. NetworkInv /\ [Next]_all => [scene = "Runtime" => Runtime!PhaseDecision]_root
    BY <1>1
  <1> QED BY <1>2, NetworkInvariant, PTL DEF Spec, PhasesTrue
=============================================================================

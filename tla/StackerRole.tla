----------------------------- MODULE StackerRole -----------------------------
(***************************************************************************)
(* The Stacks stacker worker (stacksoperation/pox4.go, pox5.go and their   *)
(* observations): direct PoX-4 stake, its extension, the transition to     *)
(* PoX-5, the deployment and registration of the manager contract, PoX-5   *)
(* stake and extension, all through the nonce streams of the holder and of *)
(* the administrator, which are one stream when the accounts are one.      *)
(*                                                                         *)
(* A cycle has two heights, its reward phase and its prepare phase.  An    *)
(* observation is bracketed by two equal chain views, so it is one read of *)
(* the chain; everything else the role reads may be stale when it sends.   *)
(* An observation that is unavailable leaves the role where it is.         *)
(***************************************************************************)
EXTENDS NonceStream, FiniteSets

CONSTANTS LockCycles, Renew,   \* the policy: cycles locked, and left when it renews
          Target4, Target5,    \* frozen cycles the initial cohort has to cover
          Ceiling, Epoch3,     \* heights: enrolment is held, Nakamoto begins
          Epoch4,              \* the cycle PoX-5 starts with
          MaxCycle, MaxTx,     \* bounds: cycles, submissions
          Cases                \* initial cohort, shared account, and what may happen

\* The policy and the bounds are numbers (the CRD validates them as non-negative).
Bounds == LockCycles \in Nat /\ MaxCycle \in Nat /\ MaxTx \in Nat /\ Target4 \in Nat /\ Target5 \in Nat

Kinds == {"Pause", "Amount", "Drop", "Other", "Drain", "Miss"}

VARIABLES
    chain,  \* the canonical chain: height, lock, manager contract, account nonces
    pool,   \* transactions a node holds
    done,   \* transactions the chain has executed, with their outcome
    had,    \* history: 4, 5 once a lock covered the frozen cycle of that contract
    spec,   \* the admitted policy's amount, and whether submissions are held
    role,   \* StackerRole with its PoX4Role and nonce streams
    pass,   \* the step in progress: what it has read and prepared
    drain,  \* what Drain has reported
    env     \* the case, with what may still happen

vars == <<chain, pool, done, had, spec, role, pass, drain, env>>

-----------------------------------------------------------------------------
(* State *)

Accounts == {"holder", "admin"}

NoLock == [kind |-> 0, first |-> 0, end |-> 0, amt |-> 0]

cycle(h) == h \div 2
prepare(h) == h % 2 = 1
contract == IF cycle(chain.h) < Epoch4 THEN 4 ELSE 5

IdlePass == [pc |-> "idle", cycle |-> 0, amt |-> 0, paused |-> FALSE, tx |-> NoTx]

Init ==
    /\ chain = [h |-> 0, lock |-> NoLock, mgr |-> "none", reg |-> FALSE,
                nonce |-> [a \in Accounts |-> 0]]
    /\ pool = {} /\ done = {} /\ had = {}
    /\ spec = [amt |-> 1, paused |-> FALSE]
    /\ role = [stream |-> [a \in Accounts |-> NewStream], goal4 |-> NoTx, goal5 |-> NoTx,
               done4 |-> FALSE, done5 |-> FALSE, failed4 |-> FALSE, failed5 |-> FALSE, five |-> FALSE]
    /\ pass = IdlePass
    /\ drain = "no"
    /\ env \in Cases

\* The participant is one of the cohort whose accounts and signer genesis has frozen.
initial == env.initial

\* NewStackerRole: one account, one stream.
account(admin) == IF admin /\ ~env.shared THEN "admin" ELSE "holder"

Ops == {"enroll4", "extend4", "deploy", "register", "enroll5", "extend5"}

Tx == [id : Nat, acct : Accounts, nonce : Nat, op : Ops, cycle : Nat, first : Nat, end : Nat,
       target : Nat, amt : 0..2]

AnyTx == Tx \cup {NoTx}

Lock == [kind : {0, 4, 5}, first : Nat, end : Nat, amt : 0..2]

Chain == [h : Nat, lock : Lock, mgr : {"none", "ours", "foreign"}, reg : BOOLEAN, nonce : [Accounts -> Nat]]

Stream == [known : BOOLEAN, used : Nat, pend : AnyTx, off : Nat, acc : Nat, rej : Nat,
           unc : Nat, inc : Nat, post : Nat, last : Nat, lastOK : BOOLEAN]

Role == [stream : [Accounts -> Stream], goal4 : AnyTx, goal5 : AnyTx,
         done4 : BOOLEAN, done5 : BOOLEAN, failed4 : BOOLEAN, failed5 : BOOLEAN, five : BOOLEAN]

Pass == [pc : {"idle", "view4", "view5", "account", "send", "post4", "post5", "ack"}, cycle : Nat,
         amt : 0..2, paused : BOOLEAN, tx : AnyTx]

\* The values every variable may take.
TypeOK ==
    /\ chain \in Chain /\ chain.h <= 2 * MaxCycle + 1
    /\ pool \subseteq Tx /\ done \subseteq [id : Nat, acct : Accounts, nonce : Nat, ok : BOOLEAN]
    /\ had \subseteq {4, 5}
    /\ spec \in [amt : 1..2, paused : BOOLEAN]
    /\ role \in Role /\ pass \in Pass
    /\ drain \in {"no", "asked", "settled"}

Spend(k) == env[k] > 0 /\ env' = [env EXCEPT ![k] = @ - 1]

-----------------------------------------------------------------------------
(* The chain (external) *)

worker == <<role, pass, drain>>

Active(lock, h) == lock.kind # 0 /\ cycle(h) < lock.end

Covers(lock) ==
    {k \in {4, 5} : lock.kind = k /\ LET c == IF k = 4 THEN Target4 ELSE Target5
                                     IN  lock.first <= c /\ c < lock.end}

Tick ==
    /\ chain.h < 2 * MaxCycle + 1
    /\ chain' = [chain EXCEPT !.h = @ + 1]
    /\ UNCHANGED <<pool, done, had, spec, worker, env>>

\* The boot contracts: authorizations name the cycle they were signed in.
Succeeds(t) ==
    LET c == cycle(chain.h) IN
    CASE t.op = "enroll4"  -> contract = 4 /\ ~Active(chain.lock, chain.h) /\ t.cycle = c
      [] t.op = "extend4"  -> contract = 4 /\ Active(chain.lock, chain.h) /\ t.cycle = c
      [] t.op = "deploy"   -> chain.mgr = "none"
      [] t.op = "register" -> chain.mgr = "ours"
      [] t.op = "enroll5"  -> contract = 5 /\ ~Active(chain.lock, chain.h) /\ t.cycle = c /\ chain.reg
      [] t.op = "extend5"  -> contract = 5 /\ Active(chain.lock, chain.h) /\ chain.lock.kind = 5 /\ chain.reg

Larger(a, b) == IF a > b THEN a ELSE b

Effect(t) ==
    CASE t.op = "enroll4"  -> [chain EXCEPT !.lock = [kind |-> 4, first |-> t.first, end |-> t.end, amt |-> t.amt]]
      [] t.op = "extend4"  -> [chain EXCEPT !.lock = [chain.lock EXCEPT !.first = Larger(@, cycle(chain.h)),
                                                                      !.end = @ + (t.end - t.target)]]
      [] t.op = "deploy"   -> [chain EXCEPT !.mgr = "ours"]
      [] t.op = "register" -> [chain EXCEPT !.reg = TRUE]
      [] t.op = "enroll5"  -> [chain EXCEPT !.lock = [kind |-> 5, first |-> t.first, end |-> t.end, amt |-> t.amt]]
      [] t.op = "extend5"  -> [chain EXCEPT !.lock = [chain.lock EXCEPT !.end = @ + (t.end - t.target)]]

nextNonce(a) == [chain.nonce EXCEPT ![a] = @ + 1]

\* A transaction executes when its nonce is the account's; others with that nonce are dead.
Execute ==
    \E t \in pool :
        /\ t.nonce = chain.nonce[t.acct]
        /\ LET ok == Succeeds(t)
               after == IF ok THEN Effect(t) ELSE chain
           IN  /\ chain' = [after EXCEPT !.nonce = nextNonce(t.acct)]
               /\ done' = done \cup {[id |-> t.id, acct |-> t.acct, nonce |-> t.nonce, ok |-> ok]}
               /\ had' = had \cup Covers(after.lock)
        /\ pool' = {u \in pool : u.acct # t.acct \/ u.nonce > t.nonce}
        /\ UNCHANGED <<spec, worker, env>>

Drop ==
    /\ Spend("Drop")
    /\ \E t \in pool : pool' = pool \ {t}
    /\ UNCHANGED <<chain, done, had, spec, worker>>

\* Another writer of the account: it uses a nonce, and may deploy under the manager's name.
OtherWriter ==
    /\ Spend("Other")
    /\ \E a \in {account(TRUE), "holder"}, m \in {chain.mgr, "foreign"} :
         /\ m # chain.mgr => chain.mgr = "none" /\ a = account(TRUE)
         /\ chain' = [chain EXCEPT !.nonce = nextNonce(a), !.mgr = m]
         /\ pool' = {u \in pool : u.acct # a \/ u.nonce > chain.nonce[a]}
    /\ UNCHANGED <<done, had, spec, worker>>

\* Pause, resumption, and a policy with another amount.
EditSpec ==
    /\ \/ Spend("Pause") /\ spec' = [spec EXCEPT !.paused = ~@]
       \/ Spend("Amount") /\ spec' = [spec EXCEPT !.amt = 3 - @]
    /\ UNCHANGED <<chain, pool, done, had, worker>>

-----------------------------------------------------------------------------
(* Submission *)

world == <<chain, pool, done, had, spec>>

stream(a) == role.stream[a]
withStream(r, a, s) == [r EXCEPT !.stream = [@ EXCEPT ![a] = s]]
sent == stream("holder").off + stream("admin").off

\* A prepared operation; the nonce follows when the account is read.
Prepared(op, admin, f, e, g) ==
    [id |-> sent + 1, acct |-> account(admin), nonce |-> 0, op |-> op, cycle |-> cycle(chain.h),
     first |-> f, end |-> e, target |-> g, amt |-> pass.amt]

prepareTx(tx) == pass' = [pass EXCEPT !.pc = "account", !.tx = tx]
rest == pass' = IdlePass

\* NonceStream.Offer reads the account; another nonce holds the operation.
ReadAccount ==
    /\ pass.pc = "account"
    /\ LET a == pass.tx.acct
           n == chain.nonce[a]
       IN  /\ role' = withStream(role, a, Initialised(stream(a), n))
           /\ IF mayOffer(stream(a), n)
              THEN pass' = [pass EXCEPT !.pc = "send", !.tx = [@ EXCEPT !.nonce = n]]
              ELSE rest
    /\ UNCHANGED <<world, drain, env>>

\* Authorize withdraws a send under another control view or policy.
Withdraw ==
    /\ pass.pc = "send" /\ (spec.paused \/ spec.amt # pass.amt)
    /\ rest /\ UNCHANGED <<world, role, drain, env>>

\* The goal is kept exactly when the submission is pending.
keepGoal(r, tx) ==
    IF r.stream[tx.acct].pend = NoTx THEN r
    ELSE IF tx.op \in {"enroll4", "extend4"} THEN [r EXCEPT !.goal4 = tx] ELSE [r EXCEPT !.goal5 = tx]

Submit ==
    /\ pass.pc = "send" /\ ~spec.paused /\ spec.amt = pass.amt /\ sent < MaxTx
    /\ \E answer \in {"accepted", "refused", "uncertain"}, arrives \in BOOLEAN :
         /\ answer = "accepted" => arrives
         /\ answer = "refused" => ~arrives
         /\ answer # "accepted" => Spend("Miss")
         /\ answer = "accepted" => UNCHANGED env
         /\ role' = LET a == pass.tx.acct
                     IN  keepGoal(withStream(role, a, Offer(stream(a), pass.tx, answer)), pass.tx)
         /\ pool' = IF arrives /\ pass.tx.nonce >= chain.nonce[pass.tx.acct] THEN pool \cup {pass.tx} ELSE pool
    /\ rest
    /\ UNCHANGED <<chain, done, had, spec, drain>>

-----------------------------------------------------------------------------
(* PoX4Role.Step *)

exists4 == chain.lock.kind = 4 /\ Active(chain.lock, chain.h)

\* observePoX4: the reward set entry of the target cycle is the declared one.
matched4(target, amt) ==
    exists4 /\ chain.lock.first <= target /\ target < chain.lock.end /\ chain.lock.amt = amt

target4 == IF ~initial \/ (role.done4 /\ pass.cycle > Target4) THEN pass.cycle ELSE Target4

learned4 == role.done4 \/ (matched4(target4, pass.amt) /\ (~initial \/ target4 = Target4))

\* The lock ended, or the frozen window was missed.
lost4 == ~exists4 /\ (learned4 \/ (initial /\ cycle(chain.h) + 1 > Target4))

mayEnroll4 ==
    LET first == cycle(chain.h) + 1 IN
    /\ ~exists4 /\ ~lost4 /\ ~Active(chain.lock, chain.h)
    /\ initial => first + LockCycles > Target4 /\ chain.h < Ceiling

\* Faulty variant: every extension adds the whole period.
extension4Blind == LockCycles

\* The cycles that restore the declared lock.
extension4 == LockCycles - (chain.lock.end - Larger(chain.lock.first, cycle(chain.h)))

mayExtend4 ==
    /\ matched4(target4, pass.amt) /\ learned4 /\ chain.h >= Epoch3
    /\ chain.lock.end < Epoch4
    /\ chain.lock.end - cycle(chain.h) <= Renew /\ ~prepare(chain.h)
    /\ chain.lock.end - Larger(chain.lock.first, cycle(chain.h)) < LockCycles

Step4 ==
    /\ pass.pc = "view4"
    /\ IF contract # 4 THEN rest /\ UNCHANGED role
       ELSE /\ role' = [role EXCEPT !.done4 = learned4, !.failed4 = ~pass.paused /\ lost4]
            /\ LET first == cycle(chain.h) + 1 IN
               CASE pass.paused -> rest
                 [] ~pass.paused /\ mayEnroll4 ->
                      prepareTx(Prepared("enroll4", FALSE, first, first + LockCycles,
                                         IF initial THEN target4 ELSE first))
                 [] ~pass.paused /\ mayExtend4 ->
                      prepareTx(Prepared("extend4", FALSE, Larger(chain.lock.first, cycle(chain.h)),
                                         chain.lock.end + extension4, chain.lock.end))
                 [] OTHER -> rest
    /\ UNCHANGED <<world, drain, env>>

-----------------------------------------------------------------------------
(* StackerRole.Step *)

pending4 == role.goal4 # NoTx \/ stream("holder").pend # NoTx

\* Runtime.Reconcile steps no role that has reported a failure.
failed == role.failed4 \/ role.failed5

Begin ==
    /\ pass.pc = "idle" /\ drain = "no" /\ ~failed
    /\ role.goal5 = NoTx /\ (role.five \/ ~pending4)
    /\ LET begun == [pass EXCEPT !.cycle = cycle(chain.h), !.amt = spec.amt, !.paused = spec.paused]
       IN  IF contract = 4 /\ ~role.five
           THEN /\ pass' = [begun EXCEPT !.pc = "view4"] /\ UNCHANGED role
           ELSE /\ contract = 5
                /\ pass' = [begun EXCEPT !.pc = "view5"] /\ role' = [role EXCEPT !.five = TRUE]
    /\ UNCHANGED <<world, drain, env>>

exists5 == chain.lock.kind = 5 /\ Active(chain.lock, chain.h)

matched5(target, amt) ==
    /\ chain.mgr = "ours" /\ chain.reg /\ exists5
    /\ chain.lock.first <= target /\ target < chain.lock.end /\ chain.lock.amt = amt

target5 == IF ~initial \/ (role.done5 /\ pass.cycle > Target5) THEN pass.cycle ELSE Target5

learned5 == role.done5 \/ (matched5(target5, pass.amt) /\ (~initial \/ target5 = Target5))

missed5 == initial /\ ~learned5 /\ cycle(chain.h) >= Target5

\* Absent a lock, the first cycle of a new one must not be behind the frozen cycle.
late5 ==
    LET first == cycle(chain.h) + 1 IN
    /\ ~exists5 /\ initial /\ ~learned5
    /\ first > Target5 \/ first + LockCycles <= Target5

managed == chain.mgr = "ours" /\ chain.reg

mayEnroll5 == managed /\ ~prepare(chain.h) /\ ~exists5 /\ ~late5 /\ ~Active(chain.lock, chain.h)

mayExtend5 ==
    /\ managed /\ ~prepare(chain.h) /\ matched5(target5, pass.amt)
    /\ chain.lock.end - cycle(chain.h) <= Renew
    /\ cycle(chain.h) + 1 + LockCycles > chain.lock.end

Step5 ==
    /\ pass.pc = "view5"
    /\ IF contract # 5 \/ chain.mgr = "foreign" THEN rest /\ UNCHANGED role
       ELSE LET first == cycle(chain.h) + 1
                go == ~missed5 /\ ~pass.paused
            IN  /\ role' = [role EXCEPT !.done5 = learned5,
                                        !.failed5 = missed5 \/ (go /\ managed /\ ~prepare(chain.h) /\ late5)]
                /\ CASE go /\ chain.mgr = "none" -> prepareTx(Prepared("deploy", TRUE, 0, 0, target5))
                     [] go /\ chain.mgr = "ours" /\ ~chain.reg -> prepareTx(Prepared("register", TRUE, 0, 0, target5))
                     [] go /\ mayEnroll5 ->
                          prepareTx(Prepared("enroll5", FALSE, first, first + LockCycles,
                                             IF learned5 \/ ~initial THEN first ELSE target5))
                     [] go /\ mayExtend5 ->
                          prepareTx(Prepared("extend5", FALSE, chain.lock.first, first + LockCycles, chain.lock.end))
                     [] OTHER -> rest
    /\ UNCHANGED <<world, drain, env>>

-----------------------------------------------------------------------------
(* Observation of pending operations: observeGoal of both roles *)

Outcome(tx) == {d.ok : d \in {e \in done : e.id = tx.id}}

\* stream.Observe looks for exactly the pending transaction.
Inclusion(a) ==
    IF stream(a).pend # NoTx /\ Outcome(stream(a).pend) # {}
    THEN Observe(stream(a), Outcome(stream(a).pend) = {TRUE}) ELSE stream(a)

\* Faulty variant: a transaction that is not found counts as rejected.
rejectedAbsent(a) == stream(a).pend # NoTx /\ TRUE \notin Outcome(stream(a).pend)

rejectedNow(a) == stream(a).pend # NoTx /\ Outcome(stream(a).pend) = {FALSE}

\* The transaction is looked up; a rejected one ends the role.
Observe4 ==
    /\ pass.pc = "idle" /\ drain # "settled" /\ ~role.five /\ pending4
    /\ drain = "no" => ~failed
    /\ role' = [withStream(role, "holder", Inclusion("holder")) EXCEPT !.failed4 = @ \/ rejectedNow("holder")]
    /\ pass' = [IdlePass EXCEPT !.pc = IF rejectedNow("holder") THEN "idle" ELSE "post4"]
    /\ UNCHANGED <<world, drain, env>>

\* Settled with the goal: by the public state and the nonce, or by inclusion before.
Settle(a, goal) ==
    LET s == stream(a)
        n == chain.nonce[a]
        r == IF s.pend = NoTx THEN role ELSE withStream(role, a, SettleObserved(s, n))
    IN  IF s.pend # NoTx /\ ~settles(s, n) THEN role
        ELSE IF goal = 4 THEN [r EXCEPT !.goal4 = NoTx, !.done4 = @ \/ role.goal4.op = "enroll4"]
        ELSE [r EXCEPT !.goal5 = NoTx, !.done5 = @ \/ role.goal5.op = "enroll5"]

reached4 ==
    LET g == role.goal4 IN
    contract = 4 /\ matched4(g.target, g.amt) /\ chain.lock.first = g.first /\ chain.lock.end = g.end

Post4 ==
    /\ pass.pc = "post4"
    /\ role' = IF role.goal4 # NoTx /\ reached4 THEN Settle("holder", 4) ELSE role
    /\ pass' = [IdlePass EXCEPT !.pc = IF drain = "no" THEN "ack" ELSE "idle"]
    /\ UNCHANGED <<world, drain, env>>

\* After the transition PoX-4 state is gone: exact successful inclusion closes the goal.
Acknowledge ==
    /\ pass.pc = "ack"
    /\ role' = IF /\ role.goal4 # NoTx /\ stream("holder").pend = NoTx /\ contract = 5
                  /\ stream("holder").lastOK /\ stream("holder").last = role.goal4.id
               THEN [role EXCEPT !.goal4 = NoTx] ELSE role
    /\ rest
    /\ UNCHANGED <<world, drain, env>>

Observe5 ==
    /\ pass.pc = "idle" /\ drain # "settled" /\ role.goal5 # NoTx
    /\ drain = "no" => ~failed
    /\ LET a == role.goal5.acct
       IN  /\ role' = [withStream(role, a, Inclusion(a)) EXCEPT !.failed5 = @ \/ rejectedNow(a)]
           /\ pass' = [IdlePass EXCEPT !.pc = IF rejectedNow(a) THEN "idle" ELSE "post5"]
    /\ UNCHANGED <<world, drain, env>>

reached5 ==
    LET g == role.goal5 IN
    /\ contract = 5
    /\ CASE g.op = "deploy"   -> chain.mgr = "ours"
         [] g.op = "register" -> managed
         [] OTHER -> matched5(g.target, g.amt) /\ chain.lock.first = g.first /\ chain.lock.end = g.end

Post5 ==
    /\ pass.pc = "post5"
    /\ role' = IF reached5 THEN Settle(role.goal5.acct, 5) ELSE role
    /\ rest
    /\ UNCHANGED <<world, drain, env>>

\* The policy does not resolve, an observation, the account or the authorization is
\* unavailable, or funds are missing: the pass ends.
Unavailable4 ==
    /\ pass.pc \in {"view4", "post4"} /\ rest
    /\ UNCHANGED <<world, role, drain, env>>

Unavailable5 ==
    /\ pass.pc \in {"view5", "post5", "account", "send"} /\ rest
    /\ UNCHANGED <<world, role, drain, env>>

-----------------------------------------------------------------------------
(* Drain *)

AskDrain ==
    /\ pass.pc = "idle" /\ drain = "no" /\ Spend("Drain")
    /\ drain' = "asked"
    /\ UNCHANGED <<world, role, pass>>

\* pending counts goals and the streams.
pendingAll == role.goal5 # NoTx \/ pending4 \/ stream("admin").pend # NoTx

Settled ==
    /\ pass.pc = "idle" /\ drain = "asked" /\ ~pendingAll
    /\ drain' = "settled"
    /\ UNCHANGED <<world, role, pass, env>>

-----------------------------------------------------------------------------
Next ==
    \/ Tick \/ Execute \/ Drop \/ OtherWriter \/ EditSpec
    \/ Begin \/ Step4 \/ Step5 \/ ReadAccount \/ Withdraw \/ Submit
    \/ Observe4 \/ Post4 \/ Acknowledge \/ Observe5 \/ Post5 \/ Unavailable4 \/ Unavailable5
    \/ AskDrain \/ Settled

Spec == Init /\ [][Next]_vars

-----------------------------------------------------------------------------
(* Properties *)

\* Whatever answers are lost, the role never has two transactions with one nonce on their
\* way or executed, and the counters it publishes account for each submission exactly once
\* (NonceStream.Offer, Observe, SettleObserved).
NoncesUsedOnce ==
    /\ \A t, u \in pool \cup done : (t.acct = u.acct /\ t.nonce = u.nonce) => t.id = u.id
    /\ \A a \in Accounts : FactsExact(stream(a))

\* However late transactions execute, the stake is never locked for longer than the policy
\* says: LockCycles from the first cycle that still counts under PoX-4, and from the next
\* cycle under PoX-5 (the extension computed by Step of both roles).
LockBounded ==
    LET c == cycle(chain.h) IN
    /\ chain.lock.kind = 4 => chain.lock.end <= Larger(chain.lock.first, c) + LockCycles
    /\ chain.lock.kind = 5 => chain.lock.end <= c + 1 + LockCycles

\* Drain reports settled only when no transaction of the role can still execute.
DrainedIsFinal == drain = "settled" => pool = {}

\* The nonces of a stacker: no two transactions with one, each submission counted once, and
\* none that can still execute after the drain (nonce.go, pox5.go).
NoncesExact == NoncesUsedOnce /\ DrainedIsFinal

\* The role fails only for a fact of the chain: a transaction of its own was executed and
\* rejected, or nothing is on its way and the lock is gone or the frozen cycle never was
\* covered (reasonExecutionRejected, reasonPoX4LockExpired, reasonBootstrapWindowMissed);
\* and it takes a bootstrap enrolment for done only when a lock covered the frozen cycle.
FailureJustified ==
    LET rejected == \E d \in done : ~d.ok IN
    /\ role.failed4 => rejected \/ (pool = {} /\ (~Active(chain.lock, chain.h) \/ 4 \notin had))
    /\ role.failed5 => rejected \/ (pool = {} /\ 5 \notin had)
    /\ initial => (role.done4 => 4 \in had) /\ (role.done5 => 5 \in had)

=============================================================================

----------------------------- MODULE ContractRole -----------------------------
(***************************************************************************)
(* The contract-set worker (stacksoperation/contracts.go and its           *)
(* observation): it deploys the pinned sources one after the other and     *)
(* then initialises the registry, through one nonce stream, and compares   *)
(* what the chain holds with what genesis has frozen.                      *)
(*                                                                         *)
(* An observation is bracketed by equal chain views and is one read; a     *)
(* source of the deployer is absent, the pinned one or another one.        *)
(***************************************************************************)
EXTENDS NonceStream, Sequences, FiniteSets

CONSTANTS Sources, \* the pinned sources, in the order they are deployed
          MaxTx,   \* bound: submissions
          Cases    \* what may happen

Kinds == {"Pause", "Drop", "Other", "Drain", "Miss"}

VARIABLES
    chain, \* the canonical chain: Nakamoto, sources, registry, the deployer's nonce
    pool,  \* transactions a node holds
    done,  \* executed transactions and their outcome
    spec,  \* submissions are held
    role,  \* ContractRole: stream, goal, failed, and the evidence of its last step
    pass,  \* the step in progress
    drain, \* what Drain has reported
    env    \* what may still happen

vars == <<chain, pool, done, spec, role, pass, drain, env>>

Names == {Sources[i] : i \in 1..Len(Sources)}
Registry == "registry"

IdlePass == [pc |-> "idle", paused |-> FALSE, tx |-> NoTx]

Init ==
    /\ chain = [nakamoto |-> FALSE, src |-> [n \in Names |-> "none"], reg |-> "empty", nonce |-> 0]
    /\ pool = {} /\ done = {}
    /\ spec = [paused |-> FALSE]
    /\ role = [stream |-> NewStream, goal |-> NoTx, failed |-> FALSE, said |-> FALSE]
    /\ pass = IdlePass
    /\ drain = "no"
    /\ env \in Cases

\* The values every variable may take.
TypeOK ==
    /\ chain.nakamoto \in BOOLEAN /\ chain.src \in [Names -> {"none", "ours", "other"}]
    /\ chain.reg \in {"empty", "ours", "other"}
    /\ \A t \in pool \cup done : t.id \in 1..MaxTx
    /\ {role.failed, role.said, spec.paused} \subseteq BOOLEAN
    /\ pass.pc \in {"idle", "view", "account", "send", "post"}
    /\ drain \in {"no", "asked", "settled"}

Spend(k) == env[k] > 0 /\ env' = [env EXCEPT ![k] = @ - 1]

-----------------------------------------------------------------------------
(* The chain and other writers (external) *)

worker == <<role, pass, drain>>

Activate ==
    /\ ~chain.nakamoto /\ chain' = [chain EXCEPT !.nakamoto = TRUE]
    /\ UNCHANGED <<pool, done, spec, worker, env>>

complete == \A n \in Names : chain.src[n] # "none"

Execute ==
    \E t \in pool :
        /\ t.nonce = chain.nonce
        /\ LET ok == IF t.op = Registry THEN complete /\ chain.reg = "empty" ELSE chain.src[t.op] = "none"
               after == CASE ok /\ t.op = Registry -> [chain EXCEPT !.reg = "ours"]
                          [] ok /\ t.op # Registry -> [chain EXCEPT !.src[t.op] = "ours"]
                          [] OTHER -> chain
           IN  /\ chain' = [after EXCEPT !.nonce = @ + 1]
               /\ done' = done \cup {[id |-> t.id, nonce |-> t.nonce, ok |-> ok]}
        /\ pool' = {u \in pool : u.nonce > t.nonce}
        /\ UNCHANGED <<spec, worker, env>>

Drop ==
    /\ Spend("Drop") /\ \E t \in pool : pool' = pool \ {t}
    /\ UNCHANGED <<chain, done, spec, worker>>

\* Another writer with the deployer's key: it uses a nonce, alone or to leave its mark.
OtherWriter ==
    /\ Spend("Other")
    /\ \/ chain' = [chain EXCEPT !.nonce = @ + 1]
       \/ \E n \in Names : /\ chain.src[n] = "none"
                           /\ chain' = [chain EXCEPT !.nonce = @ + 1, !.src[n] = "other"]
       \/ chain.reg = "empty" /\ complete /\ chain' = [chain EXCEPT !.nonce = @ + 1, !.reg = "other"]
    /\ pool' = {u \in pool : u.nonce > chain.nonce}
    /\ UNCHANGED <<done, spec, worker>>

EditSpec ==
    /\ Spend("Pause") /\ spec' = [spec EXCEPT !.paused = ~@]
    /\ UNCHANGED <<chain, pool, done, worker>>

-----------------------------------------------------------------------------
(* observeContracts *)

world == <<chain, pool, done, spec>>

\* A source or an established registry that differs from what was captured.
conflict == chain.nakamoto /\ ((\E n \in Names : chain.src[n] = "other") \/ (complete /\ chain.reg = "other"))

\* observeRegistry: the complete set with exactly the captured registry.
observed == chain.nakamoto /\ complete /\ ~conflict /\ chain.reg = "ours"

-----------------------------------------------------------------------------
(* ContractRole.Step *)

rest == pass' = IdlePass

Begin ==
    /\ pass.pc = "idle" /\ drain = "no" /\ ~role.failed /\ role.goal = NoTx
    /\ pass' = [IdlePass EXCEPT !.pc = "view", !.paused = spec.paused]
    /\ role' = [role EXCEPT !.said = FALSE]
    /\ UNCHANGED <<world, drain, env>>

\* The first missing source, then the registry.
wanted ==
    LET missing == {i \in 1..Len(Sources) : chain.src[Sources[i]] = "none"} IN
    IF missing # {} THEN Sources[CHOOSE i \in missing : \A j \in missing : i <= j]
    ELSE IF chain.reg = "empty" THEN Registry ELSE "none"

Step ==
    /\ pass.pc = "view"
    /\ role' = [role EXCEPT !.failed = conflict, !.said = observed]
    /\ pass' = IF conflict \/ ~chain.nakamoto \/ pass.paused \/ wanted = "none" THEN IdlePass
               ELSE [pass EXCEPT !.pc = "account", !.tx = [NoTx EXCEPT !.id = role.stream.off + 1, !.op = wanted]]
    /\ UNCHANGED <<world, drain, env>>

ReadAccount ==
    /\ pass.pc = "account"
    /\ role' = [role EXCEPT !.stream = Initialised(@, chain.nonce)]
    /\ IF mayOffer(role.stream, chain.nonce)
       THEN pass' = [pass EXCEPT !.pc = "send", !.tx.nonce = chain.nonce] ELSE rest
    /\ UNCHANGED <<world, drain, env>>

Submit ==
    /\ pass.pc = "send" /\ ~spec.paused /\ role.stream.off < MaxTx
    /\ \E answer \in {"accepted", "refused", "uncertain"}, arrives \in BOOLEAN :
         /\ answer = "accepted" => arrives /\ UNCHANGED env
         /\ answer = "refused" => ~arrives
         /\ answer # "accepted" => Spend("Miss")
         /\ LET s == Offer(role.stream, pass.tx, answer)
            IN  role' = [role EXCEPT !.stream = s, !.goal = IF s.pend = NoTx THEN NoTx ELSE pass.tx]
         /\ pool' = IF arrives /\ pass.tx.nonce >= chain.nonce THEN pool \cup {pass.tx} ELSE pool
    /\ rest
    /\ UNCHANGED <<chain, done, spec, drain>>

-----------------------------------------------------------------------------
(* ContractRole.observeGoal *)

Outcome == {d.ok : d \in {e \in done : e.id = role.stream.pend.id}}

ObserveGoal ==
    /\ pass.pc = "idle" /\ drain # "settled" /\ role.goal # NoTx
    /\ drain = "no" => ~role.failed
    /\ LET found == role.stream.pend # NoTx /\ Outcome # {}
           rejected == found /\ Outcome = {FALSE}
       IN  /\ role' = [role EXCEPT !.stream = IF found THEN Observe(@, TRUE \in Outcome) ELSE @,
                                   !.failed = @ \/ rejected, !.said = FALSE]
           /\ pass' = [IdlePass EXCEPT !.pc = IF rejected THEN "idle" ELSE "post"]
    /\ UNCHANGED <<world, drain, env>>

\* The public postcondition of the operation.
reached == chain.nakamoto /\ IF role.goal.op = Registry THEN observed ELSE chain.src[role.goal.op] = "ours"

\* Postcondition and nonce settle what was not found by its identifier.
Post ==
    /\ pass.pc = "post"
    /\ LET unsettled == role.stream.pend # NoTx
           ends == ~conflict /\ reached /\ (unsettled => settles(role.stream, chain.nonce))
       IN  role' = [role EXCEPT !.failed = @ \/ conflict, !.said = observed,
                                !.stream = IF ends /\ unsettled THEN SettleObserved(@, chain.nonce) ELSE @,
                                !.goal = IF ends THEN NoTx ELSE @]
    /\ rest
    /\ UNCHANGED <<world, drain, env>>

\* An observation, the account or the authorization is unavailable.
Unavailable ==
    /\ pass.pc \in {"view", "account", "send", "post"} /\ rest
    /\ UNCHANGED <<world, role, drain, env>>

AskDrain ==
    /\ pass.pc = "idle" /\ drain = "no" /\ Spend("Drain")
    /\ drain' = "asked"
    /\ UNCHANGED <<world, role, pass>>

Settled ==
    /\ pass.pc = "idle" /\ drain = "asked" /\ role.goal = NoTx /\ role.stream.pend = NoTx
    /\ drain' = "settled"
    /\ UNCHANGED <<world, role, pass, env>>

-----------------------------------------------------------------------------
Next ==
    \/ Activate \/ Execute \/ Drop \/ OtherWriter \/ EditSpec
    \/ Begin \/ Step \/ ReadAccount \/ Submit \/ ObserveGoal \/ Post \/ Unavailable
    \/ AskDrain \/ Settled

Spec == Init /\ [][Next]_vars

-----------------------------------------------------------------------------
(* Properties *)

\* A worker that is alone on its account neither fails nor deploys anything twice: it fails
\* only when the chain holds a source or a registry of somebody else, and none of its own
\* transactions is rejected otherwise (Step chooses from the observed state, observeGoal
\* keeps the goal until its postcondition is seen); what it publishes as the complete set
\* is on the chain, and what it reports as drained cannot execute any more.
FailsOnlyByOthers ==
    LET foreign == chain.reg = "other" \/ \E n \in Names : chain.src[n] = "other" IN
    /\ role.failed \/ (\E d \in done : ~d.ok) => foreign
    /\ role.said => complete /\ chain.reg # "empty"
    /\ drain = "settled" => pool = {}
    /\ FactsExact(role.stream)

=============================================================================

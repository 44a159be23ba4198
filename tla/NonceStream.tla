----------------------------- MODULE NonceStream -----------------------------
(***************************************************************************)
(* stacksoperation/nonce.go: the ephemeral nonce of one account, which     *)
(* every Stacks role submits through.  A stream holds at most one pending  *)
(* submission; a submission is settled by the inclusion of exactly its     *)
(* transaction or by a postcondition together with the account's nonce,    *)
(* and is never sent again.                                                *)
(*                                                                         *)
(* A transaction is a record with at least the fields id, acct and nonce.  *)
(* Counters stay far below 2^64; the back-off after a refusal only delays. *)
(***************************************************************************)
EXTENDS Naturals

NoTx == [id |-> 0, acct |-> "none", nonce |-> 0, op |-> "none", cycle |-> 0, first |-> 0, end |-> 0,
         target |-> 0, amt |-> 0]

\* The zero NonceStream of a new process; used is the nonce it expects next, once known.
NewStream == [known |-> FALSE, used |-> 0, pend |-> NoTx, off |-> 0, acc |-> 0, rej |-> 0,
              unc |-> 0, inc |-> 0, post |-> 0, last |-> 0, lastOK |-> FALSE]

Pending(s) == IF s.pend = NoTx THEN 0 ELSE 1

\* Observe: only the exact inclusion of the pending transaction counts.
Observe(s, ok) ==
    [s EXCEPT !.inc = @ + 1, !.last = s.pend.id, !.lastOK = ok, !.used = s.pend.nonce + 1, !.pend = NoTx]

\* Offer, first part: the nonce is initialised from the account once.
Initialised(s, nonce) == IF s.known THEN s ELSE [s EXCEPT !.known = TRUE, !.used = nonce]

mayOffer(s, nonce) == s.pend = NoTx /\ Initialised(s, nonce).used = nonce

\* Faulty variant: a lost answer is treated like a refusal.
OfferForgetful(s, tx, answer) ==
    CASE answer = "refused"   -> [s EXCEPT !.off = @ + 1, !.rej = @ + 1]
      [] answer = "uncertain" -> [s EXCEPT !.off = @ + 1, !.rej = @ + 1]
      [] OTHER                -> [s EXCEPT !.off = @ + 1, !.acc = @ + 1, !.pend = tx]

\* Offer, second part: pending is recorded before the only send.
Offer(s, tx, answer) ==
    CASE answer = "refused"   -> [s EXCEPT !.off = @ + 1, !.rej = @ + 1]
      [] answer = "uncertain" -> [s EXCEPT !.off = @ + 1, !.unc = @ + 1, !.pend = tx]
      [] OTHER                -> [s EXCEPT !.off = @ + 1, !.acc = @ + 1, !.pend = tx]

\* SettleObserved: the account has used exactly the pending nonce.
settles(s, nonce) == s.pend # NoTx /\ nonce = s.pend.nonce + 1

SettleObserved(s, nonce) == [s EXCEPT !.post = @ + 1, !.used = nonce, !.pend = NoTx]

\* The published counters account for every submission exactly once.
FactsExact(s) ==
    /\ s.off = s.acc + s.rej + s.unc
    /\ s.off = s.rej + s.inc + s.post + Pending(s)

=============================================================================

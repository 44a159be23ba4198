-------------------------- MODULE StackerRoleProofs --------------------------
(***************************************************************************)
(* Theorems about StackerRole, for any policy, any frozen cycles and       *)
(* epochs, and any sequence of lost answers, dropped transactions, other   *)
(* writers, pauses and edits.                                              *)
(***************************************************************************)
EXTENDS StackerRole, TLAPS

USE DEF worker, world

-----------------------------------------------------------------------------
(* The inductive invariant *)

\* A transaction on its way is the one its stream has pending, with a nonce the account has
\* not used yet: a stream forgets it only when it can no longer execute.
PoolInv == \A t \in pool : stream(t.acct).pend = t /\ t.nonce >= chain.nonce[t.acct]

\* Identities are the numbers of the submissions, so no two transactions share one.
PoolIds ==
    /\ \A t \in pool : t.id <= sent
    /\ \A t, u \in pool : t.id = u.id => t = u

DoneInv ==
    /\ \A d \in done : d.id <= sent /\ d.nonce < chain.nonce[d.acct]
    /\ \A t \in pool, d \in done : t.id # d.id
    /\ \A d, e \in done : d.acct = e.acct /\ d.nonce = e.nonce => d.id = e.id

\* What the pass has prepared is numbered after the last submission, and is sent only
\* through a stream without a pending one.
PassInv ==
    /\ pass.pc \in {"account", "send"} => pass.tx # NoTx /\ pass.tx.id = sent + 1
    /\ pass.pc = "send" => stream(pass.tx.acct).pend = NoTx
    /\ pass.pc = "post5" => role.goal5 # NoTx

StreamInv == \A a \in Accounts : FactsExact(stream(a))

DrainInv == drain = "settled" => pass.pc = "idle" /\ \A a \in Accounts : stream(a).pend = NoTx

NonceInv == PoolInv /\ PoolIds /\ DoneInv /\ PassInv /\ StreamInv /\ DrainInv

\* What a transaction would do to the lock is what the policy says of the lock as it is, and
\* of the cycle the transaction was prepared in.
Fits(t) ==
    /\ t.op \in {"enroll4", "enroll5"} => t.first = t.cycle + 1 /\ t.end = t.first + LockCycles
    /\ t.op = "extend4" => /\ chain.lock.kind = 4 /\ t.target = chain.lock.end /\ t.target < t.end
                           /\ t.end = Larger(chain.lock.first, t.cycle) + LockCycles
    /\ t.op = "extend5" => /\ chain.lock.kind = 5 /\ t.target = chain.lock.end /\ t.target < t.end
                           /\ t.end = t.cycle + 1 + LockCycles

\* Only the holder's transactions touch the lock.
Locks(t) == t.op \in {"enroll4", "extend4", "enroll5", "extend5"}

Sound(t) == (Locks(t) => t.acct = "holder") /\ t.cycle <= cycle(chain.h)

\* The lock cannot move between the preparation of a transaction and its execution: that of
\* the holder's pending one, or of a prepared one while the holder has none pending.
LockInv ==
    /\ \A t \in pool : Sound(t) /\ Fits(t)
    /\ pass.pc \in {"account", "send"} =>
         Sound(pass.tx) /\ (stream("holder").pend = NoTx => Fits(pass.tx))

StackerInv == TypeOK /\ NonceInv /\ LockInv /\ LockBounded

-----------------------------------------------------------------------------
(* Types *)

LEMMA NoTxIsNone == NoTx \notin Tx
  BY DEF NoTx, Tx, Accounts

LEMMA SomeTx == Tx \subseteq AnyTx /\ NoTx \in AnyTx /\ \A t \in AnyTx : t # NoTx => t \in Tx
  BY DEF AnyTx

LEMMA Cycles ==
  ASSUME NEW h \in Nat
  PROVE  cycle(h) \in Nat /\ cycle(h) <= cycle(h + 1)
  BY DEF cycle

LEMMA IdleType == IdlePass \in Pass /\ IdlePass.pc = "idle"
  <1>1. 0 \in 0 .. 2 /\ 0 \in Nat OBVIOUS
  <1> QED BY <1>1, SomeTx, Zenon DEF IdlePass, Pass

LEMMA StreamNumbers ==
  ASSUME NEW s \in Stream
  PROVE  /\ s.off + 1 \in Nat /\ s.acc + 1 \in Nat /\ s.rej + 1 \in Nat /\ s.unc + 1 \in Nat
         /\ s.inc + 1 \in Nat /\ s.post + 1 \in Nat
         /\ s.pend # NoTx => s.pend \in Tx /\ s.pend.id \in Nat /\ s.pend.nonce + 1 \in Nat
  <1>1. /\ s.off + 1 \in Nat /\ s.acc + 1 \in Nat /\ s.rej + 1 \in Nat /\ s.unc + 1 \in Nat
        /\ s.inc + 1 \in Nat /\ s.post + 1 \in Nat
    BY DEF Stream
  <1>2. s.pend # NoTx => s.pend \in Tx BY SomeTx DEF Stream
  <1> QED BY <1>1, <1>2 DEF Tx

LEMMA StreamTypes ==
  ASSUME NEW s \in Stream
  PROVE  /\ \A n \in Nat : Initialised(s, n) \in Stream
         /\ \A ok \in BOOLEAN : s.pend # NoTx => Observe(s, ok) \in Stream
         /\ \A tx \in Tx : \A answer : Offer(s, tx, answer) \in Stream
         /\ \A n \in Nat : SettleObserved(s, n) \in Stream
  <1>1. ASSUME NEW n \in Nat PROVE Initialised(s, n) \in Stream BY DEF Initialised, Stream
  <1>2. ASSUME NEW ok \in BOOLEAN, s.pend # NoTx PROVE Observe(s, ok) \in Stream
    BY <1>2, StreamNumbers, SomeTx, Zenon DEF Observe, Stream
  <1>3. ASSUME NEW tx \in Tx, NEW answer PROVE Offer(s, tx, answer) \in Stream
    <2>1. [s EXCEPT !.off = @ + 1, !.rej = @ + 1] \in Stream
      BY StreamNumbers, Zenon DEF Stream
    <2>2. [s EXCEPT !.off = @ + 1, !.unc = @ + 1, !.pend = tx] \in Stream
      BY StreamNumbers, SomeTx, Zenon DEF Stream
    <2>3. [s EXCEPT !.off = @ + 1, !.acc = @ + 1, !.pend = tx] \in Stream
      BY StreamNumbers, SomeTx, Zenon DEF Stream
    <2> HIDE DEF Stream
    <2> QED BY <2>1, <2>2, <2>3 DEF Offer
  <1>4. ASSUME NEW n \in Nat PROVE SettleObserved(s, n) \in Stream
    BY StreamNumbers, SomeTx, Zenon DEF SettleObserved, Stream
  <1> QED BY <1>1, <1>2, <1>3, <1>4

LEMMA RoleWith ==
  ASSUME NEW r \in Role, NEW a \in Accounts, NEW v \in Stream
  PROVE  /\ r.stream[a] \in Stream
         /\ withStream(r, a, v) \in Role
         /\ withStream(r, a, v).stream = [r.stream EXCEPT ![a] = v]
  BY DEF Role, withStream

LEMMA Fields ==
  ASSUME TypeOK
  PROVE  /\ chain.h \in Nat /\ cycle(chain.h) \in Nat /\ chain.lock \in Lock /\ sent \in Nat
         /\ \A a \in Accounts : chain.nonce[a] \in Nat /\ stream(a) \in Stream
         /\ \A a \in Accounts : stream(a).off \in Nat /\ stream(a).pend \in AnyTx
  <1>1. chain.h \in Nat /\ chain.lock \in Lock /\ \A a \in Accounts : chain.nonce[a] \in Nat
    BY DEF TypeOK, Chain
  <1>2. \A a \in Accounts : stream(a) \in Stream BY DEF TypeOK, Role, stream
  <1>3. \A a \in Accounts : stream(a).off \in Nat /\ stream(a).pend \in AnyTx
    BY <1>2 DEF Stream
  <1>4. sent \in Nat BY <1>3 DEF sent, Accounts
  <1> QED BY <1>1, <1>2, <1>3, <1>4, Cycles

LEMMA AccountType == \A admin \in BOOLEAN : account(admin) \in Accounts
  BY DEF account, Accounts

LEMMA OpNames ==
  /\ "enroll4" \in Ops /\ "extend4" \in Ops /\ "enroll5" \in Ops /\ "extend5" \in Ops
  /\ (\A op \in {"deploy", "register"} : op \in Ops) /\ 0 \in Nat
  BY DEF Ops

LEMMA PreparedFacts ==
  ASSUME TypeOK
  PROVE  /\ sent + 1 \in Nat /\ cycle(chain.h) \in Nat /\ pass.amt \in 0 .. 2
         /\ account(FALSE) = "holder" /\ account(FALSE) \in Accounts /\ account(TRUE) \in Accounts
  <1>1. sent + 1 \in Nat /\ cycle(chain.h) \in Nat BY Fields
  <1>2. pass.amt \in 0 .. 2 BY DEF TypeOK, Pass
  <1>3. account(FALSE) = "holder" /\ account(FALSE) \in Accounts /\ account(TRUE) \in Accounts
    BY DEF account, Accounts
  <1> QED BY <1>1, <1>2, <1>3

-----------------------------------------------------------------------------
(* Nonces: what a step does to the streams *)

LEMMA CoreQuiet ==
  ASSUME NonceInv, UNCHANGED <<chain, pool, done>>, role'.stream = role.stream
  PROVE  /\ PoolInv' /\ PoolIds' /\ DoneInv' /\ StreamInv'
         /\ sent' = sent /\ \A a \in Accounts : stream(a)' = stream(a)
  BY DEF NonceInv, PoolInv, PoolIds, DoneInv, StreamInv, stream, sent

\* A stream forgets its pending transaction only when none of the account is on its way.
LEMMA CoreForgets ==
  ASSUME TypeOK, NonceInv, UNCHANGED <<chain, pool, done>>,
         NEW a \in Accounts, NEW v \in Stream, role'.stream = [role.stream EXCEPT ![a] = v],
         v.off = stream(a).off, FactsExact(v), v.pend = stream(a).pend \/ v.pend = NoTx,
         v.pend # stream(a).pend => \A t \in pool : t.acct # a
  PROVE  /\ PoolInv' /\ PoolIds' /\ DoneInv' /\ StreamInv'
         /\ sent' = sent
         /\ \A b \in Accounts : stream(b)'.pend = stream(b).pend \/ stream(b)'.pend = NoTx
         /\ v.pend = stream(a).pend => \A b \in Accounts : stream(b)'.pend = stream(b).pend
  <1>1. role.stream \in [Accounts -> Stream] BY DEF TypeOK, Role
  <1>2. \A b \in Accounts : role'.stream[b] = IF b = a THEN v ELSE role.stream[b] BY <1>1
  <1>3. \A b \in Accounts : stream(b)' = IF b = a THEN v ELSE stream(b) BY <1>2 DEF stream
  <1>4. \A b \in Accounts : stream(b)'.off = stream(b).off BY <1>3
  <1>5. "holder" \in Accounts /\ "admin" \in Accounts BY DEF Accounts
  <1>6. sent' = sent BY <1>4, <1>5 DEF sent
  <1>7. StreamInv' BY <1>3 DEF StreamInv, NonceInv
  <1>8. \A t \in pool : t.acct \in Accounts BY DEF TypeOK, Tx
  <1>9. PoolInv'
    <2> SUFFICES ASSUME NEW t \in pool
                 PROVE  stream(t.acct)'.pend = t /\ t.nonce >= chain.nonce[t.acct]
      BY DEF PoolInv
    <2>1. stream(t.acct).pend = t /\ t.nonce >= chain.nonce[t.acct] BY DEF NonceInv, PoolInv
    <2>2. stream(t.acct)'.pend = stream(t.acct).pend BY <1>3, <1>8
    <2> QED BY <2>1, <2>2
  <1>10. PoolIds' /\ DoneInv' BY <1>6 DEF NonceInv, PoolIds, DoneInv
  <1>11. /\ \A b \in Accounts : stream(b)'.pend = stream(b).pend \/ stream(b)'.pend = NoTx
         /\ v.pend = stream(a).pend => \A b \in Accounts : stream(b)'.pend = stream(b).pend
    BY <1>3
  <1> QED BY <1>6, <1>7, <1>9, <1>10, <1>11

\* Nonces move on the chain; the streams stay.
LEMMA CoreMoves ==
  ASSUME NonceInv, UNCHANGED <<role, pass, drain>>
  PROVE  /\ PassInv' /\ StreamInv' /\ DrainInv'
         /\ sent' = sent /\ \A a : stream(a)' = stream(a)
  BY DEF NonceInv, PassInv, StreamInv, DrainInv, stream, sent

LEMMA InitialisedKeeps ==
  ASSUME NEW s \in Stream, NEW n \in Nat, FactsExact(s)
  PROVE  /\ Initialised(s, n).off = s.off /\ Initialised(s, n).pend = s.pend
         /\ FactsExact(Initialised(s, n))
  BY DEF Initialised, FactsExact, Pending, Stream

LEMMA ObserveCounts ==
  ASSUME NEW s \in Stream, NEW ok \in BOOLEAN, s.pend # NoTx, FactsExact(s)
  PROVE  /\ Observe(s, ok).off = s.off /\ Observe(s, ok).pend = NoTx
         /\ FactsExact(Observe(s, ok))
  <1> DEFINE v == Observe(s, ok)
  <1>1. /\ v.off = s.off /\ v.acc = s.acc /\ v.rej = s.rej /\ v.unc = s.unc /\ v.inc = s.inc + 1
        /\ v.post = s.post /\ v.pend = NoTx
    BY DEF Observe, Stream
  <1>2. /\ s.off \in Nat /\ s.acc \in Nat /\ s.rej \in Nat /\ s.unc \in Nat /\ s.inc \in Nat /\ s.post \in Nat
    BY DEF Stream
  <1> HIDE DEF v
  <1> QED BY <1>1, <1>2 DEF FactsExact, Pending, v

LEMMA SettleCounts ==
  ASSUME NEW s \in Stream, NEW n \in Nat, s.pend # NoTx, FactsExact(s)
  PROVE  /\ SettleObserved(s, n).off = s.off /\ SettleObserved(s, n).pend = NoTx
         /\ FactsExact(SettleObserved(s, n))
  <1> DEFINE v == SettleObserved(s, n)
  <1>1. /\ v.off = s.off /\ v.acc = s.acc /\ v.rej = s.rej /\ v.unc = s.unc /\ v.inc = s.inc
        /\ v.post = s.post + 1 /\ v.pend = NoTx
    BY DEF SettleObserved, Stream
  <1>2. /\ s.off \in Nat /\ s.acc \in Nat /\ s.rej \in Nat /\ s.unc \in Nat /\ s.inc \in Nat /\ s.post \in Nat
    BY DEF Stream
  <1> HIDE DEF v
  <1> QED BY <1>1, <1>2 DEF FactsExact, Pending, v

LEMMA OfferCounts ==
  ASSUME NEW s \in Stream, NEW tx \in Tx, s.pend = NoTx, FactsExact(s),
         NEW answer \in {"accepted", "refused", "uncertain"}
  PROVE  /\ Offer(s, tx, answer).off = s.off + 1
         /\ Offer(s, tx, answer).pend = IF answer = "refused" THEN NoTx ELSE tx
         /\ FactsExact(Offer(s, tx, answer))
  <1> DEFINE v == Offer(s, tx, answer)
  <1>1. CASE answer = "refused"
    <2>1. v = [s EXCEPT !.off = @ + 1, !.rej = @ + 1] BY <1>1 DEF Offer
    <2>2. /\ v.off = s.off + 1 /\ v.acc = s.acc /\ v.rej = s.rej + 1 /\ v.unc = s.unc /\ v.inc = s.inc
          /\ v.post = s.post /\ v.pend = NoTx
      BY <2>1 DEF Stream
    <2>3. /\ s.off \in Nat /\ s.acc \in Nat /\ s.rej \in Nat /\ s.unc \in Nat /\ s.inc \in Nat /\ s.post \in Nat
      BY DEF Stream
    <2> HIDE DEF v
    <2> QED BY <1>1, <2>2, <2>3 DEF FactsExact, Pending, v
  <1>2. CASE answer = "uncertain"
    <2>1. v = [s EXCEPT !.off = @ + 1, !.unc = @ + 1, !.pend = tx] BY <1>2 DEF Offer
    <2>2. /\ v.off = s.off + 1 /\ v.acc = s.acc /\ v.rej = s.rej /\ v.unc = s.unc + 1 /\ v.inc = s.inc
          /\ v.post = s.post /\ v.pend = tx
      BY <2>1 DEF Stream
    <2>3. /\ s.off \in Nat /\ s.acc \in Nat /\ s.rej \in Nat /\ s.unc \in Nat /\ s.inc \in Nat /\ s.post \in Nat
      BY DEF Stream
    <2>4. tx # NoTx BY NoTxIsNone
    <2> HIDE DEF v
    <2> QED BY <1>2, <2>2, <2>3, <2>4 DEF FactsExact, Pending, v
  <1>3. CASE answer = "accepted"
    <2>1. v = [s EXCEPT !.off = @ + 1, !.acc = @ + 1, !.pend = tx] BY <1>3 DEF Offer
    <2>2. /\ v.off = s.off + 1 /\ v.acc = s.acc + 1 /\ v.rej = s.rej /\ v.unc = s.unc /\ v.inc = s.inc
          /\ v.post = s.post /\ v.pend = tx
      BY <2>1 DEF Stream
    <2>3. /\ s.off \in Nat /\ s.acc \in Nat /\ s.rej \in Nat /\ s.unc \in Nat /\ s.inc \in Nat /\ s.post \in Nat
      BY DEF Stream
    <2>4. tx # NoTx BY NoTxIsNone
    <2> HIDE DEF v
    <2> QED BY <1>3, <2>2, <2>3, <2>4 DEF FactsExact, Pending, v
  <1> QED BY <1>1, <1>2, <1>3

-----------------------------------------------------------------------------
(* Steps of the chain *)

LEMMA TickStep ==
  ASSUME Bounds, StackerInv, Tick
  PROVE  StackerInv'
  <1> USE DEF StackerInv
  <1>1. chain.h \in Nat /\ chain' = [chain EXCEPT !.h = @ + 1] /\ chain.h < 2 * MaxCycle + 1
    BY Fields DEF Tick
  <1>2. UNCHANGED <<pool, done, had, spec, role, pass, drain, env>> BY DEF Tick
  <1>3. /\ chain' \in Chain /\ chain'.h = chain.h + 1 /\ chain'.lock = chain.lock
        /\ chain'.nonce = chain.nonce
    BY <1>1 DEF TypeOK, Chain
  <1>4. chain'.h <= 2 * MaxCycle + 1 BY <1>1, <1>3 DEF Bounds
  <1>5. TypeOK' BY <1>2, <1>3, <1>4 DEF TypeOK
  <1>6. PoolInv' /\ PoolIds' /\ DoneInv'
    BY <1>2, <1>3 DEF NonceInv, PoolInv, PoolIds, DoneInv, stream, sent
  <1>7. NonceInv' BY <1>2, <1>6, CoreMoves DEF NonceInv
  <1>8. cycle(chain.h) \in Nat /\ cycle(chain'.h) \in Nat /\ cycle(chain.h) <= cycle(chain'.h)
    BY <1>1, <1>3, Cycles
  <1>9. \A t \in Tx : (Sound(t) => Sound(t)') /\ (Fits(t) => Fits(t)')
    <2> SUFFICES ASSUME NEW t \in Tx PROVE (Sound(t) => Sound(t)') /\ (Fits(t) => Fits(t)')
      OBVIOUS
    <2>1. t.cycle \in Nat BY DEF Tx
    <2>2. Sound(t) => Sound(t)' BY <2>1, <1>8 DEF Sound, Locks
    <2>3. Fits(t) => Fits(t)' BY <1>3 DEF Fits
    <2> QED BY <2>2, <2>3
  <1>10. pool \subseteq Tx /\ (pass.pc \in {"account", "send"} => pass.tx \in Tx)
    BY SomeTx DEF TypeOK, Pass, NonceInv, PassInv
  <1>11. (\A t \in pool : Sound(t) /\ Fits(t))' BY <1>2, <1>9, <1>10 DEF LockInv
  <1>12. pass.pc \in {"account", "send"} =>
           Sound(pass.tx)' /\ (stream("holder").pend = NoTx => Fits(pass.tx)')
    <2> SUFFICES ASSUME pass.pc \in {"account", "send"}
                 PROVE  Sound(pass.tx)' /\ (stream("holder").pend = NoTx => Fits(pass.tx)')
      OBVIOUS
    <2>1. PICK x \in Tx : x = pass.tx BY <1>10
    <2>2. Sound(x) /\ (stream("holder").pend = NoTx => Fits(x)) BY <2>1 DEF LockInv
    <2>3. Sound(x)' /\ (stream("holder").pend = NoTx => Fits(x)') BY <2>2, <1>9
    <2> QED BY <2>1, <2>3, <1>2
  <1>13. LockInv' BY <1>11, <1>12, <1>2 DEF LockInv, stream
  <1>14. LockBounded'
    <2>1. chain.lock.first \in Nat /\ chain.lock.end \in Nat BY Fields DEF Lock
    <2> QED BY <2>1, <1>3, <1>8 DEF LockBounded, Larger, Bounds
  <1> QED BY <1>5, <1>7, <1>13, <1>14

LEMMA DropStep ==
  ASSUME StackerInv, Drop
  PROVE  StackerInv'
  <1> USE DEF StackerInv
  <1>1. pool' \subseteq pool /\ UNCHANGED <<chain, done, had, spec, role, pass, drain>> BY DEF Drop
  <1>2. TypeOK' BY <1>1 DEF TypeOK
  <1>3. PoolInv' /\ PoolIds' /\ DoneInv'
    BY <1>1 DEF NonceInv, PoolInv, PoolIds, DoneInv, stream, sent
  <1>4. NonceInv' BY <1>1, <1>3, CoreMoves DEF NonceInv
  <1>5. LockInv'
    <2>1. (\A t \in pool : Sound(t) /\ Fits(t))' BY <1>1 DEF LockInv, Sound, Fits, Locks
    <2>2. (pass.pc \in {"account", "send"} =>
             Sound(pass.tx) /\ (stream("holder").pend = NoTx => Fits(pass.tx)))'
      BY <1>1 DEF LockInv, Sound, Fits, Locks, stream
    <2> QED BY <2>1, <2>2 DEF LockInv
  <1>6. LockBounded' BY <1>1 DEF LockBounded
  <1> QED BY <1>2, <1>4, <1>5, <1>6

LEMMA OtherWriterStep ==
  ASSUME StackerInv, OtherWriter
  PROVE  StackerInv'
  <1> USE DEF StackerInv
  <1>1. PICK a \in {account(TRUE), "holder"}, m \in {chain.mgr, "foreign"} :
          /\ chain' = [chain EXCEPT !.nonce = nextNonce(a), !.mgr = m]
          /\ pool' = {u \in pool : u.acct # a \/ u.nonce > chain.nonce[a]}
    BY DEF OtherWriter
  <1>2. UNCHANGED <<done, had, spec, role, pass, drain>> BY DEF OtherWriter
  <1>3. a \in Accounts BY AccountType DEF Accounts
  <1>4. chain \in Chain /\ chain.mgr \in {"none", "ours", "foreign"} BY DEF TypeOK, Chain
  <1>5. chain.nonce \in [Accounts -> Nat] BY <1>4 DEF Chain
  <1>6. /\ chain'.h = chain.h /\ chain'.lock = chain.lock /\ chain'.mgr = m /\ chain'.reg = chain.reg
        /\ chain'.nonce = nextNonce(a)
    BY <1>1, <1>4 DEF Chain
  <1>7. /\ nextNonce(a) \in [Accounts -> Nat]
        /\ \A b \in Accounts : nextNonce(a)[b] = IF b = a THEN chain.nonce[b] + 1 ELSE chain.nonce[b]
    BY <1>3, <1>5 DEF nextNonce
  <1>8. chain' \in Chain BY <1>1, <1>4, <1>7 DEF Chain
  <1>9. pool' \subseteq pool BY <1>1
  <1>10. TypeOK' BY <1>2, <1>6, <1>8, <1>9 DEF TypeOK
  <1>11. \A b \in Accounts : /\ chain'.nonce[b] = IF b = a THEN chain.nonce[b] + 1 ELSE chain.nonce[b]
                             /\ chain.nonce[b] \in Nat
    BY <1>5, <1>6, <1>7
  <1>12. \A u \in pool : u.acct \in Accounts /\ u.nonce \in Nat BY DEF TypeOK, Tx
  <1>13. \A d \in done : d.acct \in Accounts /\ d.nonce \in Nat BY DEF TypeOK
  <1>14. (\A b : stream(b)' = stream(b)) /\ sent' = sent BY <1>2 DEF stream, sent
  <1>15. PoolInv'
    <2> SUFFICES ASSUME NEW u \in pool'
                 PROVE  stream(u.acct)'.pend = u /\ u.nonce >= chain'.nonce[u.acct]
      BY DEF PoolInv
    <2>1. u \in pool /\ (u.acct # a \/ u.nonce > chain.nonce[a]) BY <1>1
    <2>2. stream(u.acct).pend = u /\ u.nonce >= chain.nonce[u.acct] BY <2>1 DEF NonceInv, PoolInv
    <2>3. u.nonce >= chain'.nonce[u.acct] BY <2>1, <2>2, <1>11, <1>12
    <2> QED BY <2>2, <2>3, <1>14
  <1>16. PoolIds' BY <1>9, <1>14 DEF NonceInv, PoolIds
  <1>17. DoneInv'
    <2>1. \A d \in done : d.id <= sent /\ d.nonce < chain'.nonce[d.acct]
      BY <1>11, <1>13 DEF NonceInv, DoneInv
    <2> QED BY <2>1, <1>2, <1>9, <1>14 DEF NonceInv, DoneInv
  <1>18. NonceInv' BY <1>2, <1>15, <1>16, <1>17, CoreMoves DEF NonceInv
  <1>19. LockInv'
    <2>1. (\A t \in pool : Sound(t) /\ Fits(t))' BY <1>6, <1>9 DEF LockInv, Sound, Fits, Locks
    <2>2. (pass.pc \in {"account", "send"} =>
             Sound(pass.tx) /\ (stream("holder").pend = NoTx => Fits(pass.tx)))'
      BY <1>2, <1>6 DEF LockInv, Sound, Fits, Locks, stream
    <2> QED BY <2>1, <2>2 DEF LockInv
  <1>20. LockBounded' BY <1>6 DEF LockBounded
  <1> QED BY <1>10, <1>18, <1>19, <1>20

\* What an executed transaction leaves of the chain: a lock that only the holder's
\* transactions change, and the cycles of it that the policy says.
LEMMA EffectFits ==
  ASSUME Bounds, StackerInv, NEW t \in pool, Succeeds(t)
  PROVE  /\ Effect(t) \in Chain /\ Effect(t).h = chain.h /\ Effect(t).nonce = chain.nonce
         /\ ~Locks(t) => Effect(t).lock = chain.lock
         /\ LET l == Effect(t).lock
            IN  /\ l \in Lock
                /\ l.kind = 4 => l.end <= Larger(l.first, cycle(chain.h)) + LockCycles
                /\ l.kind = 5 => l.end <= cycle(chain.h) + 1 + LockCycles
  <1> DEFINE c == cycle(chain.h)
             k == chain.lock
             e == Effect(t)
  <1>1. t \in Tx /\ Sound(t) /\ Fits(t) BY DEF StackerInv, TypeOK, LockInv
  <1>2. /\ t.first \in Nat /\ t.end \in Nat /\ t.target \in Nat /\ t.cycle \in Nat /\ t.amt \in 0 .. 2
        /\ t.op \in Ops
    BY <1>1 DEF Tx
  <1>3. c \in Nat /\ k \in Lock BY Fields DEF StackerInv
  <1>4. k.kind \in {0, 4, 5} /\ k.first \in Nat /\ k.end \in Nat /\ k.amt \in 0 .. 2 BY <1>3 DEF Lock
  <1>5. chain \in Chain BY DEF StackerInv, TypeOK
  <1>6. /\ k.kind = 4 => k.end <= Larger(k.first, c) + LockCycles
        /\ k.kind = 5 => k.end <= c + 1 + LockCycles
    BY DEF StackerInv, LockBounded
  <1>7. LockCycles \in Nat BY DEF Bounds
  <1>8. CASE t.op = "enroll4"
    <2>1. t.cycle = c BY <1>8 DEF Succeeds
    <2>2. PICK l : l = [kind |-> 4, first |-> t.first, end |-> t.end, amt |-> t.amt] OBVIOUS
    <2>3. l \in Lock /\ l.kind = 4 /\ l.first = t.first /\ l.end = t.end BY <2>2, <1>2 DEF Lock
    <2>4. e = [chain EXCEPT !.lock = l] BY <1>8, <2>2 DEF Effect
    <2>5. e \in Chain /\ e.h = chain.h /\ e.nonce = chain.nonce /\ e.lock = l BY <2>3, <2>4, <1>5 DEF Chain
    <2>6. t.end = t.first + LockCycles BY <1>1, <1>8 DEF Fits
    <2>7. Larger(l.first, c) \in Nat /\ Larger(l.first, c) >= l.first BY <2>3, <1>2, <1>3 DEF Larger
    <2>9. l.end <= Larger(l.first, c) + LockCycles BY <2>3, <2>6, <2>7, <1>2, <1>7
    <2>8. Locks(t) BY <1>8 DEF Locks
    <2> QED BY <2>3, <2>5, <2>8, <2>9
  <1>9. CASE t.op = "enroll5"
    <2>1. t.cycle = c BY <1>9 DEF Succeeds
    <2>2. PICK l : l = [kind |-> 5, first |-> t.first, end |-> t.end, amt |-> t.amt] OBVIOUS
    <2>3. l \in Lock /\ l.kind = 5 /\ l.first = t.first /\ l.end = t.end BY <2>2, <1>2 DEF Lock
    <2>4. e = [chain EXCEPT !.lock = l] BY <1>9, <2>2 DEF Effect
    <2>5. e \in Chain /\ e.h = chain.h /\ e.nonce = chain.nonce /\ e.lock = l BY <2>3, <2>4, <1>5 DEF Chain
    <2>6. t.first = t.cycle + 1 /\ t.end = t.first + LockCycles BY <1>1, <1>9 DEF Fits
    <2>7. l.end <= c + 1 + LockCycles BY <2>1, <2>3, <2>6, <1>2, <1>3, <1>7
    <2>8. Locks(t) BY <1>9 DEF Locks
    <2> QED BY <2>3, <2>5, <2>7, <2>8
  <1>10. CASE t.op = "extend4"
    <2>1. t.cycle = c BY <1>10 DEF Succeeds
    <2>2. /\ k.kind = 4 /\ t.target = k.end /\ t.target < t.end
          /\ t.end = Larger(k.first, t.cycle) + LockCycles
      BY <1>1, <1>10 DEF Fits
    <2>3. k.end + (t.end - t.target) = Larger(k.first, c) + LockCycles BY <2>1, <2>2, <1>2, <1>4
    <2>4. PICK l : l = [k EXCEPT !.first = Larger(@, c), !.end = @ + (t.end - t.target)] OBVIOUS
    <2>5. Larger(k.first, c) \in Nat /\ Larger(k.first, c) + LockCycles \in Nat
      BY <1>3, <1>4, <1>7 DEF Larger
    <2>6. /\ l.kind = 4 /\ l.first = Larger(k.first, c) /\ l.end = Larger(k.first, c) + LockCycles
          /\ l \in Lock
      BY <2>2, <2>3, <2>4, <2>5, <1>3 DEF Lock
    <2>7. e = [chain EXCEPT !.lock = l] BY <1>10, <2>4 DEF Effect
    <2>8. e \in Chain /\ e.h = chain.h /\ e.nonce = chain.nonce /\ e.lock = l BY <2>6, <2>7, <1>5 DEF Chain
    <2>9. l.end <= Larger(l.first, c) + LockCycles BY <2>5, <2>6, <1>3, <1>7 DEF Larger
    <2>10. Locks(t) BY <1>10 DEF Locks
    <2> QED BY <2>6, <2>8, <2>9, <2>10
  <1>11. CASE t.op = "extend5"
    <2>2. /\ k.kind = 5 /\ t.target = k.end /\ t.target < t.end /\ t.end = t.cycle + 1 + LockCycles
      BY <1>1, <1>11 DEF Fits
    <2>3. k.end + (t.end - t.target) = t.end BY <2>2, <1>2, <1>4
    <2>4. PICK l : l = [k EXCEPT !.end = @ + (t.end - t.target)] OBVIOUS
    <2>6. l.kind = 5 /\ l.end = t.end /\ l \in Lock BY <2>2, <2>3, <2>4, <1>2, <1>3 DEF Lock
    <2>7. e = [chain EXCEPT !.lock = l] BY <1>11, <2>4 DEF Effect
    <2>8. e \in Chain /\ e.h = chain.h /\ e.nonce = chain.nonce /\ e.lock = l BY <2>6, <2>7, <1>5 DEF Chain
    <2>9. t.cycle <= c BY <1>1 DEF Sound
    <2>10. l.end <= c + 1 + LockCycles BY <2>2, <2>6, <2>9, <1>2, <1>3, <1>7
    <2>11. Locks(t) BY <1>11 DEF Locks
    <2> QED BY <2>6, <2>8, <2>10, <2>11
  <1>12. CASE t.op = "deploy" \/ t.op = "register"
    <2>1. e = [chain EXCEPT !.mgr = "ours"] \/ e = [chain EXCEPT !.reg = TRUE] BY <1>12 DEF Effect
    <2>2. e \in Chain /\ e.h = chain.h /\ e.nonce = chain.nonce /\ e.lock = k BY <2>1, <1>5 DEF Chain
    <2> QED BY <2>2, <1>3, <1>6
  <1> QED BY <1>2, <1>8, <1>9, <1>10, <1>11, <1>12 DEF Ops

LEMMA SucceedsType ==
  ASSUME TypeOK, NEW t \in Tx
  PROVE  Succeeds(t) \in BOOLEAN
  <1>1. t.op \in Ops BY DEF Tx
  <1>2. chain.reg \in BOOLEAN BY DEF TypeOK, Chain
  <1>3. CASE t.op \in {"enroll4", "extend4"} BY <1>3 DEF Succeeds
  <1>4. CASE t.op \in {"deploy", "register"} BY <1>4 DEF Succeeds
  <1>5. CASE t.op \in {"enroll5", "extend5"} BY <1>2, <1>5 DEF Succeeds
  <1> QED BY <1>1, <1>3, <1>4, <1>5 DEF Ops

LEMMA ExecuteStep ==
  ASSUME Bounds, StackerInv, Execute
  PROVE  StackerInv'
  <1> USE DEF StackerInv
  <1>1. PICK t \in pool :
          /\ t.nonce = chain.nonce[t.acct]
          /\ LET after == IF Succeeds(t) THEN Effect(t) ELSE chain
             IN  /\ chain' = [after EXCEPT !.nonce = nextNonce(t.acct)]
                 /\ done' = done \cup {[id |-> t.id, acct |-> t.acct, nonce |-> t.nonce, ok |-> Succeeds(t)]}
                 /\ had' = had \cup Covers(after.lock)
          /\ pool' = {u \in pool : u.acct # t.acct \/ u.nonce > t.nonce}
    BY DEF Execute
  <1>2. UNCHANGED <<spec, role, pass, drain, env>> BY DEF Execute
  <1>3. PICK after : after = IF Succeeds(t) THEN Effect(t) ELSE chain OBVIOUS
  <1>4. t \in Tx /\ t.acct \in Accounts /\ t.nonce \in Nat /\ t.id \in Nat BY DEF TypeOK, Tx
  <1>5. chain \in Chain /\ chain.lock \in Lock /\ chain.nonce \in [Accounts -> Nat] BY DEF TypeOK, Chain
  <1>6. /\ after \in Chain /\ after.h = chain.h /\ after.nonce = chain.nonce /\ after.lock \in Lock
        /\ ~Locks(t) => after.lock = chain.lock
        /\ after.lock.kind = 4 => after.lock.end <= Larger(after.lock.first, cycle(chain.h)) + LockCycles
        /\ after.lock.kind = 5 => after.lock.end <= cycle(chain.h) + 1 + LockCycles
    <2>1. CASE Succeeds(t) BY <1>3, <2>1, EffectFits
    <2>2. CASE ~Succeeds(t)
      <3>1. after = chain BY <1>3, <2>2
      <3> QED BY <3>1, <1>5 DEF LockBounded
    <2> QED BY <2>1, <2>2
  <1>7. /\ nextNonce(t.acct) \in [Accounts -> Nat]
        /\ \A b \in Accounts : nextNonce(t.acct)[b] =
                                 IF b = t.acct THEN chain.nonce[b] + 1 ELSE chain.nonce[b]
    BY <1>4, <1>5 DEF nextNonce
  <1>8. PICK n : n = nextNonce(t.acct) OBVIOUS
  <1>9. chain' = [after EXCEPT !.nonce = n] BY <1>1, <1>3, <1>8
  <1>10. /\ chain' \in Chain /\ chain'.h = chain.h /\ chain'.lock = after.lock /\ chain'.nonce = n
    BY <1>6, <1>7, <1>8, <1>9 DEF Chain
  <1>11. PICK ok \in BOOLEAN : ok = Succeeds(t) BY <1>4, SucceedsType
  <1>12. PICK d : d = [id |-> t.id, acct |-> t.acct, nonce |-> t.nonce, ok |-> ok] OBVIOUS
  <1>13. done' = done \cup {d} BY <1>1, <1>11, <1>12
  <1>14. /\ d \in [id : Nat, acct : Accounts, nonce : Nat, ok : BOOLEAN]
         /\ d.id = t.id /\ d.acct = t.acct /\ d.nonce = t.nonce
    BY <1>4, <1>12
  <1>15. pool' \subseteq pool BY <1>1
  <1>16. had' \subseteq {4, 5}
    <2>1. Covers(after.lock) \subseteq {4, 5} BY DEF Covers
    <2> QED BY <2>1, <1>1, <1>3 DEF TypeOK
  <1>17. TypeOK' BY <1>2, <1>10, <1>13, <1>14, <1>15, <1>16 DEF TypeOK
  <1>18. \A b \in Accounts : /\ chain'.nonce[b] = IF b = t.acct THEN chain.nonce[b] + 1 ELSE chain.nonce[b]
                             /\ chain.nonce[b] \in Nat
    BY <1>5, <1>7, <1>8, <1>10
  <1>19. \A u \in pool : u.acct \in Accounts /\ u.nonce \in Nat BY DEF TypeOK, Tx
  <1>20. \A e \in done : e.acct \in Accounts /\ e.nonce \in Nat BY DEF TypeOK
  <1>21. (\A b : stream(b)' = stream(b)) /\ sent' = sent BY <1>2 DEF stream, sent
  <1>22. \A u \in pool' : u.acct # t.acct
    <2> SUFFICES ASSUME NEW u \in pool', u.acct = t.acct PROVE FALSE
      OBVIOUS
    <2>1. u \in pool /\ u.nonce > t.nonce BY <1>1
    <2>2. u = t BY <2>1 DEF NonceInv, PoolInv
    <2> QED BY <2>1, <2>2, <1>4
  <1>23. PoolInv'
    <2> SUFFICES ASSUME NEW u \in pool'
                 PROVE  stream(u.acct)'.pend = u /\ u.nonce >= chain'.nonce[u.acct]
      BY DEF PoolInv
    <2>1. stream(u.acct).pend = u /\ u.nonce >= chain.nonce[u.acct] BY <1>15 DEF NonceInv, PoolInv
    <2>2. chain'.nonce[u.acct] = chain.nonce[u.acct] BY <1>15, <1>18, <1>19, <1>22
    <2> QED BY <2>1, <2>2, <1>21
  <1>24. PoolIds' BY <1>15, <1>21 DEF NonceInv, PoolIds
  <1>25. DoneInv'
    <2>1. \A e \in done' : e.id <= sent /\ e.nonce < chain'.nonce[e.acct]
      <3>1. d.id <= sent /\ d.nonce < chain'.nonce[d.acct]
        BY <1>1, <1>4, <1>14, <1>18 DEF NonceInv, PoolIds
      <3>2. \A e \in done : e.id <= sent /\ e.nonce < chain'.nonce[e.acct]
        BY <1>18, <1>20 DEF NonceInv, DoneInv
      <3> QED BY <3>1, <3>2, <1>13
    <2>2. \A u \in pool', e \in done' : u.id # e.id
      <3>1. \A u \in pool' : u.id # t.id BY <1>15, <1>22 DEF NonceInv, PoolIds
      <3> QED BY <3>1, <1>13, <1>14, <1>15 DEF NonceInv, DoneInv
    <2>3. \A e, f \in done' : e.acct = f.acct /\ e.nonce = f.nonce => e.id = f.id
      <3>1. \A e \in done : e.acct = d.acct => e.nonce # d.nonce
        BY <1>1, <1>4, <1>14, <1>18, <1>20 DEF NonceInv, DoneInv
      <3> QED BY <3>1, <1>13 DEF NonceInv, DoneInv
    <2> QED BY <2>1, <2>2, <2>3, <1>21 DEF DoneInv
  <1>26. NonceInv' BY <1>2, <1>23, <1>24, <1>25, CoreMoves DEF NonceInv
  <1>27. Locks(t) => t.acct = "holder" /\ stream("holder").pend = t
    BY DEF LockInv, Sound, NonceInv, PoolInv
  <1>28. t # NoTx BY <1>4, NoTxIsNone
  <1>29. LockInv'
    <2>1. ASSUME NEW u \in pool' PROVE (Sound(u) /\ Fits(u))'
      <3>1. u \in pool /\ Sound(u) /\ Fits(u) BY <1>15 DEF LockInv
      <3>2. Sound(u)' BY <3>1, <1>10 DEF Sound, Locks
      <3>3. CASE Locks(t)
        <4>1. ~Locks(u) BY <3>1, <3>3, <1>22, <1>27 DEF Sound
        <4> QED BY <3>2, <4>1 DEF Fits, Locks
      <3>4. CASE ~Locks(t)
        <4>1. chain'.lock = chain.lock BY <3>4, <1>6, <1>10
        <4> QED BY <3>1, <3>2, <4>1 DEF Fits
      <3> QED BY <3>3, <3>4
    <2>2. ASSUME pass.pc \in {"account", "send"} PROVE Sound(pass.tx)'
      BY <2>2, <1>2, <1>10 DEF LockInv, Sound, Locks
    <2>3. ASSUME pass.pc \in {"account", "send"}, stream("holder").pend = NoTx PROVE Fits(pass.tx)'
      <3>1. ~Locks(t) BY <2>3, <1>27, <1>28
      <3>2. chain'.lock = chain.lock BY <3>1, <1>6, <1>10
      <3> QED BY <2>3, <3>2, <1>2 DEF LockInv, Fits
    <2> QED BY <2>1, <2>2, <2>3, <1>2, <1>21 DEF LockInv
  <1>30. LockBounded' BY <1>6, <1>10 DEF LockBounded
  <1> QED BY <1>17, <1>26, <1>29, <1>30

-----------------------------------------------------------------------------
(* Steps of the control plane and of the worker *)

LEMMA EditSpecStep ==
  ASSUME StackerInv, EditSpec
  PROVE  StackerInv'
  <1> USE DEF StackerInv
  <1>1. UNCHANGED <<chain, pool, done, had, role, pass, drain>> BY DEF EditSpec
  <1>2. spec' \in [amt : 1..2, paused : BOOLEAN]
    <2>1. spec \in [amt : 1..2, paused : BOOLEAN] BY DEF TypeOK
    <2>2. CASE spec' = [spec EXCEPT !.paused = ~@] BY <2>1, <2>2
    <2>3. CASE spec' = [spec EXCEPT !.amt = 3 - @] BY <2>1, <2>3
    <2> QED BY <2>2, <2>3 DEF EditSpec
  <1>3. TypeOK' BY <1>1, <1>2 DEF TypeOK
  <1>4. NonceInv' BY <1>1, CoreQuiet, CoreMoves DEF NonceInv
  <1>5. LockInv' BY <1>1 DEF LockInv, Sound, Fits, Locks, stream
  <1>6. LockBounded' BY <1>1 DEF LockBounded
  <1> QED BY <1>3, <1>4, <1>5, <1>6

LEMMA DrainStep ==
  ASSUME StackerInv, AskDrain \/ Settled
  PROVE  StackerInv'
  <1> USE DEF StackerInv
  <1>1. UNCHANGED <<chain, pool, done, had, spec, role, pass>> /\ drain' \in {"asked", "settled"}
    BY DEF AskDrain, Settled
  <1>2. TypeOK' BY <1>1 DEF TypeOK
  <1>3. DrainInv'
    <2>1. CASE AskDrain BY <2>1 DEF AskDrain, DrainInv
    <2>2. CASE Settled
      <3>1. pass.pc = "idle" /\ stream("holder").pend = NoTx /\ stream("admin").pend = NoTx
        BY <2>2 DEF Settled, pendingAll, pending4
      <3> QED BY <3>1, <1>1 DEF DrainInv, Accounts, stream
    <2> QED BY <2>1, <2>2
  <1>4. PassInv' BY <1>1 DEF NonceInv, PassInv, stream, sent
  <1>5. NonceInv' BY <1>1, <1>3, <1>4, CoreQuiet DEF NonceInv
  <1>6. LockInv' BY <1>1 DEF LockInv, Sound, Fits, Locks, stream
  <1>7. LockBounded' BY <1>1 DEF LockBounded
  <1> QED BY <1>2, <1>5, <1>6, <1>7

\* A step of the worker that leaves no transaction prepared.
LEMMA WorkerStep ==
  ASSUME StackerInv, UNCHANGED <<chain, pool, done, had, spec, drain>>,
         role' \in Role, pass' \in Pass, drain # "settled",
         PoolInv', PoolIds', DoneInv', StreamInv',
         pass'.pc \notin {"account", "send"}, pass'.pc = "post5" => role'.goal5 # NoTx
  PROVE  StackerInv'
  <1> USE DEF StackerInv
  <1>1. TypeOK' BY DEF TypeOK
  <1>2. PassInv' /\ DrainInv' BY DEF PassInv, DrainInv
  <1>3. NonceInv' BY <1>2 DEF NonceInv
  <1>4. LockInv' BY DEF LockInv, Sound, Fits, Locks
  <1>5. LockBounded' BY DEF LockBounded
  <1> QED BY <1>1, <1>3, <1>4, <1>5

LEMMA Working ==
  ASSUME StackerInv, pass.pc # "idle"
  PROVE  drain # "settled"
  BY DEF StackerInv, NonceInv, DrainInv

LEMMA RestStep ==
  ASSUME StackerInv, Withdraw \/ Unavailable4 \/ Unavailable5
  PROVE  StackerInv'
  <1>1. UNCHANGED <<chain, pool, done, had, spec, role, drain>> /\ pass' = IdlePass /\ pass.pc # "idle"
    BY DEF Withdraw, Unavailable4, Unavailable5, rest
  <1>2. role' \in Role BY <1>1 DEF StackerInv, TypeOK
  <1>3. PoolInv' /\ PoolIds' /\ DoneInv' /\ StreamInv' BY <1>1, CoreQuiet DEF StackerInv
  <1> QED BY <1>1, <1>2, <1>3, IdleType, Working, WorkerStep

LEMMA BeginStep ==
  ASSUME StackerInv, Begin
  PROVE  StackerInv'
  <1>1. UNCHANGED <<chain, pool, done, had, spec, drain>> /\ drain = "no" BY DEF Begin
  <1>2. PICK pc \in {"view4", "view5"} :
          pass' = [[pass EXCEPT !.cycle = cycle(chain.h), !.amt = spec.amt, !.paused = spec.paused]
                     EXCEPT !.pc = pc]
    BY DEF Begin
  <1>3. role' \in Role /\ role'.stream = role.stream
    <2>1. role \in Role BY DEF StackerInv, TypeOK
    <2>2. role' = role \/ role' = [role EXCEPT !.five = TRUE] BY DEF Begin
    <2> QED BY <2>1, <2>2 DEF Role
  <1>4. pass' \in Pass /\ pass'.pc = pc
    <2>1. pass \in Pass BY DEF StackerInv, TypeOK
    <2>2. cycle(chain.h) \in Nat BY Fields DEF StackerInv
    <2>3. PICK amt \in 0 .. 2 : amt = spec.amt BY DEF StackerInv, TypeOK
    <2>4. PICK paused \in BOOLEAN : paused = spec.paused BY DEF StackerInv, TypeOK
    <2>5. pass' = [pass EXCEPT !.cycle = cycle(chain.h), !.amt = amt, !.paused = paused, !.pc = pc]
      BY <1>2, <2>1, <2>3, <2>4 DEF Pass
    <2> QED BY <2>1, <2>2, <2>5 DEF Pass
  <1>5. PoolInv' /\ PoolIds' /\ DoneInv' /\ StreamInv' BY <1>1, <1>3, CoreQuiet DEF StackerInv
  <1> QED BY <1>1, <1>3, <1>4, <1>5, WorkerStep

\* Observe: a transaction that was found is no longer on its way.
LEMMA InclusionForgets ==
  ASSUME StackerInv, NEW a \in Accounts
  PROVE  /\ Inclusion(a) \in Stream /\ Inclusion(a).off = stream(a).off /\ FactsExact(Inclusion(a))
         /\ Inclusion(a).pend = stream(a).pend \/ Inclusion(a).pend = NoTx
         /\ Inclusion(a).pend # stream(a).pend => \A t \in pool : t.acct # a
  <1>1. stream(a) \in Stream /\ FactsExact(stream(a)) BY Fields DEF StackerInv, NonceInv, StreamInv
  <1>2. CASE stream(a).pend # NoTx /\ Outcome(stream(a).pend) # {}
    <2>1. PICK ok \in BOOLEAN : ok = (Outcome(stream(a).pend) = {TRUE}) OBVIOUS
    <2>2. Inclusion(a) = Observe(stream(a), ok) BY <1>2, <2>1 DEF Inclusion
    <2>3. PICK d \in done : d.id = stream(a).pend.id BY <1>2 DEF Outcome
    <2>4. \A t \in pool : t.acct # a BY <2>3 DEF StackerInv, NonceInv, PoolInv, DoneInv
    <2> QED BY <1>1, <1>2, <2>2, <2>4, StreamTypes, ObserveCounts
  <1>3. CASE ~(stream(a).pend # NoTx /\ Outcome(stream(a).pend) # {})
    <2>1. Inclusion(a) = stream(a) BY <1>3 DEF Inclusion
    <2> QED BY <1>1, <2>1
  <1> QED BY <1>2, <1>3

LEMMA ObserveStep ==
  ASSUME StackerInv, Observe4 \/ Observe5
  PROVE  StackerInv'
  <1>1. UNCHANGED <<chain, pool, done, had, spec, drain>> /\ drain # "settled" BY DEF Observe4, Observe5
  <1>2. role \in Role BY DEF StackerInv, TypeOK
  <1>3. PICK a \in Accounts :
          /\ \/ role' = [withStream(role, a, Inclusion(a)) EXCEPT !.failed4 = @ \/ rejectedNow(a)]
             \/ role' = [withStream(role, a, Inclusion(a)) EXCEPT !.failed5 = @ \/ rejectedNow(a)]
          /\ \/ pass' = [IdlePass EXCEPT !.pc = IF rejectedNow(a) THEN "idle" ELSE "post4"]
             \/ /\ pass' = [IdlePass EXCEPT !.pc = IF rejectedNow(a) THEN "idle" ELSE "post5"]
                /\ role.goal5 # NoTx
    <2>1. CASE Observe4 BY <2>1 DEF Observe4, Accounts
    <2>2. CASE Observe5
      <3>1. role.goal5 # NoTx /\ role.goal5 \in AnyTx BY <2>2, <1>2 DEF Observe5, Role
      <3>2. role.goal5.acct \in Accounts BY <3>1, SomeTx DEF Tx
      <3> QED BY <2>2, <3>1, <3>2 DEF Observe5
    <2> QED BY <2>1, <2>2
  <1>4. PICK v \in Stream : v = Inclusion(a) BY InclusionForgets
  <1>5. PICK r : r = withStream(role, a, v) OBVIOUS
  <1>6. r \in Role /\ r.stream = [role.stream EXCEPT ![a] = v] /\ r.goal5 = role.goal5
    BY <1>2, <1>4, <1>5, RoleWith DEF withStream, Role
  <1>7. PICK b \in BOOLEAN : b = rejectedNow(a) BY DEF rejectedNow
  <1>8. /\ role' = [r EXCEPT !.failed4 = @ \/ b] \/ role' = [r EXCEPT !.failed5 = @ \/ b]
    BY <1>3, <1>4, <1>5, <1>7
  <1>9. role' \in Role /\ role'.stream = [role.stream EXCEPT ![a] = v] /\ role'.goal5 = role.goal5
    <2>1. r.failed4 \in BOOLEAN /\ r.failed5 \in BOOLEAN BY <1>6 DEF Role
    <2>2. PICK c \in BOOLEAN, d \in BOOLEAN : c = (r.failed4 \/ b) /\ d = (r.failed5 \/ b) OBVIOUS
    <2>3. role' = [r EXCEPT !.failed4 = c] \/ role' = [r EXCEPT !.failed5 = d] BY <1>8, <2>2
    <2> QED BY <1>6, <2>3 DEF Role
  <1>10. /\ pass' \in Pass /\ pass'.pc \in {"idle", "post4", "post5"}
         /\ pass'.pc = "post5" => role.goal5 # NoTx
    <2>1. PICK pc \in {"idle", "post4", "post5"} :
            pass' = [IdlePass EXCEPT !.pc = pc] /\ (pc = "post5" => role.goal5 # NoTx)
      <3>1. CASE rejectedNow(a) BY <3>1, <1>3
      <3>2. CASE ~rejectedNow(a) BY <3>2, <1>3
      <3> QED BY <3>1, <3>2
    <2>2. pass' \in Pass /\ pass'.pc = pc BY <2>1, IdleType DEF Pass
    <2> QED BY <2>1, <2>2
  <1>11. PoolInv' /\ PoolIds' /\ DoneInv' /\ StreamInv'
    BY <1>1, <1>4, <1>9, InclusionForgets, CoreForgets DEF StackerInv
  <1> QED BY <1>1, <1>9, <1>10, <1>11, WorkerStep

\* SettleObserved: the account has used the pending nonce, so nothing of it is on its way.
LEMMA SettleForgets ==
  ASSUME StackerInv, NEW a \in Accounts, NEW g \in {4, 5},
         UNCHANGED <<chain, pool, done>>, role' = Settle(a, g)
  PROVE  role' \in Role /\ PoolInv' /\ PoolIds' /\ DoneInv' /\ StreamInv'
  <1> DEFINE s == stream(a)
             n == chain.nonce[a]
  <1>1. role \in Role BY DEF StackerInv, TypeOK
  <1>2. s \in Stream /\ n \in Nat /\ FactsExact(s) BY Fields DEF StackerInv, NonceInv, StreamInv
  <1>3. CASE s.pend # NoTx /\ ~settles(s, n)
    <2>1. role' = role BY <1>3 DEF Settle
    <2> QED BY <1>1, <2>1, CoreQuiet DEF StackerInv
  <1>4. CASE s.pend = NoTx \/ settles(s, n)
    <2>1. PICK v : v = IF s.pend = NoTx THEN s ELSE SettleObserved(s, n) OBVIOUS
    <2>2. /\ v \in Stream /\ v.off = s.off /\ FactsExact(v) /\ (v.pend = s.pend \/ v.pend = NoTx)
          /\ v.pend # s.pend => \A t \in pool : t.acct # a
      <3>1. CASE s.pend = NoTx BY <3>1, <2>1, <1>2
      <3>2. CASE s.pend # NoTx
        <4>1. n = s.pend.nonce + 1 BY <1>4, <3>2 DEF settles
        <4>2. \A t \in pool : t.acct = a => t = s.pend /\ t.nonce >= n
          BY DEF StackerInv, NonceInv, PoolInv
        <4>3. \A t \in pool : t.nonce \in Nat BY DEF StackerInv, TypeOK, Tx
        <4>4. \A t \in pool : t.acct # a BY <4>1, <4>2, <4>3
        <4>5. v = SettleObserved(s, n) BY <3>2, <2>1
        <4> QED BY <4>4, <4>5, <3>2, <1>2, StreamTypes, SettleCounts
      <3> QED BY <3>1, <3>2
    <2>3. PICK r : r = IF s.pend = NoTx THEN role ELSE withStream(role, a, v) OBVIOUS
    <2>4. r \in Role /\ r.stream = [role.stream EXCEPT ![a] = v]
      <3>1. CASE s.pend = NoTx
        <4>1. r = role /\ v = role.stream[a] BY <3>1, <2>1, <2>3 DEF stream
        <4> QED BY <4>1, <1>1 DEF Role
      <3>2. CASE s.pend # NoTx BY <3>2, <2>2, <2>3, <1>1, RoleWith
      <3> QED BY <3>1, <3>2
    <2>5. \/ role' = [r EXCEPT !.goal4 = NoTx, !.done4 = @ \/ role.goal4.op = "enroll4"]
          \/ role' = [r EXCEPT !.goal5 = NoTx, !.done5 = @ \/ role.goal5.op = "enroll5"]
      BY <1>4, <2>1, <2>3 DEF Settle, settles
    <2>6. r.done4 \in BOOLEAN /\ r.done5 \in BOOLEAN BY <2>4 DEF Role
    <2>7. PICK c \in BOOLEAN, d \in BOOLEAN :
            c = (r.done4 \/ role.goal4.op = "enroll4") /\ d = (r.done5 \/ role.goal5.op = "enroll5")
      OBVIOUS
    <2>8. role' = [r EXCEPT !.goal4 = NoTx, !.done4 = c] \/ role' = [r EXCEPT !.goal5 = NoTx, !.done5 = d]
      BY <2>5, <2>7
    <2>9. role' \in Role /\ role'.stream = r.stream BY <2>4, <2>8, SomeTx DEF Role
    <2>10. PoolInv' /\ PoolIds' /\ DoneInv' /\ StreamInv' BY <2>2, <2>4, <2>9, CoreForgets DEF StackerInv
    <2> QED BY <2>9, <2>10
  <1> QED BY <1>3, <1>4

LEMMA PostStep ==
  ASSUME StackerInv, Post4 \/ Post5 \/ Acknowledge
  PROVE  StackerInv'
  <1>1. UNCHANGED <<chain, pool, done, had, spec, drain>> /\ pass.pc # "idle"
    BY DEF Post4, Post5, Acknowledge
  <1>2. role \in Role BY DEF StackerInv, TypeOK
  <1>3. pass' \in Pass /\ pass'.pc \in {"idle", "ack"}
    <2>1. PICK pc \in {"idle", "ack"} : pass' = IdlePass \/ pass' = [IdlePass EXCEPT !.pc = pc]
      BY DEF Post4, Post5, Acknowledge, rest
    <2> QED BY <2>1, IdleType DEF Pass
  <1>4. role' \in Role /\ PoolInv' /\ PoolIds' /\ DoneInv' /\ StreamInv'
    <2>1. CASE role' = role BY <2>1, <1>1, <1>2, CoreQuiet DEF StackerInv
    <2>2. CASE role' = [role EXCEPT !.goal4 = NoTx]
      <3>1. role' \in Role /\ role'.stream = role.stream BY <2>2, <1>2, SomeTx DEF Role
      <3> QED BY <3>1, <1>1, CoreQuiet DEF StackerInv
    <2>3. CASE role' = Settle("holder", 4) BY <2>3, <1>1, SettleForgets DEF Accounts
    <2>4. CASE Post5 /\ role' = Settle(role.goal5.acct, 5)
      <3>1. role.goal5 \in AnyTx /\ role.goal5 # NoTx
        BY <2>4, <1>2 DEF Role, Post5, StackerInv, NonceInv, PassInv
      <3>2. role.goal5.acct \in Accounts BY <3>1, SomeTx DEF Tx
      <3> QED BY <2>4, <3>2, <1>1, SettleForgets
    <2> QED BY <2>1, <2>2, <2>3, <2>4 DEF Post4, Post5, Acknowledge
  <1> QED BY <1>1, <1>3, <1>4, Working, WorkerStep

-----------------------------------------------------------------------------
(* Preparation and submission *)

\* A step of the worker that prepares a transaction for the lock as it is.
LEMMA PrepareStep ==
  ASSUME StackerInv, UNCHANGED <<chain, pool, done, had, spec, drain>>, drain # "settled",
         role' \in Role, role'.stream = role.stream,
         NEW tx \in Tx, prepareTx(tx), tx.id = sent + 1, Sound(tx), Fits(tx)
  PROVE  StackerInv'
  <1> USE DEF StackerInv
  <1>1. pass' = [pass EXCEPT !.pc = "account", !.tx = tx] BY DEF prepareTx
  <1>2. pass' \in Pass /\ pass'.pc = "account" /\ pass'.tx = tx BY <1>1, SomeTx DEF TypeOK, Pass
  <1>3. TypeOK' BY <1>2 DEF TypeOK
  <1>4. /\ PoolInv' /\ PoolIds' /\ DoneInv' /\ StreamInv'
        /\ sent' = sent /\ \A a \in Accounts : stream(a)' = stream(a)
    BY CoreQuiet
  <1>5. tx # NoTx BY NoTxIsNone
  <1>6. PassInv' /\ DrainInv' BY <1>2, <1>4, <1>5 DEF PassInv, DrainInv
  <1>7. NonceInv' BY <1>4, <1>6 DEF NonceInv
  <1>8. Sound(tx)' /\ Fits(tx)' BY DEF Sound, Fits, Locks
  <1>9. (\A t \in pool : Sound(t) /\ Fits(t))' BY DEF LockInv, Sound, Fits, Locks
  <1>10. LockInv' BY <1>2, <1>8, <1>9 DEF LockInv
  <1>11. LockBounded' BY DEF LockBounded
  <1> QED BY <1>3, <1>7, <1>10, <1>11

LEMMA SoundNow ==
  ASSUME StackerInv, NEW t \in Tx, t.cycle = cycle(chain.h), Locks(t) => t.acct = "holder"
  PROVE  Sound(t)
  <1>1. cycle(chain.h) \in Nat BY Fields DEF StackerInv
  <1> QED BY <1>1 DEF Sound

LEMMA Step4Step ==
  ASSUME Bounds, StackerInv, Step4
  PROVE  StackerInv'
  <1> DEFINE c == cycle(chain.h)
             k == chain.lock
  <1>1. UNCHANGED <<chain, pool, done, had, spec, drain>> /\ pass.pc = "view4" BY DEF Step4
  <1>2. drain # "settled" BY <1>1, Working
  <1>3. role \in Role /\ pass \in Pass BY DEF StackerInv, TypeOK
  <1>4. role' \in Role /\ role'.stream = role.stream
    <2>1. CASE role' = role BY <2>1, <1>3
    <2>2. CASE role' = [role EXCEPT !.done4 = learned4, !.failed4 = ~pass.paused /\ lost4]
      <3>1. PICK d \in BOOLEAN : d = learned4 BY DEF learned4
      <3>2. PICK f \in BOOLEAN : f = (~pass.paused /\ lost4) OBVIOUS
      <3>3. role' = [role EXCEPT !.done4 = d, !.failed4 = f] BY <2>2, <3>1, <3>2
      <3> QED BY <3>3, <1>3 DEF Role
    <2> QED BY <2>1, <2>2 DEF Step4
  <1>5. c \in Nat /\ c + 1 \in Nat /\ k \in Lock BY Fields DEF StackerInv
  <1>6. k.first \in Nat /\ k.end \in Nat BY <1>5 DEF Lock
  <1>7. LockCycles \in Nat /\ Target4 \in Nat /\ pass.cycle \in Nat BY <1>3 DEF Bounds, Pass
  <1>8. TypeOK BY DEF StackerInv
  <1>9. CASE pass' = IdlePass
    <2>1. PoolInv' /\ PoolIds' /\ DoneInv' /\ StreamInv' BY <1>1, <1>4, CoreQuiet DEF StackerInv
    <2> QED BY <1>1, <1>2, <1>4, <1>9, <2>1, IdleType, WorkerStep
  <1>10. CASE prepareTx(Prepared("enroll4", FALSE, c + 1, c + 1 + LockCycles,
                                 IF initial THEN target4 ELSE c + 1))
    <2>1. PICK g \in Nat : g = IF initial THEN target4 ELSE c + 1 BY <1>5, <1>7 DEF target4
    <2>2. PICK e \in Nat : e = c + 1 + LockCycles BY <1>5, <1>7
    <2>3. PICK f \in Nat : f = c + 1 BY <1>5
    <2>4. PICK tx : tx = Prepared("enroll4", FALSE, f, e, g) OBVIOUS
    <2>5. /\ tx \in Tx /\ tx.id = sent + 1 /\ tx.op = "enroll4" /\ tx.acct = "holder"
          /\ tx.cycle = c /\ tx.first = f /\ tx.end = e
      BY <2>4, <1>8, PreparedFacts, OpNames DEF Prepared, Tx
    <2>6. Sound(tx) BY <2>5, SoundNow
    <2>7. Fits(tx) BY <2>2, <2>3, <2>5 DEF Fits
    <2>8. prepareTx(tx) BY <1>10, <2>1, <2>2, <2>3, <2>4
    <2> QED BY <1>1, <1>2, <1>4, <2>5, <2>6, <2>7, <2>8, PrepareStep
  <1>11. CASE /\ mayExtend4
              /\ prepareTx(Prepared("extend4", FALSE, Larger(k.first, c), k.end + extension4, k.end))
    <2>1. PICK f \in Nat : f = Larger(k.first, c) BY <1>5, <1>6 DEF Larger
    <2>2. k.end - f < LockCycles /\ k.kind = 4 BY <1>11, <2>1 DEF mayExtend4, matched4, exists4
    <2>3. extension4 = LockCycles - (k.end - f) BY <2>1 DEF extension4
    <2>4. PICK e \in Nat : e = k.end + extension4 /\ e = f + LockCycles /\ k.end < e
      BY <2>2, <2>3, <1>6, <1>7
    <2>5. PICK tx : tx = Prepared("extend4", FALSE, f, e, k.end) OBVIOUS
    <2>6. /\ tx \in Tx /\ tx.id = sent + 1 /\ tx.op = "extend4" /\ tx.acct = "holder"
          /\ tx.cycle = c /\ tx.end = e /\ tx.target = k.end
      BY <2>5, <1>6, <1>8, PreparedFacts, OpNames DEF Prepared, Tx
    <2>7. Sound(tx) BY <2>6, SoundNow
    <2>8. Fits(tx) BY <2>1, <2>2, <2>4, <2>6 DEF Fits
    <2>9. prepareTx(tx) BY <1>11, <2>1, <2>4, <2>5
    <2> QED BY <1>1, <1>2, <1>4, <2>6, <2>7, <2>8, <2>9, PrepareStep
  <1> QED BY <1>9, <1>10, <1>11 DEF Step4, rest

LEMMA Step5Step ==
  ASSUME Bounds, StackerInv, Step5
  PROVE  StackerInv'
  <1> DEFINE c == cycle(chain.h)
             k == chain.lock
  <1>1. UNCHANGED <<chain, pool, done, had, spec, drain>> /\ pass.pc = "view5" BY DEF Step5
  <1>2. drain # "settled" BY <1>1, Working
  <1>3. role \in Role /\ pass \in Pass BY DEF StackerInv, TypeOK
  <1>4. role' \in Role /\ role'.stream = role.stream
    <2>1. CASE role' = role BY <2>1, <1>3
    <2>2. CASE \E x : role' = [role EXCEPT !.done5 = learned5, !.failed5 = missed5 \/ x]
      <3>1. PICK d \in BOOLEAN : d = learned5 BY DEF learned5
      <3>2. PICK x : role' = [role EXCEPT !.done5 = learned5, !.failed5 = missed5 \/ x] BY <2>2
      <3>3. PICK f \in BOOLEAN : f = (missed5 \/ x) OBVIOUS
      <3>4. role' = [role EXCEPT !.done5 = d, !.failed5 = f] BY <3>1, <3>2, <3>3
      <3> QED BY <3>4, <1>3 DEF Role
    <2> QED BY <2>1, <2>2 DEF Step5
  <1>5. c \in Nat /\ c + 1 \in Nat /\ k \in Lock BY Fields DEF StackerInv
  <1>6. k.first \in Nat /\ k.end \in Nat BY <1>5 DEF Lock
  <1>7. LockCycles \in Nat /\ target5 \in Nat BY <1>3 DEF Bounds, Pass, target5
  <1>8. TypeOK BY DEF StackerInv
  <1>9. CASE pass' = IdlePass
    <2>1. PoolInv' /\ PoolIds' /\ DoneInv' /\ StreamInv' BY <1>1, <1>4, CoreQuiet DEF StackerInv
    <2> QED BY <1>1, <1>2, <1>4, <1>9, <2>1, IdleType, WorkerStep
  <1>10. CASE \E op \in {"deploy", "register"} : prepareTx(Prepared(op, TRUE, 0, 0, target5))
    <2>1. PICK op \in {"deploy", "register"} : prepareTx(Prepared(op, TRUE, 0, 0, target5)) BY <1>10
    <2>2. PICK tx : tx = Prepared(op, TRUE, 0, 0, target5) OBVIOUS
    <2>3. tx \in Tx /\ tx.id = sent + 1 /\ tx.op = op /\ tx.cycle = c
      BY <2>1, <2>2, <1>7, <1>8, PreparedFacts, OpNames DEF Prepared, Tx
    <2>4. Sound(tx) /\ Fits(tx) BY <2>3, SoundNow DEF Locks, Fits
    <2>5. prepareTx(tx) BY <2>1, <2>2
    <2> QED BY <1>1, <1>2, <1>4, <2>3, <2>4, <2>5, PrepareStep
  <1>11. CASE prepareTx(Prepared("enroll5", FALSE, c + 1, c + 1 + LockCycles,
                                 IF learned5 \/ ~initial THEN c + 1 ELSE target5))
    <2>1. PICK g \in Nat : g = IF learned5 \/ ~initial THEN c + 1 ELSE target5 BY <1>5, <1>7
    <2>2. PICK e \in Nat : e = c + 1 + LockCycles BY <1>5, <1>7
    <2>3. PICK f \in Nat : f = c + 1 BY <1>5
    <2>4. PICK tx : tx = Prepared("enroll5", FALSE, f, e, g) OBVIOUS
    <2>5. /\ tx \in Tx /\ tx.id = sent + 1 /\ tx.op = "enroll5" /\ tx.acct = "holder"
          /\ tx.cycle = c /\ tx.first = f /\ tx.end = e
      BY <2>4, <1>8, PreparedFacts, OpNames DEF Prepared, Tx
    <2>6. Sound(tx) BY <2>5, SoundNow
    <2>7. Fits(tx) BY <2>2, <2>3, <2>5 DEF Fits
    <2>8. prepareTx(tx) BY <1>11, <2>1, <2>2, <2>3, <2>4
    <2> QED BY <1>1, <1>2, <1>4, <2>5, <2>6, <2>7, <2>8, PrepareStep
  <1>12. CASE /\ mayExtend5
              /\ prepareTx(Prepared("extend5", FALSE, k.first, c + 1 + LockCycles, k.end))
    <2>1. PICK e \in Nat : e = c + 1 + LockCycles BY <1>5, <1>7
    <2>2. k.kind = 5 /\ k.end < e BY <1>12, <2>1, <1>6 DEF mayExtend5, matched5, exists5
    <2>3. PICK tx : tx = Prepared("extend5", FALSE, k.first, e, k.end) OBVIOUS
    <2>4. /\ tx \in Tx /\ tx.id = sent + 1 /\ tx.op = "extend5" /\ tx.acct = "holder"
          /\ tx.cycle = c /\ tx.end = e /\ tx.target = k.end
      BY <2>3, <1>6, <1>8, PreparedFacts, OpNames DEF Prepared, Tx
    <2>5. Sound(tx) BY <2>4, SoundNow
    <2>6. Fits(tx) BY <2>1, <2>2, <2>4 DEF Fits
    <2>7. prepareTx(tx) BY <1>12, <2>1, <2>3
    <2> QED BY <1>1, <1>2, <1>4, <2>4, <2>5, <2>6, <2>7, PrepareStep
  <1> QED BY <1>9, <1>10, <1>11, <1>12 DEF Step5, rest

\* The nonce of a prepared transaction is set when the account is read.
LEMMA ReadAccountStep ==
  ASSUME StackerInv, ReadAccount
  PROVE  StackerInv'
  <1>1. UNCHANGED <<chain, pool, done, had, spec, drain>> /\ pass.pc = "account" BY DEF ReadAccount
  <1>2. drain # "settled" BY <1>1, Working
  <1>3. role \in Role /\ pass \in Pass /\ TypeOK BY DEF StackerInv, TypeOK
  <1>4. pass.tx \in Tx /\ pass.tx.id = sent + 1
    BY <1>1, <1>3, SomeTx DEF Pass, StackerInv, NonceInv, PassInv
  <1>5. PICK a \in Accounts : a = pass.tx.acct BY <1>4 DEF Tx
  <1>6. PICK n \in Nat : n = chain.nonce[a] BY <1>3, Fields
  <1>7. stream(a) \in Stream /\ FactsExact(stream(a)) BY <1>3, Fields DEF StackerInv, NonceInv, StreamInv
  <1>8. PICK v \in Stream : v = Initialised(stream(a), n) BY <1>7, StreamTypes
  <1>9. v.off = stream(a).off /\ v.pend = stream(a).pend /\ FactsExact(v)
    BY <1>7, <1>8, InitialisedKeeps
  <1>10. role' = withStream(role, a, v) BY <1>5, <1>6, <1>8 DEF ReadAccount
  <1>11. role' \in Role /\ role'.stream = [role.stream EXCEPT ![a] = v] BY <1>3, <1>10, RoleWith
  <1>12. /\ PoolInv' /\ PoolIds' /\ DoneInv' /\ StreamInv' /\ sent' = sent
         /\ \A b \in Accounts : stream(b)'.pend = stream(b).pend
    BY <1>1, <1>3, <1>9, <1>11, CoreForgets DEF StackerInv
  <1>13. CASE pass' = IdlePass BY <1>1, <1>2, <1>11, <1>12, <1>13, IdleType, WorkerStep
  <1>14. CASE mayOffer(stream(a), n) /\ pass' = [pass EXCEPT !.pc = "send", !.tx = [@ EXCEPT !.nonce = n]]
    <2>1. PICK x : x = [pass.tx EXCEPT !.nonce = n] OBVIOUS
    <2>2. /\ x \in Tx /\ x.id = pass.tx.id /\ x.acct = a /\ x.op = pass.tx.op /\ x.cycle = pass.tx.cycle
          /\ x.first = pass.tx.first /\ x.end = pass.tx.end /\ x.target = pass.tx.target
      BY <2>1, <1>4, <1>5 DEF Tx
    <2>3. pass' = [pass EXCEPT !.pc = "send", !.tx = x] BY <1>14, <2>1
    <2>4. pass' \in Pass /\ pass'.pc = "send" /\ pass'.tx = x BY <2>2, <2>3, <1>3, SomeTx DEF Pass
    <2>5. TypeOK' BY <1>1, <1>3, <1>11, <2>4 DEF TypeOK
    <2>6. stream(a).pend = NoTx BY <1>14 DEF mayOffer
    <2>7. x # NoTx BY <2>2, NoTxIsNone
    <2>8. PassInv'
      <3>1. stream(a)'.pend = NoTx BY <1>12, <2>6
      <3> QED BY <3>1, <2>2, <2>4, <2>7, <1>4, <1>12 DEF PassInv
    <2>9. DrainInv' BY <1>1, <1>2 DEF DrainInv
    <2>10. NonceInv' BY <1>12, <2>8, <2>9 DEF NonceInv
    <2>11. Sound(x)' /\ (stream("holder").pend = NoTx => Fits(x)')
      <3>1. Sound(pass.tx) /\ (stream("holder").pend = NoTx => Fits(pass.tx))
        BY <1>1 DEF StackerInv, LockInv
      <3>2. PICK y : y = pass.tx OBVIOUS
      <3>3. Sound(y) /\ (stream("holder").pend = NoTx => Fits(y)) BY <3>1, <3>2
      <3>4. /\ x.acct = y.acct /\ x.op = y.op /\ x.cycle = y.cycle
            /\ x.first = y.first /\ x.end = y.end /\ x.target = y.target
        BY <2>2, <3>2, <1>5
      <3> QED BY <3>3, <3>4, <1>1 DEF Sound, Fits, Locks
    <2>12. stream("holder")'.pend = stream("holder").pend BY <1>12 DEF Accounts
    <2>13. (\A t \in pool : Sound(t) /\ Fits(t))' BY <1>1 DEF StackerInv, LockInv, Sound, Fits, Locks
    <2>14. LockInv' BY <2>4, <2>11, <2>12, <2>13 DEF LockInv
    <2>15. LockBounded' BY <1>1 DEF StackerInv, LockBounded
    <2> QED BY <2>5, <2>10, <2>14, <2>15 DEF StackerInv
  <1> QED BY <1>5, <1>6, <1>13, <1>14 DEF ReadAccount, rest

LEMMA KeepGoal ==
  ASSUME NEW r \in Role, NEW tx \in Tx
  PROVE  keepGoal(r, tx) \in Role /\ keepGoal(r, tx).stream = r.stream
  BY SomeTx DEF keepGoal, Role

LEMMA SubmitStep ==
  ASSUME StackerInv, Submit
  PROVE  StackerInv'
  <1>1. UNCHANGED <<chain, done, had, spec, drain>> /\ pass.pc = "send" /\ pass' = IdlePass
    BY DEF Submit, rest
  <1>2. drain # "settled" BY <1>1, Working
  <1>3. role \in Role /\ pass \in Pass /\ TypeOK /\ role.stream \in [Accounts -> Stream]
    BY DEF StackerInv, TypeOK, Role
  <1>4. pass.tx \in Tx /\ pass.tx.id = sent + 1 /\ stream(pass.tx.acct).pend = NoTx
    BY <1>1, <1>3, SomeTx DEF Pass, StackerInv, NonceInv, PassInv
  <1>5. PICK x \in Tx : x = pass.tx BY <1>4
  <1>6. PICK a \in Accounts : a = x.acct BY DEF Tx
  <1>7. x.id = sent + 1 /\ stream(a).pend = NoTx /\ x # NoTx BY <1>4, <1>5, <1>6, NoTxIsNone
  <1>8. stream(a) \in Stream /\ FactsExact(stream(a)) BY <1>3, Fields DEF StackerInv, NonceInv, StreamInv
  <1>9. PICK answer \in {"accepted", "refused", "uncertain"}, arrives \in BOOLEAN :
          /\ answer = "refused" => ~arrives
          /\ role' = keepGoal(withStream(role, a, Offer(stream(a), x, answer)), x)
          /\ pool' = IF arrives /\ x.nonce >= chain.nonce[a] THEN pool \cup {x} ELSE pool
    BY <1>5, <1>6 DEF Submit
  <1>10. PICK v \in Stream : v = Offer(stream(a), x, answer) BY <1>8, StreamTypes
  <1>11. v.off = stream(a).off + 1 /\ v.pend = (IF answer = "refused" THEN NoTx ELSE x) /\ FactsExact(v)
    BY <1>7, <1>8, <1>10, OfferCounts
  <1>12. withStream(role, a, v) \in Role /\ withStream(role, a, v).stream = [role.stream EXCEPT ![a] = v]
    BY <1>3, RoleWith
  <1>13. role' \in Role /\ role'.stream = [role.stream EXCEPT ![a] = v]
    BY <1>9, <1>10, <1>12, KeepGoal
  <1>14. \A b \in Accounts : stream(b)' = IF b = a THEN v ELSE stream(b) BY <1>3, <1>13 DEF stream
  <1>15. sent' = sent + 1
    <2>1. /\ stream("holder").off \in Nat /\ stream("admin").off \in Nat
          /\ "holder" \in Accounts /\ "admin" \in Accounts
      BY <1>3, Fields DEF Accounts
    <2>2. a = "holder" \/ a = "admin" BY DEF Accounts
    <2> QED BY <1>11, <1>14, <2>1, <2>2 DEF sent
  <1>16. sent \in Nat BY <1>3, Fields
  <1>17. \A t \in pool : t.acct \in Accounts /\ t.acct # a /\ t.id \in Nat /\ t.id <= sent
    <2>1. pool \subseteq Tx BY <1>3 DEF TypeOK
    <2>2. \A t \in pool : t.acct \in Accounts /\ t.id \in Nat /\ t # NoTx BY <2>1, NoTxIsNone DEF Tx
    <2> QED BY <2>2, <1>7 DEF StackerInv, NonceInv, PoolInv, PoolIds
  <1>18. pool' = pool \/ (pool' = pool \cup {x} /\ v.pend = x /\ x.nonce >= chain.nonce[a])
    BY <1>9, <1>11
  <1>19. TypeOK'
    <2>1. pool' \subseteq Tx BY <1>18, <1>3 DEF TypeOK
    <2> QED BY <2>1, <1>1, <1>3, <1>13, IdleType DEF TypeOK
  <1>20. PoolInv'
    <2>1. \A t \in pool : stream(t.acct)'.pend = t /\ t.nonce >= chain.nonce[t.acct]
      BY <1>14, <1>17 DEF StackerInv, NonceInv, PoolInv
    <2>2. stream(a)'.pend = v.pend BY <1>14
    <2> QED BY <1>1, <1>6, <1>18, <2>1, <2>2 DEF PoolInv
  <1>21. PoolIds' BY <1>7, <1>15, <1>16, <1>17, <1>18 DEF StackerInv, NonceInv, PoolIds
  <1>22. DoneInv'
    <2>1. \A d \in done : d.id \in Nat /\ d.id <= sent BY <1>3 DEF TypeOK, StackerInv, NonceInv, DoneInv
    <2>2. \A t \in pool', d \in done : t.id # d.id
      BY <1>7, <1>16, <1>18, <2>1 DEF StackerInv, NonceInv, DoneInv
    <2>3. \A d \in done : d.id <= sent' BY <2>1, <1>15, <1>16
    <2> QED BY <2>2, <2>3, <1>1 DEF StackerInv, NonceInv, DoneInv
  <1>23. StreamInv' BY <1>11, <1>14 DEF StackerInv, NonceInv, StreamInv
  <1>24. PassInv' /\ DrainInv' BY <1>1, <1>2, IdleType DEF PassInv, DrainInv
  <1>25. NonceInv' BY <1>20, <1>21, <1>22, <1>23, <1>24 DEF NonceInv
  <1>26. Sound(x) /\ Fits(x)
    <2>1. Sound(x) /\ (stream("holder").pend = NoTx => Fits(x)) BY <1>1, <1>5 DEF StackerInv, LockInv
    <2>2. CASE Locks(x) BY <2>1, <2>2, <1>6, <1>7 DEF Sound
    <2>3. CASE ~Locks(x) BY <2>1, <2>3 DEF Locks, Fits
    <2> QED BY <2>2, <2>3
  <1>27. \A t \in pool' : Sound(t) /\ Fits(t) BY <1>18, <1>26 DEF StackerInv, LockInv
  <1>28. LockInv' BY <1>27, <1>1, IdleType DEF LockInv, Sound, Fits, Locks
  <1>29. LockBounded' BY <1>1 DEF StackerInv, LockBounded
  <1> QED BY <1>19, <1>25, <1>28, <1>29 DEF StackerInv

-----------------------------------------------------------------------------
(* Theorems *)

LEMMA Initially ==
  ASSUME Bounds, Init
  PROVE  StackerInv
  <1>1. NewStream \in Stream
    <2>1. 0 \in Nat OBVIOUS
    <2> QED BY <2>1, SomeTx, Zenon DEF NewStream, Stream
  <1>2. PICK n : n = [a \in Accounts |-> 0] OBVIOUS
  <1>3. n \in [Accounts -> Nat] BY <1>2
  <1>4. NoLock \in Lock /\ NoLock.kind = 0 BY DEF NoLock, Lock
  <1>5. chain = [h |-> 0, lock |-> NoLock, mgr |-> "none", reg |-> FALSE, nonce |-> n] BY <1>2 DEF Init
  <1>6. chain \in Chain /\ chain.h = 0 /\ chain.lock = NoLock BY <1>3, <1>4, <1>5 DEF Chain
  <1>7. PICK f : f = [a \in Accounts |-> NewStream] OBVIOUS
  <1>8. f \in [Accounts -> Stream] /\ \A a \in Accounts : f[a] = NewStream BY <1>1, <1>7
  <1>9. role = [stream |-> f, goal4 |-> NoTx, goal5 |-> NoTx, done4 |-> FALSE, done5 |-> FALSE,
                failed4 |-> FALSE, failed5 |-> FALSE, five |-> FALSE]
    BY <1>7 DEF Init
  <1>10. role \in Role /\ role.stream = f BY <1>8, <1>9, SomeTx DEF Role
  <1>11. pass \in Pass /\ pass.pc = "idle" BY IdleType DEF Init
  <1>12. pool = {} /\ done = {} /\ had = {} /\ drain = "no" /\ spec = [amt |-> 1, paused |-> FALSE]
    BY DEF Init
  <1>13. chain.h <= 2 * MaxCycle + 1 BY <1>6 DEF Bounds
  <1>14. TypeOK BY <1>6, <1>10, <1>11, <1>12, <1>13 DEF TypeOK
  <1>15. FactsExact(NewStream) BY DEF FactsExact, Pending, NewStream
  <1>16. NonceInv
    BY <1>8, <1>10, <1>11, <1>12, <1>15
    DEF NonceInv, PoolInv, PoolIds, DoneInv, PassInv, StreamInv, DrainInv, stream
  <1>17. LockInv BY <1>11, <1>12 DEF LockInv
  <1>18. LockBounded BY <1>4, <1>6 DEF LockBounded
  <1> QED BY <1>14, <1>16, <1>17, <1>18 DEF StackerInv

LEMMA NextStep ==
  ASSUME Bounds, StackerInv, [Next]_vars PROVE StackerInv'
  <1>1. CASE Next
    BY <1>1, TickStep, ExecuteStep, DropStep, OtherWriterStep, EditSpecStep, BeginStep, Step4Step,
       Step5Step, ReadAccountStep, RestStep, SubmitStep, ObserveStep, PostStep, DrainStep DEF Next
  <1>2. CASE UNCHANGED vars
    <2>1. UNCHANGED <<chain, pool, done, had, spec, role, pass, drain>> BY <1>2 DEF vars
    <2>2. TypeOK' BY <2>1 DEF StackerInv, TypeOK
    <2>3. NonceInv' BY <2>1, CoreQuiet, CoreMoves DEF StackerInv, NonceInv
    <2>4. LockInv' BY <2>1 DEF StackerInv, LockInv, Sound, Fits, Locks, stream
    <2>5. LockBounded' BY <2>1 DEF StackerInv, LockBounded
    <2> QED BY <2>2, <2>3, <2>4, <2>5 DEF StackerInv
  <1> QED BY <1>1, <1>2

LEMMA StackerInvariant ==
  ASSUME Bounds
  PROVE  Spec => []StackerInv
  <1>1. Init => StackerInv BY Initially
  <1>2. StackerInv /\ [Next]_vars => StackerInv' BY NextStep
  <1> QED BY <1>1, <1>2, PTL DEF Spec

\* The chain, the streams, the role and its step keep to their types.
THEOREM TypeTheorem ==
  ASSUME Bounds
  PROVE  Spec => []TypeOK
  <1>1. StackerInv => TypeOK BY DEF StackerInv
  <1> QED BY <1>1, StackerInvariant, PTL

\* The invariant says that no nonce is used twice, that every submission is counted, and that
\* nothing outlives a drain.
LEMMA NoncesTrue ==
  ASSUME StackerInv PROVE NoncesExact
  <1> USE DEF StackerInv, NonceInv
  <1>1. pool \subseteq Tx BY DEF TypeOK
  <1>2. \A t \in pool : t.acct \in Accounts /\ t.nonce \in Nat /\ t # NoTx BY <1>1, NoTxIsNone DEF Tx
  <1>3. \A d \in done : d.acct \in Accounts /\ d.nonce \in Nat BY DEF TypeOK
  <1>4. \A a \in Accounts : chain.nonce[a] \in Nat BY Fields
  <1>5. \A t, u \in pool : t.acct = u.acct => t = u BY DEF PoolInv
  <1>6. \A t \in pool, d \in done : t.acct = d.acct => t.nonce # d.nonce
    BY <1>2, <1>3, <1>4 DEF PoolInv, DoneInv
  <1>7. NoncesUsedOnce BY <1>5, <1>6 DEF NoncesUsedOnce, DoneInv, StreamInv
  <1>8. DrainedIsFinal BY <1>2 DEF DrainedIsFinal, DrainInv, PoolInv
  <1> QED BY <1>7, <1>8 DEF NoncesExact

\* Whatever answers are lost and whoever else writes to the accounts, no nonce of the
\* stacker carries two transactions, its counters account for each submission once, and a
\* drained role has nothing that can still execute (NonceStream, Drain).
THEOREM NonceTheorem ==
  ASSUME Bounds
  PROVE  Spec => []NoncesExact
  <1>1. StackerInv => NoncesExact BY NoncesTrue
  <1> QED BY <1>1, StackerInvariant, PTL

\* However late a transaction executes, and whatever happened in between, the stake is not
\* locked for longer than the policy says (Step of PoX4Role and StackerRole).
THEOREM LockTheorem ==
  ASSUME Bounds
  PROVE  Spec => []LockBounded
  <1>1. StackerInv => LockBounded BY DEF StackerInv
  <1> QED BY <1>1, StackerInvariant, PTL
=============================================================================

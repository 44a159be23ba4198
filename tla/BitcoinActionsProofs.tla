------------------------- MODULE BitcoinActionsProofs -------------------------
(***************************************************************************)
(* Theorems about BitcoinActions, for any requests, chain, gate, crashes,  *)
(* lost answers, peers' blocks, restarts, deletions, deadlines and edits.  *)
(***************************************************************************)
EXTENDS BitcoinActions, FiniteSetTheorems, SequenceTheorems, TLAPS

-----------------------------------------------------------------------------
(* The inductive invariant *)

Chain == [path : Seq(Seq(Nat)), marked : SUBSET Nat, tip : Nat]

Working == [pc : {"idle", "decide", "reserve", "arm", "confirm", "withdraw"}, exec : Execution \cup {None},
            method : Methods, request : Requests \cup {0}, active : Call \cup {None}, got : Nat \cup {None}]
Operating == [pc : {"idle", "exec", "write"}, request : Requests \cup {0}, copy : Request \cup {None},
              exec : Execution \cup {None}]

\* Worker and operator hold what they read.
HeldInv ==
    /\ chain \in Chain /\ w \in Working /\ life \in Operating /\ spec \in [Requests -> Wanted \cup {None}]
    /\ w.pc # "idle" => w.exec \in Execution
    /\ w.pc \in {"reserve", "decide", "confirm"} => w.exec.action # None
    /\ w.pc = "confirm" => w.exec.armed # None
    /\ life.pc # "idle" => life.request \in Requests /\ life.copy \in Request
    /\ life.pc = "write" => life.exec \in Execution

Types == TypeOK /\ HeldInv

\* The record goes with the network.
GoneInv == exec.exists <=> root.mode # "Gone"

owner(r) == exec.action # None /\ exec.action.request = r

\* The armed call is the only one on its way, and the one the worker waits for.
SlotInv ==
    /\ exec.action = None => exec.armed = None
    /\ \A c \in wire : c = exec.armed
    /\ w.active # None => exec.armed = w.active
    /\ w.active # None /\ w.got = None => w.active \in wire
    /\ w.got # None => w.active # None
    /\ w.pc = "confirm" => /\ w.active = None /\ wire = {} /\ w.exec = exec
                           /\ exec.armed.method = w.method

\* What a reservation can say at all.
Sound(a) ==
    /\ spec[a.request] # None /\ a.blocks <= quota(a.request)
    /\ a.clean => a.inval
    /\ a.inval => reorganizes(a)
    /\ reorganizes(a) => Len(a.replaced) = a.blocks
    /\ a.final # None => a.clean /\ a.blocks = quota(a.request) /\ reorganizes(a)

\* The armed call asks for what is still to be done.
Needed(a, m) ==
    CASE m = "generate" -> a.blocks < quota(a.request) /\ a.final = None
      [] m = "invalidate" -> reorganizes(a) /\ ~a.inval
      [] m = "reconsider" -> a.inval /\ ~a.clean

ArmedInv ==
    exec.armed # None =>
      exec.armed.request = exec.action.request /\ Needed(exec.action, exec.armed.method)

\* The receipts of a reservation, by method.
recorded(a, m) ==
    CASE m = "generate" -> a.blocks
      [] m = "invalidate" -> IF a.inval THEN 1 ELSE 0
      [] m = "reconsider" -> IF a.clean THEN 1 ELSE 0

\* A call has no receipt while its slot is armed; the marker is that of the calls.
Counted(a) ==
    LET n == made[a.request] IN
    /\ \A m \in Methods : \/ n[m] = recorded(a, m)
                          \/ exec.armed # None /\ exec.armed.method = m /\ n[m] = recorded(a, m) + 1
    /\ wire # {} \/ w.pc = "confirm" => n[exec.armed.method] = recorded(a, exec.armed.method)
    /\ w.got # None => n[exec.armed.method] = recorded(a, exec.armed.method) + 1
    /\ chain.marked = IF n["invalidate"] = 1 /\ n["reconsider"] = 0 THEN {a.hash} ELSE {}

CountInv == IF exec.action = None THEN chain.marked = {} ELSE Counted(exec.action)

\* Nothing is sent for the reservation any more.
AtRest(a, armed) ==
    /\ armed = None
    /\ \/ a.stop # "" /\ compensated(a)
       \/ ~reorganizes(a) /\ a.blocks = quota(a.request)
       \/ a.final # None

\* What a request says of the reservation that names it, and of one that was released.
Owned(q) ==
    /\ q.state # "absent" /\ q.blocks <= exec.action.blocks
    /\ ~q.adm => exec.armed = None
    /\ q.phase \in {"Completed", "Failed"} => exec.armed = None /\ compensated(exec.action)
    /\ q.nothing => exec.armed = None /\ ~exec.action.inval

Settles(r, q) ==
    \/ q.state = "gone"
    \/ IsTerminalPhase(q.phase) /\ q.blocks = made[r]["generate"]

Requesting(r) ==
    /\ req[r].state = "absent" => req[r] = NoRequest
    /\ req[r].state # "absent" => spec[r] # None
    /\ ~req[r].adm => /\ \A m \in Methods : made[r][m] = 0
                      /\ \A c \in wire : c.request # r
                      /\ req[r].blocks = 0
    /\ req[r].nothing => IsTerminalPhase(req[r].phase)
    /\ exec.exists => IF owner(r) THEN Owned(req[r]) ELSE req[r].adm => Settles(r, req[r])

RequestInv == \A r \in Requests : Requesting(r)

\* What the operator read of a reservation is the past of the record.
CopyInv ==
    /\ life.pc # "idle" => life.copy.state \in {"live", "deleting"}
    /\ life.pc = "write" /\ bound =>
         LET r == life.request
             b == life.exec.action
         IN
         /\ Sound(b) /\ b.blocks <= made[r]["generate"] /\ req[r].blocks <= b.blocks
         /\ exec.exists =>
              \/ /\ owner(r) /\ b.blocks <= exec.action.blocks
                 /\ AtRest(b, life.exec.armed) => AtRest(exec.action, exec.armed)
              \/ req[r].state = "gone"
              \/ IsTerminalPhase(req[r].phase) /\ b.blocks = req[r].blocks

Known(c, b) == b \in 0..Len(c.path)

\* Receipts of the replacement up to the verified block are its line above the fork.
Verified(c, a) ==
    a.accepted # None =>
      /\ Known(c, a.accepted)
      /\ height(c, a.fork) <= height(c, a.accepted)
      /\ height(c, a.accepted) - height(c, a.fork) <= Len(a.replaced)
      /\ line(c, a.accepted) =
           line(c, a.fork) \o SubSeq(a.replaced, 1, height(c, a.accepted) - height(c, a.fork))

Replacing(c, a) ==
    /\ Known(c, a.original) /\ Known(c, a.fork)
    /\ reorganizes(a) => a.hash \in 1..Len(c.path)
    /\ Verified(c, a)
    /\ a.final # None => /\ a.accepted # None
                         /\ height(c, a.accepted) - height(c, a.fork) = Len(a.replaced)

ReplacementInv == exec.action # None => Sound(exec.action) /\ Replacing(chain, exec.action)

ReserveInv ==
    w.pc = "reserve" =>
      LET a == w.exec.action IN
      /\ a.request = w.request /\ Sound(a) /\ Replacing(chain, a)
      /\ a.blocks = 0 /\ ~a.inval /\ ~a.clean /\ w.exec.armed = None /\ w.exec.exists

\* A call is under way only while one is left to be made.
limit(r, m) == IF m = "generate" THEN quota(r) ELSE 1

Bounded(r) ==
    /\ \A m \in Methods : made[r][m] <= limit(r, m)
    /\ \A c \in wire : c.request = r => made[r][c.method] < limit(r, c.method)
    /\ req[r].phase = "Completed" => made[r]["generate"] = quota(r)
    /\ req[r].phase \in {"Completed", "Failed"} \/ req[r].nothing => \A c \in wire : c.request # r
    /\ req[r].nothing => \A m \in Methods : made[r][m] = 0

BoundInv ==
    /\ \A c, d \in wire : c = d
    /\ \A r \in Requests : spec[r] # None => Bounded(r)

ActionsInv ==
    /\ Types /\ GoneInv
    /\ exec.exists => SlotInv /\ ArmedInv /\ CountInv
    /\ RequestInv /\ CopyInv /\ ReplacementInv /\ ReserveInv /\ BoundInv

-----------------------------------------------------------------------------
(* The chain *)

GoodChain(c) ==
    /\ c \in Chain /\ c.path \in Seq(Seq(1..Len(c.path)))
    /\ c.tip \in 0..Len(c.path) /\ c.marked \subseteq 1..Len(c.path)

\* Blocks are never forgotten.
Grown(c, x) == Len(c.path) <= Len(x.path) /\ \A b \in 0..Len(c.path) : line(x, b) = line(c, b)

LEMMA Lines ==
  ASSUME NEW c, GoodChain(c), NEW b, Known(c, b)
  PROVE  line(c, b) \in Seq(1..Len(c.path)) /\ height(c, b) \in Nat /\ Len(c.path) \in Nat
  <1>1. Len(c.path) \in Nat BY LenProperties DEF GoodChain
  <1>2. CASE b = 0 BY <1>1, <1>2, EmptySeq DEF line, height
  <1>3. CASE b # 0
    <2>1. b \in 1..Len(c.path) BY <1>1, <1>3 DEF Known
    <2>2. c.path[b] \in Seq(1..Len(c.path)) BY <2>1, ElementOfSeq DEF GoodChain
    <2> QED BY <1>1, <1>3, <2>2, LenProperties DEF line, height
  <1> QED BY <1>2, <1>3

\* A block that is as deep as a line is long.
LEMMA Below ==
  ASSUME NEW c, GoodChain(c), NEW b, Known(c, b), NEW i \in Nat, i <= height(c, b)
  PROVE  /\ i = 0 \/ line(c, b)[i] \in 1..Len(c.path)
         /\ i # 0 => Known(c, line(c, b)[i])
  <1>1. line(c, b) \in Seq(1..Len(c.path)) /\ Len(c.path) \in Nat BY Lines
  <1>2. ASSUME i # 0 PROVE line(c, b)[i] \in 1..Len(c.path)
    <2>1. i \in 1..Len(line(c, b)) BY <1>1, <1>2, LenProperties DEF height
    <2> QED BY <1>1, <2>1, ElementOfSeq
  <1> QED BY <1>1, <1>2 DEF Known

LEMMA Extension ==
  ASSUME NEW c, GoodChain(c), NEW b, Known(c, b)
  PROVE  LET x == extended(c, b) IN
         /\ GoodChain(x) /\ Grown(c, x) /\ Len(x.path) = Len(c.path) + 1
         /\ x.marked = c.marked /\ x.tip = c.tip
  <1> DEFINE n == Len(c.path) + 1
             s == Append(line(c, b), n)
             p == Append(c.path, s)
             x == extended(c, b)
  <1>1. line(c, b) \in Seq(1..Len(c.path)) /\ Len(c.path) \in Nat BY Lines
  <1>2. n \in Nat /\ 1..Len(c.path) \subseteq 1..n /\ n \in 1..n BY <1>1
  <1>3. line(c, b) \in Seq(1..n) BY <1>1, <1>2, SeqMonotonic
  <1>4. s \in Seq(1..n) BY <1>2, <1>3, AppendProperties
  <1>5. c.path \in Seq(Seq(1..n))
    <2>1. Seq(1..Len(c.path)) \subseteq Seq(1..n) BY <1>2, SeqMonotonic
    <2> QED BY <2>1, SeqMonotonic DEF GoodChain
  <1>6. p \in Seq(Seq(1..n)) /\ Len(p) = n /\ \A i \in 1..Len(c.path) : p[i] = c.path[i]
    <2>1. /\ p \in Seq(Seq(1..n)) /\ Len(p) = Len(c.path) + 1
          /\ \A i \in 1..Len(c.path) : p[i] = c.path[i]
      BY <1>4, <1>5, AppendProperties
    <2> QED BY <2>1
  <1>7. x = [c EXCEPT !.path = p] BY DEF extended
  <1>8. p \in Seq(Seq(Nat))
    <2>1. Seq(1..n) \subseteq Seq(Nat) BY <1>2, SeqMonotonic
    <2> QED BY <1>6, <2>1, SeqMonotonic
  <1> HIDE DEF p, s, n, x
  <1>9. c \in Chain /\ c.tip \in 0..Len(c.path) /\ c.marked \subseteq 1..Len(c.path) BY DEF GoodChain
  <1>10. x \in Chain /\ x.path = p /\ x.marked = c.marked /\ x.tip = c.tip BY <1>7, <1>8, <1>9 DEF Chain
  <1>11. n = Len(c.path) + 1 BY DEF n
  <1>12. GoodChain(x) BY <1>1, <1>6, <1>9, <1>10, <1>11 DEF GoodChain
  <1>13. Grown(c, x)
    <2>1. ASSUME NEW d \in 0..Len(c.path) PROVE line(x, d) = line(c, d)
      <3>1. CASE d = 0 BY <3>1 DEF line
      <3>2. CASE d # 0
        <4>1. d \in 1..Len(c.path) BY <1>1, <3>2
        <4> QED BY <1>6, <1>10, <3>2, <4>1 DEF line
      <3> QED BY <3>1, <3>2
    <2> QED BY <1>1, <1>6, <1>10, <1>11, <2>1 DEF Grown
  <1> QED BY <1>6, <1>10, <1>11, <1>12, <1>13 DEF x

LEMMA Activation ==
  ASSUME NEW c, GoodChain(c), NEW x \in activated(c)
  PROVE  GoodChain(x) /\ Grown(c, x) /\ x.path = c.path /\ x.marked = c.marked
  <1>1. Len(c.path) \in Nat BY LenProperties DEF GoodChain
  <1>2. PICK b \in 0..Len(c.path) : x = [c EXCEPT !.tip = b] BY Zenon DEF activated, GoodChain
  <1>3. c \in Chain /\ b \in Nat BY <1>1 DEF GoodChain
  <1>4. x.path = c.path /\ x.marked = c.marked /\ x.tip = b /\ x \in Chain BY <1>2, <1>3 DEF Chain
  <1>5. GoodChain(x) BY <1>4 DEF GoodChain
  <1>6. Grown(c, x) BY <1>1, <1>4 DEF Grown, line
  <1> QED BY <1>4, <1>5, <1>6

-----------------------------------------------------------------------------
(* Types *)

LEMMA Numbers ==
  ASSUME Bounds
  PROVE  /\ Requests \subseteq Nat \ {0} /\ Base \in Nat /\ MaxBlock \in Nat /\ Ceiling \in Nat
         /\ \A c \in Cases : c.spec \in [Requests -> Wanted \cup {None}] /\ c.budget \in [Kinds -> Nat]
  BY DEF Bounds

LEMMA Parts ==
  ASSUME Types
  PROVE  /\ GoodChain(chain) /\ wire \subseteq Call /\ exec \in Execution /\ req \in [Requests -> Request]
         /\ root \in [mode : {"Running", "Paused", "Stopped", "Deleting", "Gone"}, actor : Nat,
            enabled : BOOLEAN]
         /\ w \in Working /\ life \in Operating /\ clock \in [Requests -> 0..2]
         /\ made \in [Requests -> [Methods -> Nat]] /\ budget \in [Kinds -> Nat]
         /\ spec \in [Requests -> Wanted \cup {None}]
  BY DEF Types, TypeOK, HeldInv, GoodChain

\* Fields of a record and of its reservation.
LEMMA Record ==
  ASSUME NEW e \in Execution
  PROVE  /\ e.exists \in BOOLEAN /\ e.drained \in BOOLEAN
         /\ e.action \in Reservation \cup {None} /\ e.armed \in Call \cup {None}
  BY DEF Execution

LEMMA Fields ==
  ASSUME NEW a \in Reservation
  PROVE  /\ a.request \in Requests /\ a.runtime \in Nat /\ a.started \in BOOLEAN /\ a.blocks \in Nat
         /\ a.last \in Nat /\ a.timely \in BOOLEAN /\ a.stop \in {"", "IdentityDiverged", "Stopped"}
         /\ a.uncertain \in BOOLEAN /\ a.unsafe \in BOOLEAN /\ a.original \in Nat /\ a.fork \in Nat
         /\ a.hash \in Nat /\ a.accepted \in Nat \cup {None} /\ a.replaced \in Seq(Nat)
         /\ a.inval \in BOOLEAN /\ a.clean \in BOOLEAN /\ a.final \in Nat \cup {None}
  BY DEF Reservation

\* What the receipts of an action said, they say; a stop is not taken back.
Same(a, b) ==
    /\ b.request = a.request /\ b.runtime = a.runtime /\ b.blocks = a.blocks
    /\ b.last = a.last /\ b.original = a.original /\ b.fork = a.fork /\ b.hash = a.hash
    /\ b.replaced = a.replaced /\ b.inval = a.inval /\ b.clean = a.clean
    /\ a.stop # "" => b.stop # ""

Settled(a, b) == Same(a, b) /\ b.accepted = a.accepted /\ b.final = a.final

\* A stop is recorded once, and stays.
LEMMA Stopping ==
  ASSUME NEW a \in Reservation, NEW s \in {"IdentityDiverged", "Stopped"}, NEW b \in BOOLEAN, NEW n,
         \/ n = [a EXCEPT !.stop = IF @ = "" THEN s ELSE @, !.unsafe = @ \/ b]
         \/ \E u \in BOOLEAN :
              n = [a EXCEPT !.stop = IF @ = "" THEN s ELSE @, !.uncertain = @ \/ u, !.unsafe = @ \/ b]
  PROVE  n \in Reservation /\ Settled(a, n) /\ n.stop # ""
  <1> DEFINE t == IF a.stop = "" THEN s ELSE a.stop
             z == a.unsafe \/ b
  <1>1. t \in {"IdentityDiverged", "Stopped"} /\ z \in BOOLEAN BY Fields
  <1>2. PICK v \in BOOLEAN : \/ n = [a EXCEPT !.stop = t, !.unsafe = z]
                             \/ n = [a EXCEPT !.stop = t, !.uncertain = v, !.unsafe = z]
    <2>1. ASSUME NEW u \in BOOLEAN PROVE (a.uncertain \/ u) \in BOOLEAN BY Fields
    <2> QED BY <2>1
  <1> HIDE DEF t, z
  <1>3. CASE n = [a EXCEPT !.stop = t, !.unsafe = z]
    <2>1. n \in Reservation BY <1>1, <1>3 DEF Reservation
    <2>2. n.stop = t BY <1>3 DEF Reservation
    <2> QED BY <1>1, <1>3, <2>1, <2>2 DEF Settled, Same, Reservation
  <1>4. CASE n = [a EXCEPT !.stop = t, !.uncertain = v, !.unsafe = z]
    <2>1. n \in Reservation BY <1>1, <1>4 DEF Reservation
    <2>2. n.stop = t BY <1>4 DEF Reservation
    <2> QED BY <1>1, <1>4, <2>1, <2>2 DEF Settled, Same, Reservation
  <1> QED BY <1>2, <1>3, <1>4

LEMMA Stopped ==
  ASSUME NEW e \in Execution, e.action # None, NEW s \in {"IdentityDiverged", "Stopped"}, NEW b \in BOOLEAN,
         NEW n, n = stopAction(e, s, b)
  PROVE  /\ n \in Execution /\ n.action \in Reservation /\ Settled(e.action, n.action) /\ n.action.stop # ""
         /\ n.armed = e.armed /\ n.exists = e.exists
  <1> DEFINE x == [e.action EXCEPT !.stop = IF @ = "" THEN s ELSE @, !.unsafe = @ \/ b]
  <1>1. e.action \in Reservation BY Record
  <1>2. x \in Reservation /\ Settled(e.action, x) /\ x.stop # ""
    <2>1. x = [e.action EXCEPT !.stop = IF @ = "" THEN s ELSE @, !.unsafe = @ \/ b] OBVIOUS
    <2> HIDE DEF x
    <2> QED BY <1>1, <2>1, Stopping
  <1>3. n = [e EXCEPT !.action = x] BY <1>1 DEF stopAction, Execution, Reservation
  <1> HIDE DEF x
  <1> QED BY <1>2, <1>3 DEF Execution

-----------------------------------------------------------------------------
(* What the steps of the worker write *)

\* The record keeps its call, and its reservation keeps what it says.
Amended(e, x) ==
    /\ x \in Execution /\ x.exists = e.exists /\ x.armed = e.armed
    /\ x.action = None <=> e.action = None
    /\ e.action # None => x.action \in Reservation /\ Same(e.action, x.action)

\* One more block of the replacement was verified.
Accepts(a, b) ==
    /\ a.stop = "" /\ a.inval /\ verified(a) < a.blocks
    /\ b.accepted \in replacementHeader(a) /\ b.final = None

\* The replacement is recorded as final.
Finishes(a, b) ==
    /\ a.clean /\ a.stop = "" /\ (a.inval => ~(verified(a) < a.blocks)) /\ replacementFinal(a)
    /\ b.accepted = a.accepted /\ b.final = chain.tip

LEMMA Marked ==
  ASSUME Nil, NEW e \in Execution, e.action # None, NEW n, n = outstandingUncertain(e)
  PROVE  Amended(e, n) /\ Settled(e.action, n.action)
  <1> DEFINE x == [e.action EXCEPT !.uncertain = TRUE]
  <1>1. e.action \in Reservation BY Record
  <1>2. x \in Reservation /\ Settled(e.action, x) BY <1>1 DEF Reservation, Settled, Same
  <1>3. n = [e EXCEPT !.action = x] BY <1>1 DEF outstandingUncertain, Execution, Reservation
  <1>4. x # None BY <1>2 DEF Nil
  <1> HIDE DEF x
  <1> QED BY <1>2, <1>3, <1>4 DEF Execution, Amended, Settled

LEMMA StoppedAmends ==
  ASSUME Nil, NEW e \in Execution, e.action # None, NEW s \in {"IdentityDiverged", "Stopped"},
         NEW b \in BOOLEAN,
         NEW n, n = stopAction(e, s, b)
  PROVE  Amended(e, n) /\ Settled(e.action, n.action) /\ n.action.stop # ""
  <1>1. /\ n \in Execution /\ n.action \in Reservation /\ Settled(e.action, n.action) /\ n.action.stop # ""
        /\ n.armed = e.armed /\ n.exists = e.exists
    BY Stopped
  <1>2. n.action # None BY <1>1 DEF Nil
  <1> QED BY <1>1, <1>2 DEF Amended, Settled

LEMMA DrainAmends ==
  ASSUME Types, Nil, Drain
  PROVE  /\ w' = Done /\ UNCHANGED aside /\ Amended(exec, exec')
         /\ exec.action # None => Settled(exec.action, exec'.action)
  <1>0. exec \in Execution BY Parts
  <1>1. CASE UNCHANGED exec
    <2>1. exec.action # None => exec.action \in Reservation BY <1>0, Record
    <2> QED BY <1>0, <1>1, <2>1 DEF Drain, Amended, Settled, Same
  <1>2. CASE ~(UNCHANGED exec)
    <2> DEFINE u == exec.armed # None \/ w.active # None
               b == ~compensated(exec.action)
               x == [exec.action EXCEPT !.stop = IF @ = "" THEN "Stopped" ELSE @,
                                        !.uncertain = @ \/ u, !.unsafe = @ \/ b]
               y == IF exec.action = None THEN None ELSE x
    <2>1. exec' = [exec EXCEPT !.drained = TRUE, !.action = y] BY <1>2 DEF Drain
    <2>2. exec.action # None => x \in Reservation /\ Settled(exec.action, x)
      <3> SUFFICES ASSUME exec.action # None PROVE x \in Reservation /\ Settled(exec.action, x) OBVIOUS
      <3>1. exec.action \in Reservation BY <1>0, Record
      <3>2. u \in BOOLEAN /\ b \in BOOLEAN OBVIOUS
      <3>3. x = [exec.action EXCEPT !.stop = IF @ = "" THEN "Stopped" ELSE @,
                                    !.uncertain = @ \/ u, !.unsafe = @ \/ b]
        OBVIOUS
      <3> HIDE DEF u, b, x
      <3> QED BY <3>1, <3>2, <3>3, Stopping
    <2>3. x \in Reservation => x # None BY DEF Nil
    <2> HIDE DEF x
    <2>4. y \in Reservation \cup {None} BY <2>2
    <2>5. y = None <=> exec.action = None BY <2>2, <2>3
    <2>6. exec.action # None => y = x OBVIOUS
    <2> HIDE DEF y
    <2>7. exec' \in Execution /\ exec'.action = y /\ exec'.armed = exec.armed /\ exec'.exists = exec.exists
      BY <1>0, <2>1, <2>4 DEF Execution
    <2> QED BY <2>2, <2>5, <2>6, <2>7 DEF Amended, Settled, Drain
  <1> QED BY <1>1, <1>2

\* Writes of a step, by what they are for.
WriteStop(e) == \E s \in {"IdentityDiverged", "Stopped"}, b \in BOOLEAN : Write(stopAction(e, s, b))

WriteAccepted(e) ==
    /\ e.action.final = None /\ e.action.stop = "" /\ e.action.inval
    /\ verified(e.action) < e.action.blocks
    /\ \E b \in replacementHeader(e.action) : Write([e EXCEPT !.action.accepted = b])

WriteFinal(e) ==
    /\ e.action.final = None /\ e.action.stop = "" /\ e.action.clean
    /\ e.action.inval => ~(verified(e.action) < e.action.blocks)
    /\ replacementFinal(e.action) /\ Write([e EXCEPT !.action.final = chain.tip])

WriteRelease(e) == e.armed = None /\ released(e.action) /\ Write([e EXCEPT !.action = None])

LEMMA ReorganizationSteps ==
  ASSUME NEW e, stepReorganization(e)
  PROVE  Hold \/ (\E m \in Methods : Prepare(m)) \/ WriteStop(e) \/ WriteAccepted(e) \/ WriteFinal(e)
  BY Zenon DEF stepReorganization, Methods, WriteStop, WriteAccepted, WriteFinal

LEMMA ActionSteps ==
  ASSUME StepAction
  PROVE  \/ Drain \/ Hold \/ (\E m \in Methods : Prepare(m)) \/ Write(outstandingUncertain(w.exec))
         \/ WriteRelease(w.exec) \/ WriteStop(w.exec)
         \/ /\ reorganizes(w.exec.action) /\ w.exec.armed = None
            /\ WriteAccepted(w.exec) \/ WriteFinal(w.exec)
  <1> DEFINE e == w.exec
  <1>1. \/ Drain \/ Hold \/ Write(outstandingUncertain(e)) \/ WriteRelease(e)
        \/ Write(stopAction(e, "Stopped", FALSE))
        \/ e.armed = None /\ reorganizes(e.action) /\ stepReorganization(e)
        \/ stepGeneration(e)
    BY Zenon DEF StepAction, WriteRelease
  <1>2. CASE stepGeneration(e)
    <2>1. Hold \/ Write(stopAction(e, "IdentityDiverged", FALSE)) \/ Prepare("generate")
      BY <1>2, Zenon DEF stepGeneration
    <2>2. "generate" \in Methods BY DEF Methods
    <2> QED BY <2>1, <2>2 DEF WriteStop
  <1>3. CASE e.armed = None /\ reorganizes(e.action) /\ stepReorganization(e)
    BY <1>3, ReorganizationSteps
  <1>4. Write(stopAction(e, "Stopped", FALSE)) => WriteStop(e) BY DEF WriteStop
  <1> HIDE DEF e
  <1> QED BY <1>1, <1>2, <1>3, <1>4 DEF e

\* What a step of the worker does to the record.
Released == /\ exec.action # None /\ exec.armed = None /\ released(exec.action)
            /\ exec' \in Execution /\ exec'.action = None /\ exec'.armed = None /\ exec'.exists = exec.exists

Amending ==
    /\ Amended(exec, exec')
    /\ exec.action # None =>
         \/ Settled(exec.action, exec'.action)
         \/ /\ exec.armed = None /\ reorganizes(exec.action) /\ exec.action.final = None
            /\ Accepts(exec.action, exec'.action) \/ Finishes(exec.action, exec'.action)

LEMMA StepActionWrites ==
  ASSUME Types, Nil, StepAction
  PROVE  /\ UNCHANGED aside /\ exec.exists
         /\ \/ UNCHANGED exec /\ \E m \in Methods : w' = [w EXCEPT !.pc = "arm", !.method = m]
            \/ w' = Done /\ (UNCHANGED exec \/ Released \/ Amending)
  <1>1. w.exec \in Execution /\ w.exec.action # None /\ exec.exists
    BY DEF StepAction, Types, HeldInv
  <1>2. w.exec.action \in Reservation BY <1>1, Record
  <1>3. CASE Drain BY <1>1, <1>3, DrainAmends DEF Amending
  <1>4. CASE Hold \/ \E m \in Methods : Prepare(m) BY <1>1, <1>4 DEF Hold, Prepare
  <1>5. CASE Write(outstandingUncertain(w.exec)) BY <1>1, <1>5, Marked DEF Write, Amending
  <1>6. CASE WriteRelease(w.exec)
    <2>1. exec = w.exec /\ exec' = [exec EXCEPT !.action = None] /\ w' = Done /\ UNCHANGED aside
      BY <1>6 DEF WriteRelease, Write
    <2>2. exec' \in Execution /\ exec'.action = None /\ exec'.armed = exec.armed /\ exec'.exists = exec.exists
      BY <1>1, <2>1 DEF Execution
    <2> QED BY <1>1, <1>6, <2>1, <2>2 DEF Released, WriteRelease
  <1>7. CASE WriteStop(w.exec)
    <2>1. PICK s \in {"IdentityDiverged", "Stopped"}, b \in BOOLEAN : Write(stopAction(w.exec, s, b))
      BY <1>7 DEF WriteStop
    <2> QED BY <1>1, <2>1, StoppedAmends DEF Write, Amending
  <1>8. CASE reorganizes(w.exec.action) /\ w.exec.armed = None /\ WriteAccepted(w.exec)
    <2>1. PICK b \in replacementHeader(w.exec.action) :
            /\ exec = w.exec /\ exec' = [exec EXCEPT !.action.accepted = b] /\ w' = Done /\ UNCHANGED aside
      BY <1>8 DEF WriteAccepted, Write
    <2> DEFINE x == [exec.action EXCEPT !.accepted = b]
    <2>2. b \in Nat BY DEF replacementHeader
    <2>3. exec.action \in Reservation BY <1>2, <2>1
    <2>4. exec' = [exec EXCEPT !.action = x] BY <2>1
    <2>7. x \in Reservation BY <2>2, <2>3 DEF Reservation
    <2>8. Same(exec.action, x) /\ x.accepted = b /\ x.final = exec.action.final
      BY <2>3 DEF Reservation, Same
    <2>9. x # None BY <2>7 DEF Nil
    <2> HIDE DEF x
    <2>5. Amended(exec, exec') /\ exec'.action = x BY <1>1, <2>1, <2>4, <2>7, <2>8, <2>9 DEF Amended,
        Execution
    <2>6. Accepts(exec.action, exec'.action) /\ exec.action.final = None
      BY <1>8, <2>1, <2>8, <2>5 DEF Accepts, WriteAccepted
    <2> QED BY <1>1, <1>8, <2>1, <2>5, <2>6 DEF Amending
  <1>9. CASE reorganizes(w.exec.action) /\ w.exec.armed = None /\ WriteFinal(w.exec)
    <2>1. exec = w.exec /\ exec' = [exec EXCEPT !.action.final = chain.tip] /\ w' = Done /\ UNCHANGED aside
      BY <1>9 DEF WriteFinal, Write
    <2> DEFINE x == [exec.action EXCEPT !.final = chain.tip]
    <2>2. chain.tip \in Nat BY Parts DEF GoodChain, Chain
    <2>3. exec.action \in Reservation BY <1>2, <2>1
    <2>4. exec' = [exec EXCEPT !.action = x] BY <2>1
    <2>7. x \in Reservation BY <2>2, <2>3 DEF Reservation
    <2>8. Same(exec.action, x) /\ x.accepted = exec.action.accepted /\ x.final = chain.tip
      BY <2>3 DEF Reservation, Same
    <2>9. x # None BY <2>7 DEF Nil
    <2> HIDE DEF x
    <2>5. Amended(exec, exec') /\ exec'.action = x BY <1>1, <2>1, <2>4, <2>7, <2>8, <2>9 DEF Amended,
        Execution
    <2>6. Finishes(exec.action, exec'.action) /\ exec.action.final = None
      BY <1>9, <2>1, <2>8, <2>5 DEF Finishes, WriteFinal
    <2> QED BY <1>1, <1>9, <2>1, <2>5, <2>6 DEF Amending
  <1> QED BY <1>3, <1>4, <1>5, <1>6, <1>7, <1>8, <1>9, ActionSteps

-----------------------------------------------------------------------------
(* Types of the steps *)

LEMMA DoneType == ASSUME w \in Working PROVE Done \in Working /\ Done.pc = "idle"
  BY DEF Done, Working, Methods

\* Steps that read and write nothing but what the worker holds, besides the budget.
LEMMA WorkerTypes ==
  ASSUME Types, Nil, UNCHANGED <<chain, exec, req, life, clock, made, spec>>,
         wire' \subseteq Call, budget' \in [Kinds -> Nat],
         root' \in [mode : {"Running", "Paused", "Stopped", "Deleting", "Gone"}, actor : Nat,
             enabled : BOOLEAN],
         w' \in Working, w'.pc # "idle" => w'.exec \in Execution,
         w'.pc \in {"reserve", "decide", "confirm"} => w'.exec.action # None,
         w'.pc = "confirm" => w'.exec.armed # None
  PROVE  Types'
  BY DEF Types, TypeOK, HeldInv, Working

LEMMA RecordTypes ==
  ASSUME Types, Nil, UNCHANGED aside, exec' \in Execution,
         w' \in Working, w'.pc # "idle" => w'.exec \in Execution,
         w'.pc \in {"reserve", "decide", "confirm"} => w'.exec.action # None,
         w'.pc = "confirm" => w'.exec.armed # None
  PROVE  Types'
  BY DEF Types, TypeOK, HeldInv, Working, aside

LEMMA Taking ==
  ASSUME Types, NEW k \in Kinds, Take(k) PROVE budget' \in [Kinds -> Nat]
  BY DEF Take, Types, TypeOK

LEMMA KindsHave ==
  {"Crash", "Lose", "Peer", "Restart", "Delete", "Expire", "Pause", "Stop", "Disable"} \subseteq Kinds
  BY DEF Kinds

LEMMA IdleType ==
  ASSUME w \in Working PROVE [Idle EXCEPT !.active = w.active, !.got = w.got] \in Working /\ Idle \in Working
  BY DEF Idle, Working, Methods

LEMMA StepTypes ==
  ASSUME Types, Nil, StepAction PROVE Types'
  <1>1. w \in Working /\ exec \in Execution BY Parts
  <1>2. CASE UNCHANGED exec /\ \E m \in Methods : w' = [w EXCEPT !.pc = "arm", !.method = m]
    <2>1. PICK m \in Methods : w' = [w EXCEPT !.pc = "arm", !.method = m] BY <1>2
    <2>2. w' \in Working /\ w'.pc = "arm" /\ w'.exec = w.exec BY <1>1, <2>1 DEF Working
    <2>3. w.exec \in Execution BY DEF StepAction, Types, HeldInv
    <2> QED BY <1>1, <1>2, <2>2, <2>3, StepActionWrites, RecordTypes
  <1>3. CASE w' = Done /\ (UNCHANGED exec \/ Released \/ Amending)
    <2>1. exec' \in Execution BY <1>1, <1>3 DEF Released, Amending, Amended
    <2> QED BY <1>1, <1>3, <2>1, DoneType, StepActionWrites, RecordTypes
  <1> QED BY <1>2, <1>3, StepActionWrites

LEMMA ReadRecordTypes == ASSUME Types, Nil, ReadRecord PROVE Types'
  <1>1. w \in Working /\ exec \in Execution BY Parts
  <1>2. w' \in Working /\ w'.pc = "decide" /\ w'.exec = exec BY <1>1 DEF ReadRecord, Working
  <1> QED BY <1>1, <1>2, RecordTypes DEF ReadRecord

LEMMA AbortTypes == ASSUME Types, Nil, Abort PROVE Types'
  <1>1. w \in Working /\ exec \in Execution BY Parts
  <1>2. w' \in Working /\ w'.pc = "idle"
    BY <1>1, IdleType DEF Abort, Idle
  <1> QED BY <1>1, <1>2, RecordTypes DEF Abort

LEMMA FailureTypes == ASSUME Types, Nil, Crash \/ Lose \/ Restart PROVE Types'
  <1>1. /\ w \in Working /\ wire \subseteq Call
        /\ root \in [mode : {"Running", "Paused", "Stopped", "Deleting", "Gone"}, actor : Nat,
           enabled : BOOLEAN]
    BY Parts
  <1>2. budget' \in [Kinds -> Nat] BY Taking, KindsHave DEF Crash, Lose, Restart
  <1>3. CASE Crash
    <2>1. w' \in Working /\ w'.pc = "idle" BY <1>1, <1>3, IdleType DEF Crash, Idle
    <2> QED BY <1>1, <1>2, <1>3, <2>1, WorkerTypes DEF Crash
  <1>4. CASE Lose \/ Restart
    <2>1. w' \in Working /\ w'.pc = w.pc /\ w'.exec = w.exec BY <1>1, <1>4 DEF Lose, Restart, Working
    <2>2. root' \in [mode : {"Running", "Paused", "Stopped", "Deleting", "Gone"}, actor : Nat,
          enabled : BOOLEAN]
      BY <1>1, <1>4 DEF Lose, Restart
    <2>3. wire' \subseteq Call /\ UNCHANGED <<chain, exec, req, life, clock, made, spec>>
      BY <1>1, <1>4 DEF Lose, Restart
    <2>4. /\ w'.pc # "idle" => w'.exec \in Execution
          /\ w'.pc \in {"reserve", "decide", "confirm"} => w'.exec.action # None
          /\ w'.pc = "confirm" => w'.exec.armed # None
      BY <2>1 DEF Types, HeldInv
    <2> QED BY <1>2, <2>1, <2>2, <2>3, <2>4, WorkerTypes
  <1> QED BY <1>3, <1>4

LEMMA Quota ==
  ASSUME Types, NEW r \in Requests, spec[r] # None
  PROVE  spec[r] \in Wanted /\ spec[r].size \in Nat \ {0} /\ quota(r) \in Nat \ {0}
  <1>1. spec[r] \in Wanted BY Parts
  <1>2. spec[r].size \in Nat \ {0} BY <1>1 DEF Wanted
  <1> QED BY <1>1, <1>2 DEF quota

LEMMA Depths ==
  ASSUME GoodChain(chain), NEW d \in Nat, d <= height(chain, chain.tip)
  PROVE  Known(chain, below(d)) /\ (d < height(chain, chain.tip) => below(d) \in 1..Len(chain.path))
  <1> DEFINE h == height(chain, chain.tip)
  <1>1. Known(chain, chain.tip) BY DEF GoodChain, Known
  <1>2. h \in Nat /\ Len(chain.path) \in Nat BY <1>1, Lines
  <1>3. CASE d = h BY <1>2, <1>3 DEF below, Known
  <1>4. CASE d # h
    <2>1. h - d \in Nat /\ h - d <= h /\ h - d # 0 BY <1>2, <1>4
    <2>2. line(chain, chain.tip)[h - d] \in 1..Len(chain.path) BY <1>1, <2>1, Below
    <2> QED BY <1>2, <1>4, <2>2 DEF below, Known
  <1> QED BY <1>3, <1>4

\* A reservation of which nothing was done.
Unspent(r, u, o, f, h) ==
    [request |-> r, runtime |-> u, started |-> FALSE, blocks |-> 0, last |-> 0, timely |-> TRUE,
     stop |-> "", uncertain |-> FALSE, unsafe |-> FALSE, original |-> o, fork |-> f, hash |-> h,
     accepted |-> None, replaced |-> <<>>, inval |-> FALSE, clean |-> FALSE, final |-> None]

LEMMA UnspentFields ==
  ASSUME Nil, NEW r \in Requests, NEW runtime \in Nat, NEW tip \in Nat, NEW fork \in Nat, NEW hash \in Nat
  PROVE  LET a == Unspent(r, runtime, tip, fork, hash) IN
         /\ a \in Reservation /\ a # None
         /\ a.request = r /\ a.blocks = 0 /\ ~a.inval /\ ~a.clean /\ a.original = tip /\ a.fork = fork
         /\ a.hash = hash /\ a.accepted = None /\ a.replaced = <<>> /\ a.final = None
  <1> DEFINE a == Unspent(r, runtime, tip, fork, hash)
  <1>1. a \in Reservation BY EmptySeq DEF Unspent, Reservation
  <1>2. a # None BY <1>1 DEF Nil
  <1> QED BY <1>1, <1>2 DEF Unspent

\* A reservation as it is captured.
LEMMA Captured ==
  ASSUME Types, Nil, NEW r \in Requests, spec[r] # None, capturable(r)
  PROVE  LET a == captured(r) IN
         /\ a \in Reservation /\ a # None /\ a.request = r /\ Sound(a) /\ Replacing(chain, a)
         /\ a.blocks = 0 /\ ~a.inval /\ ~a.clean
  <1> DEFINE a == captured(r)
             reorg == spec[r].kind = "Reorganization"
             depth == IF reorg THEN spec[r].size ELSE 0
             f == below(depth)
             h == IF reorg THEN below(depth - 1) ELSE 0
             n == height(chain, chain.tip)
  <1>1. /\ GoodChain(chain) /\ chain.tip \in Nat /\ Known(chain, chain.tip) /\ root.actor \in Nat
        /\ Len(chain.path) \in Nat /\ n \in Nat
    <2>1. GoodChain(chain) /\ root.actor \in Nat BY Parts
    <2>2. Known(chain, chain.tip) BY <2>1 DEF GoodChain, Known
    <2> QED BY <2>1, <2>2, Lines DEF GoodChain, Chain
  <1>2. spec[r].size \in Nat \ {0} /\ quota(r) \in Nat \ {0} BY Quota
  <1>3. depth \in Nat /\ depth <= n /\ (reorg => depth - 1 \in Nat /\ depth - 1 < n)
    BY <1>1, <1>2 DEF capturable
  <1>4. Known(chain, f) BY <1>1, <1>3, Depths
  <1>5. reorg => h \in 1..Len(chain.path)
    <2> SUFFICES ASSUME reorg PROVE below(depth - 1) \in 1..Len(chain.path) OBVIOUS
    <2> DEFINE d == depth - 1
    <2>1. d \in Nat /\ d < n /\ d <= n BY <1>1, <1>3
    <2> HIDE DEF d
    <2>2. below(d) \in 1..Len(chain.path) BY <1>1, <2>1, Depths
    <2> QED BY <2>2 DEF d
  <1>6. f \in Nat /\ h \in Nat BY <1>1, <1>4, <1>5 DEF Known
  <1>7. a = Unspent(r, root.actor, chain.tip, f, h) BY DEF captured, Unspent
  <1> HIDE DEF a, f, h
  <1>9. /\ a \in Reservation /\ a # None
        /\ a.request = r /\ a.blocks = 0 /\ ~a.inval /\ ~a.clean /\ a.original = chain.tip /\ a.fork = f
        /\ a.hash = h /\ a.accepted = None /\ a.replaced = <<>> /\ a.final = None
    <2> DEFINE u == root.actor
               o == chain.tip
    <2>1. u \in Nat /\ o \in Nat /\ a = Unspent(r, u, o, f, h) BY <1>1, <1>7
    <2>2. o = chain.tip OBVIOUS
    <2> HIDE DEF reorg, depth, n, u, o
    <2>4. f \in Nat /\ h \in Nat BY <1>6
    <2>5. r \in Requests OBVIOUS
    <2>6. Nil OBVIOUS
    <2>7. Unspent(r, u, o, f, h) \in Reservation BY <2>4, <2>5, <2>6, <2>1, UnspentFields
    <2>8. a \in Reservation /\ a # None BY <2>1, <2>6, <2>7 DEF Nil
    <2>3. /\ a \in Reservation /\ a # None
          /\ a.request = r /\ a.blocks = 0 /\ ~a.inval /\ ~a.clean /\ a.original = o /\ a.fork = f
          /\ a.hash = h /\ a.accepted = None /\ a.replaced = <<>> /\ a.final = None
      BY <2>8, <2>1 DEF Unspent
    <2> QED BY <2>2, <2>3
  <1>8. reorganizes(a) <=> reorg BY <1>9 DEF reorganizes
  <1> HIDE DEF reorg, n
  <1>12. Sound(a) BY <1>2, <1>9 DEF Sound
  <1>13. Replacing(chain, a) BY <1>1, <1>4, <1>5, <1>8, <1>9 DEF Replacing, Verified
  <1> QED BY <1>9, <1>12, <1>13 DEF a

LEMMA CandidateWrites ==
  ASSUME ActionsInv, Nil, NEW r \in Requests, Candidate(r)
  PROVE  /\ UNCHANGED <<aside, exec>> /\ exec.exists /\ exec.action = None
         /\ w' \in Working /\ w'.pc = "reserve" /\ w'.exec \in Execution /\ w'.request = r
         /\ w'.active = w.active /\ w'.got = w.got /\ w'.method = w.method
         /\ w'.exec.action = captured(r) /\ w'.exec.armed = None /\ w'.exec.exists
         /\ captured(r) \in Reservation /\ captured(r) # None /\ captured(r).request = r
         /\ Sound(captured(r)) /\ Replacing(chain, captured(r))
         /\ captured(r).blocks = 0 /\ ~captured(r).inval /\ ~captured(r).clean
  <1> DEFINE a == captured(r)
             e == [exec EXCEPT !.action = a]
  <1>1. w \in Working /\ exec \in Execution /\ req \in [Requests -> Request] BY Parts DEF ActionsInv
  <1>2. spec[r] # None BY DEF ActionsInv, RequestInv, Requesting, Candidate, eligible
  <1>3. capturable(r) BY DEF Candidate
  <1>4. /\ a \in Reservation /\ a # None /\ a.request = r /\ Sound(a) /\ Replacing(chain, a)
        /\ a.blocks = 0 /\ ~a.inval /\ ~a.clean
    BY <1>2, <1>3, Captured DEF ActionsInv
  <1>5. w' = [w EXCEPT !.pc = "reserve", !.exec = e, !.request = r] BY DEF Candidate
  <1> HIDE DEF a
  <1>6. e \in Execution /\ e.action = a /\ e.armed = exec.armed /\ e.exists = exec.exists
    BY <1>1, <1>4 DEF Execution
  <1> HIDE DEF e
  <1>7. /\ w' \in Working /\ w'.pc = "reserve" /\ w'.exec = e /\ w'.request = r
        /\ w'.active = w.active /\ w'.got = w.got /\ w'.method = w.method
    BY <1>1, <1>5, <1>6 DEF Working
  <1>8. UNCHANGED <<aside, exec>> /\ exec.exists /\ exec.action = None /\ exec.armed = None BY DEF Candidate
  <1> QED BY <1>4, <1>6, <1>7, <1>8 DEF a

LEMMA CandidateTypes == ASSUME ActionsInv, Nil, NEW r \in Requests, Candidate(r) PROVE Types'
  <1>1. Types /\ exec \in Execution BY Parts DEF ActionsInv
  <1> QED BY <1>1, CandidateWrites, RecordTypes

LEMMA ReserveTypes == ASSUME Types, Nil, Reserve PROVE Types'
  <1>1. w \in Working BY Parts
  <1>2. exec' \in Execution BY DEF Reserve, Types, HeldInv
  <1>3. w' \in Working /\ w'.pc = "idle" BY <1>1 DEF Reserve, Working
  <1> QED BY <1>2, <1>3, RecordTypes DEF Reserve

\* The receipt of a call of method m, whose block is g, is in b.
Receipted(a, b, m, g) ==
    /\ b.request = a.request /\ b.stop = a.stop /\ b.original = a.original /\ b.fork = a.fork
    /\ b.hash = a.hash /\ b.accepted = a.accepted /\ b.final = a.final
    /\ b.blocks = IF m = "generate" THEN a.blocks + 1 ELSE a.blocks
    /\ b.replaced = IF m = "generate" /\ reorganizes(a) THEN Append(a.replaced, g) ELSE a.replaced
    /\ b.inval = (a.inval \/ m = "invalidate") /\ b.clean = (a.clean \/ m = "reconsider")

LEMMA ArmWrites ==
  ASSUME Types, Nil, Arm
  PROVE  /\ UNCHANGED aside /\ exec.exists /\ exec.action \in Reservation /\ exec.armed = None
         /\ w.active = None /\ authorizeMutation(exec.action, w.method)
         /\ exec' \in Execution /\ exec'.exists = exec.exists
         /\ exec'.armed \in Call /\ exec'.armed # None /\ exec'.armed.method = w.method
         /\ exec'.armed.request = exec.action.request
         /\ exec'.action \in Reservation /\ exec'.action # None /\ Settled(exec.action, exec'.action)
         /\ w' \in Working /\ w'.pc = "confirm" /\ w'.exec = exec' /\ w'.active = None /\ w'.got = w.got
         /\ w'.method = w.method
  <1> DEFINE a == exec.action
             call == [id |-> a.last + 1, method |-> w.method, request |-> a.request]
             b == [a EXCEPT !.started = TRUE]
  <1>1. exec \in Execution /\ w \in Working BY Parts
  <1>2. a \in Reservation BY <1>1, Record DEF Arm
  <1>3. call \in Call
    <2>1. a.last \in Nat /\ a.request \in Requests BY <1>2, Fields
    <2>2. w.method \in Methods BY <1>1 DEF Working
    <2> HIDE DEF a
    <2>3. a.last + 1 \in Nat BY <2>1
    <2> QED BY <2>1, <2>2, <2>3 DEF Call
  <1>4. call.method = w.method /\ call.request = a.request OBVIOUS
  <1>5. b \in Reservation /\ Settled(a, b) BY <1>2 DEF Reservation, Settled, Same
  <1>6. exec' = [exec EXCEPT !.armed = call, !.action = b] BY DEF Arm
  <1>7. call # None /\ b # None BY <1>3, <1>5 DEF Nil
  <1> HIDE DEF call, b
  <1>8. exec' \in Execution /\ exec'.exists = exec.exists /\ exec'.armed = call /\ exec'.action = b
    BY <1>1, <1>3, <1>5, <1>6 DEF Execution
  <1>9. /\ w' \in Working /\ w'.pc = "confirm" /\ w'.exec = exec' /\ w'.active = w.active /\ w'.got = w.got
        /\ w'.method = w.method
    <2>1. w' = [w EXCEPT !.pc = "confirm", !.exec = exec'] BY DEF Arm
    <2> QED BY <1>1, <1>8, <2>1 DEF Working
  <1>10. /\ UNCHANGED aside /\ exec.exists /\ exec.armed = None /\ w.active = None
         /\ authorizeMutation(exec.action, w.method)
    BY DEF Arm
  <1> QED BY <1>2, <1>3, <1>4, <1>5, <1>7, <1>8, <1>9, <1>10

LEMMA AccountWrites ==
  ASSUME Types, Nil, SlotInv, Account
  PROVE  /\ UNCHANGED aside /\ exec.exists /\ exec.action \in Reservation /\ exec.action # None
         /\ exec.armed = w.active /\ exec.armed \in Call /\ exec.armed # None /\ w.got \in Nat /\ w.got # None
         /\ exec' \in Execution /\ exec'.exists = exec.exists /\ exec'.armed = None
         /\ exec'.action \in Reservation /\ exec'.action # None
         /\ Receipted(exec.action, exec'.action, exec.armed.method, w.got)
         /\ w' \in Working /\ w'.pc = w.pc /\ w'.exec = w.exec /\ w'.method = w.method
         /\ w'.request = w.request /\ w'.active = None /\ w'.got = None
  <1> DEFINE a == exec.action
             m == w.active.method
             t == clock[a.request] = 0 /\ req[a.request].state = "live"
             n == IF m = "generate" THEN a.blocks + 1 ELSE a.blocks
             s == IF m = "generate" /\ reorganizes(a) THEN Append(a.replaced, w.got) ELSE a.replaced
             i == a.inval \/ m = "invalidate"
             c == a.clean \/ m = "reconsider"
             b == accountActionReceipt(a, w.active, w.got)
  <1>1. exec \in Execution /\ w \in Working BY Parts
  <1>2. /\ UNCHANGED aside /\ exec.exists /\ exec.armed = w.active /\ w.got # None
        /\ exec' = [exec EXCEPT !.armed = None, !.action = b]
        /\ w' = [w EXCEPT !.active = None, !.got = None]
    BY DEF Account
  <1>3. w.active # None /\ a # None BY <1>2 DEF SlotInv
  <1>4. w.active \in Call /\ w.got \in Nat /\ a \in Reservation BY <1>1, <1>2, <1>3, Record DEF Working
  <1>5. m \in Methods /\ w.active.id \in Nat BY <1>4 DEF Call
  <1>6. t \in BOOLEAN /\ (~t) \in BOOLEAN OBVIOUS
  <1>7. n \in Nat
    <2>1. a.blocks \in Nat BY <1>4, Fields
    <2> HIDE DEF a
    <2> QED BY <2>1
  <1>8. s \in Seq(Nat) BY <1>4, Fields, AppendProperties
  <1>9. i \in BOOLEAN /\ c \in BOOLEAN BY <1>4, Fields
  <1>10. b = [a EXCEPT !.last = w.active.id, !.timely = t, !.blocks = n, !.replaced = s, !.inval = i,
         !.clean = c]
    BY <1>4 DEF accountActionReceipt, Reservation
  <1>11. Receipted(a, b, m, w.got)
    <2>1. /\ b.request = a.request /\ b.stop = a.stop /\ b.original = a.original /\ b.fork = a.fork
          /\ b.hash = a.hash /\ b.accepted = a.accepted /\ b.final = a.final
          /\ b.blocks = n /\ b.replaced = s /\ b.inval = i /\ b.clean = c
      <3> HIDE DEF b, t, n, s, i, c
      <3> QED BY <1>4, <1>10 DEF Reservation
    <2> HIDE DEF b
    <2> QED BY <2>1 DEF Receipted
  <1>12. b \in Reservation
    <2> HIDE DEF b, t, n, s, i, c
    <2> QED BY <1>4, <1>5, <1>6, <1>7, <1>8, <1>9, <1>10 DEF Reservation
  <1> HIDE DEF b, t, n, s, i, c
  <1>13. b # None BY <1>12 DEF Nil
  <1>14. exec' \in Execution /\ exec'.exists = exec.exists /\ exec'.armed = None /\ exec'.action = b
    BY <1>1, <1>2, <1>12 DEF Execution
  <1>15. /\ w' \in Working /\ w'.pc = w.pc /\ w'.exec = w.exec /\ w'.method = w.method
         /\ w'.request = w.request /\ w'.active = None /\ w'.got = None
    BY <1>1, <1>2 DEF Working
  <1> QED BY <1>2, <1>3, <1>4, <1>11, <1>12, <1>13, <1>14, <1>15

LEMMA WithdrawWrites ==
  ASSUME Types, Nil, SlotInv, Withdraw
  PROVE  /\ UNCHANGED aside /\ exec.exists /\ exec.action # None /\ exec.armed # None /\ w' = Done
         /\ w.pc = "confirm"
         /\ exec' \in Execution /\ exec'.exists = exec.exists /\ exec'.armed = None
         /\ exec'.action \in Reservation /\ exec'.action # None /\ Settled(exec.action, exec'.action)
  <1>1. exec \in Execution BY Parts
  <1>2. UNCHANGED aside /\ exec.exists /\ w' = Done /\ w.pc = "confirm" /\ exec.armed = w.exec.armed
      BY DEF Withdraw
  <1>3. exec.armed # None BY <1>2 DEF Types, HeldInv
  <1>4. exec.action # None BY <1>3 DEF SlotInv
  <1>5. exec.action \in Reservation BY <1>1, <1>4, Record
  <1> DEFINE e == stopAction(exec, "Stopped", FALSE)
  <1>6. exec' = [e EXCEPT !.armed = None] \/ exec' = [exec EXCEPT !.armed = None] BY DEF Withdraw
  <1>7. e \in Execution /\ e.action \in Reservation /\ Settled(exec.action, e.action)
        /\ e.exists = exec.exists
    BY <1>1, <1>4, Stopped
  <1> HIDE DEF e
  <1>8. CASE exec' = [e EXCEPT !.armed = None]
    <2>1. /\ exec' \in Execution /\ exec'.exists = exec.exists /\ exec'.armed = None
             /\ exec'.action = e.action
      BY <1>7, <1>8 DEF Execution
    <2>2. exec'.action # None BY <1>7, <2>1 DEF Nil
    <2> QED BY <1>2, <1>3, <1>4, <1>7, <2>1, <2>2
  <1>9. CASE exec' = [exec EXCEPT !.armed = None]
    <2>1. /\ exec' \in Execution /\ exec'.exists = exec.exists /\ exec'.armed = None
             /\ exec'.action = exec.action
      BY <1>1, <1>9 DEF Execution
    <2>2. Settled(exec.action, exec.action) BY DEF Settled, Same
    <2> QED BY <1>2, <1>3, <1>4, <1>5, <2>1, <2>2
  <1> QED BY <1>6, <1>8, <1>9

LEMMA ChainMovedWrites ==
  ASSUME Types, Nil, ChainMoved
  PROVE  UNCHANGED aside /\ exec.exists /\ w' = Done /\ Amending
  <1>1. exec \in Execution BY Parts
  <1>2. UNCHANGED aside /\ exec.exists /\ exec.action # None /\ w' = Done BY DEF ChainMoved
  <1>3. Amended(exec, exec') /\ Settled(exec.action, exec'.action)
    BY <1>1, <1>2, StoppedAmends DEF ChainMoved
  <1> QED BY <1>2, <1>3 DEF Amending

LEMMA ConfirmWrites ==
  ASSUME Types, Nil, Confirm
  PROVE  /\ UNCHANGED <<chain, exec, req, root, life, clock, made, spec, budget>>
         /\ w.pc = "confirm" /\ authorizeMutation(w.exec.action, w.method)
         /\ w.exec.armed \in Call /\ wire' = wire \cup {w.exec.armed}
         /\ w' \in Working /\ w'.pc = "idle" /\ w'.active = w.exec.armed /\ w'.got = w.got
  <1>1. /\ UNCHANGED <<chain, exec, req, root, life, clock, made, spec, budget>> /\ w.pc = "confirm"
        /\ authorizeMutation(w.exec.action, w.method)
        /\ wire' = wire \cup {w.exec.armed} /\ w' = [Done EXCEPT !.active = w.exec.armed]
    BY DEF Confirm
  <1>2. w \in Working BY Parts
  <1>3. w.exec \in Execution /\ w.exec.armed # None BY <1>1 DEF Types, HeldInv
  <1>4. w.exec.armed \in Call BY <1>3, Record
  <1>5. Done \in Working /\ Done.pc = "idle" /\ Done.got = w.got BY <1>2 DEF Done, Working, Methods
  <1>6. w' \in Working /\ w'.pc = "idle" /\ w'.active = w.exec.armed /\ w'.got = w.got
    BY <1>1, <1>4, <1>5 DEF Working
  <1> QED BY <1>1, <1>4, <1>6

LEMMA CallTypes ==
  ASSUME ActionsInv, Nil, Arm \/ ChainMoved \/ Confirm \/ Withdraw \/ Account PROVE Types'
  <1> USE DEF ActionsInv
  <1>1. w \in Working /\ exec \in Execution /\ wire \subseteq Call BY Parts
  <1>2. CASE Arm
    <2>1. exec'.action # None /\ exec'.armed # None BY <1>2, ArmWrites
    <2> QED BY <1>2, <2>1, ArmWrites, RecordTypes
  <1>3. CASE ChainMoved
    <2>1. exec' \in Execution BY <1>3, ChainMovedWrites DEF Amending, Amended
    <2> QED BY <1>1, <1>3, <2>1, ChainMovedWrites, DoneType, RecordTypes
  <1>4. CASE Confirm
    <2>1. wire' \subseteq Call /\ root' = root /\ budget' = budget BY <1>1, <1>4, ConfirmWrites
    <2>2. /\ budget' \in [Kinds -> Nat]
          /\ root' \in [mode : {"Running", "Paused", "Stopped", "Deleting", "Gone"}, actor : Nat,
             enabled : BOOLEAN]
      BY <2>1, Parts
    <2> QED BY <1>4, <2>1, <2>2, ConfirmWrites, WorkerTypes
  <1>5. CASE Withdraw
    <2>1. SlotInv BY <1>5 DEF Withdraw
    <2> QED BY <1>1, <1>5, <2>1, WithdrawWrites, DoneType, RecordTypes
  <1>6. CASE Account
    <2>1. SlotInv BY <1>6 DEF Account
    <2>2. /\ w'.pc # "idle" => w'.exec \in Execution
          /\ w'.pc \in {"reserve", "decide", "confirm"} => w'.exec.action # None
          /\ w'.pc = "confirm" => w'.exec.armed # None
      BY <1>6, <2>1, AccountWrites DEF Types, HeldInv
    <2> QED BY <1>6, <2>1, <2>2, AccountWrites, RecordTypes
  <1> QED BY <1>2, <1>3, <1>4, <1>5, <1>6

-----------------------------------------------------------------------------
(* What the operator reports *)

\* All but the phase.
Alike(s, t) ==
    /\ t.state = s.state /\ t.fin = s.fin /\ t.adm = s.adm /\ t.blocks = s.blocks
    /\ t.last = s.last /\ t.clean = s.clean /\ t.nothing = s.nothing

LEMMA RequestFields ==
  ASSUME NEW s \in Request
  PROVE  /\ s.state \in {"absent", "live", "deleting", "gone"} /\ s.fin \in BOOLEAN /\ s.phase \in Phases
         /\ s.adm \in BOOLEAN /\ s.blocks \in Nat /\ s.last \in Nat /\ s.clean \in BOOLEAN
         /\ s.nothing \in BOOLEAN
  BY DEF Request

LEMMA Phasing ==
  ASSUME NEW s \in Request, NEW p \in Phases
  PROVE  [s EXCEPT !.phase = p] \in Request /\ Alike(s, [s EXCEPT !.phase = p])
         /\ [s EXCEPT !.phase = p].phase = p
  BY DEF Request, Alike

LEMMA Finishing ==
  ASSUME NEW s \in Request, NEW p \in Phases
  PROVE  /\ finish(s, p) \in Request /\ Alike(s, finish(s, p))
         /\ finish(s, p).phase = IF IsTerminalPhase(s.phase) THEN s.phase ELSE p
  BY DEF Request, Alike, finish

LEMMA PhaseNames ==
  {"", "Pending", "Admitted", "Active", "Recovering", "Completed", "Failed", "Inconclusive"} \subseteq Phases
  BY DEF Phases

\* The action is complete by its receipts.
Complete(a, r) == IF reorganizes(a) THEN a.final # None ELSE a.blocks = quota(r)

LEMMA ProjectCases ==
  ASSUME NEW s, bound
  PROVE  \/ IsTerminalPhase(s.phase) /\ project(s) = s
         \/ project(s) = finish(s, "Inconclusive")
         \/ /\ project(s) = finish(s, "Completed") /\ Complete(life.exec.action, life.request)
            /\ life.exec.armed = None
         \/ /\ project(s) = finish(s, "Failed") /\ life.exec.armed = None /\ life.exec.action.stop # ""
            /\ compensated(life.exec.action)
         \/ /\ ~IsTerminalPhase(s.phase)
            /\ \E p \in {"Recovering", "Active", "Admitted"} : project(s) = [s EXCEPT !.phase = p]
  <1> DEFINE a == life.exec.action
             armed == life.exec.armed
             p == IF a.started THEN "Active" ELSE "Admitted"
             q == IF a.stop = "IdentityDiverged" /\ a.started THEN "Inconclusive" ELSE "Failed"
  <1>1. complete(a) => Complete(a, life.request) BY DEF complete, Complete, bound
  <1> DEFINE late == clock[life.request] > 0
             T == IsTerminalPhase(s.phase)
             U == a.uncertain \/ a.unsafe
             C == complete(a) /\ armed = None /\ a.stop = ""
             L == (late \/ life.copy.state = "deleting") /\ armed # None
             M == armed.method = "reconsider" /\ clock[life.request] < 2
             N == ~compensated(a) /\ clock[life.request] = 2
             S == a.stop # "" /\ armed = None
             K == compensated(a)
             recovering == [s EXCEPT !.phase = "Recovering"]
             going == [s EXCEPT !.phase = p]
             doubt == finish(s, "Inconclusive")
             done == finish(s, "Completed")
             failed == finish(s, q)
  <1>7. project(s) = IF T THEN s ELSE IF U THEN doubt ELSE IF C THEN done
                     ELSE IF L THEN IF M THEN recovering ELSE doubt
                     ELSE IF N THEN doubt
                     ELSE IF S THEN IF ~K THEN recovering ELSE failed
                     ELSE going
    <2>1. T => project(s) = s BY DEF project
    <2>2. ~T /\ U => project(s) = doubt BY DEF project
    <2>3. ~T /\ ~U /\ C => project(s) = done BY DEF project
    <2>4. ~T /\ ~U /\ ~C /\ L => project(s) = IF M THEN recovering ELSE doubt BY DEF project
    <2>5. ~T /\ ~U /\ ~C /\ ~L /\ N => project(s) = doubt BY DEF project
    <2>6. ~T /\ ~U /\ ~C /\ ~L /\ ~N /\ S /\ ~K => project(s) = recovering BY DEF project
    <2>7. ~T /\ ~U /\ ~C /\ ~L /\ ~N /\ S /\ K => project(s) = failed BY DEF project
    <2>8. ~T /\ ~U /\ ~C /\ ~L /\ ~N /\ ~S => project(s) = going BY DEF project
    <2> HIDE DEF T, U, C, L, M, N, S, K, recovering, going, doubt, done, failed
    <2> QED BY <2>1, <2>2, <2>3, <2>4, <2>5, <2>6, <2>7, <2>8
  <1>2. \/ T /\ project(s) = s
        \/ project(s) = doubt
        \/ project(s) = done /\ complete(a) /\ armed = None
        \/ project(s) = failed /\ armed = None /\ a.stop # "" /\ compensated(a)
        \/ ~T /\ project(s) = recovering
        \/ ~T /\ project(s) = going
    <2>1. (C => complete(a) /\ armed = None) /\ (S => armed = None /\ a.stop # "") /\ (K => compensated(a))
      OBVIOUS
    <2> HIDE DEF T, U, C, L, M, N, S, K, recovering, going, doubt, done, failed, late, a, armed
    <2> QED BY <1>7, <2>1
  <1>3. p \in {"Active", "Admitted"} /\ q \in {"Inconclusive", "Failed"} OBVIOUS
  <1> HIDE DEF p, q
  <1>4. CASE ~IsTerminalPhase(s.phase) /\ project(s) = [s EXCEPT !.phase = p] BY <1>3, <1>4, Zenon
  <1>5. CASE ~IsTerminalPhase(s.phase) /\ project(s) = [s EXCEPT !.phase = "Recovering"] BY <1>5, Zenon
  <1>6. CASE project(s) = finish(s, q) /\ armed = None /\ a.stop # "" /\ compensated(a)
    BY <1>3, <1>6
  <1> QED BY <1>1, <1>2, <1>4, <1>5, <1>6, Zenon

LEMMA UnboundCases ==
  ASSUME NEW s
  PROVE  \/ IsTerminalPhase(s.phase) /\ unbound(s) = s
         \/ unbound(s) = finish(s, "Inconclusive")
         \/ ~s.adm /\ ~IsTerminalPhase(s.phase) /\ unbound(s) = [finish(s, "Failed") EXCEPT !.nothing = TRUE]
         \/ ~s.adm /\ ~IsTerminalPhase(s.phase) /\ unbound(s) = [s EXCEPT !.phase = "Pending"]
  BY Zenon DEF unbound

LEMMA Evidence ==
  ASSUME NEW s \in Request, life.exec.action \in Reservation
  PROVE  LET t == copyEvidence(s) IN
         /\ t \in Request /\ t.adm /\ t.blocks = life.exec.action.blocks
         /\ t.state = s.state /\ t.fin = s.fin /\ t.phase = s.phase /\ t.nothing = s.nothing
  <1> DEFINE a == life.exec.action
             t == copyEvidence(s)
  <1>1. a.blocks \in Nat /\ a.last \in Nat /\ a.clean \in BOOLEAN BY Fields
  <1>2. t = [s EXCEPT !.adm = TRUE, !.blocks = a.blocks, !.last = a.last, !.clean = a.clean]
      BY DEF copyEvidence
  <1> HIDE DEF a, t
  <1>3. /\ t \in Request /\ t.adm /\ t.blocks = a.blocks
        /\ t.state = s.state /\ t.fin = s.fin /\ t.phase = s.phase /\ t.nothing = s.nothing
    BY <1>1, <1>2 DEF Request
  <1> QED BY <1>3 DEF a, t

\* The status of a request no reservation names; c is what the operator read.
UnboundReport(c, s) ==
    /\ s \in Request /\ s.state = c.state /\ s.fin = c.fin /\ s.adm = c.adm /\ s.blocks = c.blocks
    /\ IsTerminalPhase(c.phase) => s.phase = c.phase
    /\ c.nothing => s.nothing
    /\ s.nothing => c.nothing \/ (~c.adm /\ s.phase = "Failed")
    /\ s.phase = "Completed" => c.phase = "Completed"
    /\ s.phase = "Failed" => c.phase = "Failed" \/ ~c.adm

LEMMA UnboundReports == ASSUME NEW c \in Request PROVE UnboundReport(c, unbound(c))
  <1>0. PICK p \in Phases : p = "Inconclusive" /\ "Failed" \in Phases /\ "Pending" \in Phases BY PhaseNames
  <1>1. CASE IsTerminalPhase(c.phase) /\ unbound(c) = c
    BY <1>1 DEF UnboundReport
  <1>2. CASE unbound(c) = finish(c, "Inconclusive")
    <2> DEFINE s == finish(c, "Inconclusive")
    <2>1. s \in Request /\ Alike(c, s)
          /\ s.phase = IF IsTerminalPhase(c.phase) THEN c.phase ELSE "Inconclusive"
      BY <1>0, Finishing
    <2> HIDE DEF s
    <2>2. UnboundReport(c, s) BY <2>1 DEF UnboundReport, Alike
    <2> QED BY <1>2, <2>2 DEF s
  <1>3. CASE ~c.adm /\ ~IsTerminalPhase(c.phase) /\ unbound(c) = [finish(c, "Failed") EXCEPT !.nothing = TRUE]
    <2> DEFINE s == finish(c, "Failed")
               t == [s EXCEPT !.nothing = TRUE]
    <2>1. s \in Request /\ Alike(c, s) /\ s.phase = "Failed" BY <1>0, <1>3, Finishing
    <2>2. t = unbound(c) BY <1>3
    <2> HIDE DEF s
    <2>3. t \in Request /\ t.state = s.state /\ t.fin = s.fin /\ t.adm = s.adm /\ t.blocks = s.blocks
          /\ t.phase = s.phase /\ t.nothing
      BY <2>1 DEF Request
    <2> HIDE DEF t
    <2>4. UnboundReport(c, t) BY <1>3, <2>1, <2>3 DEF UnboundReport, Alike
    <2> QED BY <2>2, <2>4
  <1>4. CASE ~c.adm /\ ~IsTerminalPhase(c.phase) /\ unbound(c) = [c EXCEPT !.phase = "Pending"]
    <2> DEFINE t == [c EXCEPT !.phase = "Pending"]
    <2>1. t \in Request /\ Alike(c, t) /\ t.phase = "Pending" BY <1>0, Phasing
    <2>2. t = unbound(c) BY <1>4
    <2> HIDE DEF t
    <2>3. UnboundReport(c, t) BY <1>4, <2>1 DEF UnboundReport, Alike
    <2> QED BY <2>2, <2>3
  <1> QED BY <1>1, <1>2, <1>3, <1>4, UnboundCases

\* The status of a request that the reservation names.
BoundReport(c, s) ==
    LET b == life.exec.action IN
    /\ s \in Request /\ s.state = c.state /\ s.fin = c.fin /\ s.adm /\ s.blocks = b.blocks
    /\ s.nothing = c.nothing
    /\ IsTerminalPhase(c.phase) => s.phase = c.phase
    /\ s.phase = "Completed" =>
         c.phase = "Completed" \/ (~disposed /\ life.exec.armed = None /\ Complete(b, life.request))
    /\ s.phase = "Failed" =>
         c.phase = "Failed" \/ (~disposed /\ life.exec.armed = None /\ b.stop # "" /\ compensated(b))

LEMMA BoundReports ==
  ASSUME NEW c \in Request, life.exec.action \in Reservation, bound
  PROVE  /\ BoundReport(c, finish(copyEvidence(c), "Inconclusive"))
         /\ ~disposed => BoundReport(c, project(copyEvidence(c)))
  <1> DEFINE e == copyEvidence(c)
             b == life.exec.action
  <1>1. /\ e \in Request /\ e.adm /\ e.blocks = b.blocks
        /\ e.state = c.state /\ e.fin = c.fin /\ e.phase = c.phase /\ e.nothing = c.nothing
    BY Evidence
  <1> HIDE DEF e
  <1>0. /\ "Inconclusive" \in Phases /\ "Completed" \in Phases /\ "Failed" \in Phases
        /\ {"Recovering", "Active", "Admitted"} \subseteq Phases
    BY PhaseNames
  <1>2. BoundReport(c, finish(e, "Inconclusive"))
    <2> DEFINE s == finish(e, "Inconclusive")
    <2>1. s \in Request /\ Alike(e, s)
          /\ s.phase = IF IsTerminalPhase(e.phase) THEN e.phase ELSE "Inconclusive"
      BY <1>0, <1>1, Finishing
    <2> HIDE DEF s
    <2>2. BoundReport(c, s) BY <1>1, <2>1 DEF BoundReport, Alike
    <2> QED BY <2>2 DEF s
  <1>3. ASSUME ~disposed PROVE BoundReport(c, project(e))
    <2>1. CASE IsTerminalPhase(e.phase) /\ project(e) = e
      BY <1>1, <2>1 DEF BoundReport
    <2>2. CASE project(e) = finish(e, "Inconclusive") BY <1>2, <2>2
    <2>3. CASE /\ project(e) = finish(e, "Completed") /\ Complete(b, life.request)
               /\ life.exec.armed = None
      <3> DEFINE s == finish(e, "Completed")
      <3>1. s \in Request /\ Alike(e, s)
            /\ s.phase = IF IsTerminalPhase(e.phase) THEN e.phase ELSE "Completed"
        BY <1>0, <1>1, Finishing
      <3> HIDE DEF s
      <3>2. BoundReport(c, s) BY <1>1, <1>3, <2>3, <3>1 DEF BoundReport, Alike
      <3> QED BY <2>3, <3>2 DEF s
    <2>4. CASE /\ project(e) = finish(e, "Failed") /\ life.exec.armed = None /\ b.stop # "" /\ compensated(b)
      <3> DEFINE s == finish(e, "Failed")
      <3>1. s \in Request /\ Alike(e, s) /\ s.phase = IF IsTerminalPhase(e.phase) THEN e.phase ELSE "Failed"
        BY <1>0, <1>1, Finishing
      <3> HIDE DEF s
      <3>2. BoundReport(c, s) BY <1>1, <1>3, <2>4, <3>1 DEF BoundReport, Alike
      <3> QED BY <2>4, <3>2 DEF s
    <2>5. CASE /\ ~IsTerminalPhase(e.phase)
               /\ \E p \in {"Recovering", "Active", "Admitted"} : project(e) = [e EXCEPT !.phase = p]
      <3>1. PICK p \in {"Recovering", "Active", "Admitted"} : project(e) = [e EXCEPT !.phase = p] BY <2>5
      <3> DEFINE s == [e EXCEPT !.phase = p]
      <3>2. s \in Request /\ Alike(e, s) /\ s.phase = p BY <1>0, <1>1, Phasing
      <3>3. project(e) = s BY <3>1
      <3> HIDE DEF s
      <3>4. BoundReport(c, s) BY <1>1, <2>5, <3>2 DEF BoundReport, Alike, IsTerminalPhase
      <3> QED BY <3>3, <3>4
    <2> QED BY <2>1, <2>2, <2>3, <2>4, <2>5, ProjectCases
  <1> QED BY <1>2, <1>3 DEF e

\* The finalizer is released: the request says what it said.
Closing(c, s) ==
    /\ s \in Request /\ s.phase = c.phase /\ s.adm = c.adm /\ s.blocks = c.blocks /\ s.nothing = c.nothing
    /\ s.state \in {c.state, "gone"}

LEMMA ReportWrites ==
  ASSUME Types, Nil, ReportAction
  PROVE  /\ UNCHANGED apart /\ life.pc = "write" /\ life' = NoLife /\ life.request \in Requests
         /\ req[life.request] = life.copy /\ req[life.request] \in Request
         /\ req' \in [Requests -> Request]
         /\ \A q \in Requests : q # life.request => req'[q] = req[q]
         /\ \/ ~bound /\ UnboundReport(req[life.request], req'[life.request])
            \/ bound /\ BoundReport(req[life.request], req'[life.request])
            \/ Closing(req[life.request], req'[life.request])
  <1> DEFINE r == life.request
             c == life.copy
             t == IF c.state = "deleting" THEN "gone" ELSE c.state
             k == [c EXCEPT !.fin = FALSE, !.state = t]
             n == IF projected # c THEN projected
                  ELSE IF (IsTerminalPhase(projected.phase) /\ (disposed \/ (~bound /\ available)))
                      /\ c.fin THEN k
                  ELSE c
  <1>1. /\ UNCHANGED apart /\ life.pc = "write" /\ req[r] = c /\ life' = NoLife
        /\ req' = [req EXCEPT ![r] = n]
    BY DEF ReportAction
  <1>2. req \in [Requests -> Request] /\ life \in Operating BY Parts
  <1>3. r \in Requests /\ c \in Request /\ life.exec \in Execution BY <1>1 DEF Types, HeldInv
  <1>4. Closing(c, k)
    <2>1. t \in {"absent", "live", "deleting", "gone"} /\ t \in {c.state, "gone"} BY <1>3 DEF Request
    <2> HIDE DEF t, c
    <2>2. /\ k \in Request /\ k.phase = c.phase /\ k.adm = c.adm /\ k.blocks = c.blocks
          /\ k.nothing = c.nothing /\ k.state = t
      BY <1>3, <2>1 DEF Request
    <2> HIDE DEF k
    <2> QED BY <2>1, <2>2 DEF Closing
  <1>5. Closing(c, c) BY <1>3 DEF Closing
  <1>6. \/ ~bound /\ UnboundReport(c, projected)
        \/ bound /\ BoundReport(c, projected)
    <2>1. CASE ~bound
      <3>1. projected = unbound(c) BY <2>1 DEF projected
      <3>2. UnboundReport(c, unbound(c)) BY <1>3, UnboundReports
      <3> QED BY <2>1, <3>1, <3>2
    <2>2. CASE bound
      <3>1. life.exec.action \in Reservation BY <1>3, <2>2, Record DEF bound
      <3>2. /\ disposed => projected = finish(copyEvidence(c), "Inconclusive")
            /\ ~disposed => projected = project(copyEvidence(c))
        BY <2>2 DEF projected
      <3>3. /\ BoundReport(c, finish(copyEvidence(c), "Inconclusive"))
            /\ ~disposed => BoundReport(c, project(copyEvidence(c)))
        BY <1>3, <2>2, <3>1, BoundReports
      <3> QED BY <2>2, <3>2, <3>3
    <2> QED BY <2>1, <2>2
  <1>7. n = projected \/ n = k \/ n = c OBVIOUS
  <1> HIDE DEF n, k
  <1>8. \/ ~bound /\ UnboundReport(c, n)
        \/ bound /\ BoundReport(c, n)
        \/ Closing(c, n)
    BY <1>4, <1>5, <1>6, <1>7
  <1>9. n \in Request BY <1>8 DEF UnboundReport, BoundReport, Closing
  <1>10. req' \in [Requests -> Request] /\ req'[r] = n /\ \A q \in Requests : q # r => req'[q] = req[q]
    BY <1>1, <1>2, <1>3, <1>9
  <1> QED BY <1>1, <1>3, <1>8, <1>10

\* A request whose state or finalizer changes, and nothing else.
Marks(c, s) ==
    /\ s \in Request /\ s.phase = c.phase /\ s.adm = c.adm /\ s.blocks = c.blocks /\ s.nothing = c.nothing

LEMMA RequestWrites ==
  ASSUME Types, Nil, NEW q \in Requests,
         \/ AddFinalizer /\ q = life.request
         \/ Create(q) \/ Delete(q)
  PROVE  /\ UNCHANGED <<chain, wire, exec, root, w, clock, made, spec>>
         /\ (AddFinalizer => life' = NoLife) /\ (~AddFinalizer => life' = life)
         /\ req' \in [Requests -> Request] /\ \A r \in Requests : r # q => req'[r] = req[r]
         /\ req[q] \in Request /\ Marks(req[q], req'[q])
         /\ \/ req[q].state = "absent" /\ spec[q] # None
            \/ req[q].state = req'[q].state
            \/ req[q].state = "live" /\ req'[q].state \in {"deleting", "gone"}
         /\ req'[q].state # "absent" \/ req'[q].state = req[q].state
         /\ budget' \in [Kinds -> Nat]
  <1>1. req \in [Requests -> Request] /\ budget \in [Kinds -> Nat] BY Parts
  <1>2. req[q] \in Request BY <1>1
  <1> DEFINE c == req[q]
  <1>3. CASE AddFinalizer /\ q = life.request
    <2> DEFINE s == [c EXCEPT !.fin = TRUE]
    <2>1. req' = [req EXCEPT ![q] = s] BY <1>3 DEF AddFinalizer
    <2> HIDE DEF c
    <2>2. Marks(c, s) /\ s.state = c.state BY <1>2 DEF Marks, Request, c
    <2> HIDE DEF s
    <2>3. req'[q] = s /\ req' \in [Requests -> Request] /\ \A r \in Requests : r # q => req'[r] = req[r]
      BY <1>1, <2>1, <2>2 DEF Marks
    <2>4. UNCHANGED <<chain, wire, exec, root, w, clock, made, spec, budget>> /\ life' = NoLife
      BY <1>3 DEF AddFinalizer, apart
    <2> QED BY <1>1, <1>2, <1>3, <2>2, <2>3, <2>4 DEF c
  <1>4. CASE ~AddFinalizer /\ (Create(q) \/ Delete(q))
    <2> DEFINE t == IF Create(q) THEN "live" ELSE IF c.fin THEN "deleting" ELSE "gone"
               s == [c EXCEPT !.state = t]
    <2>0. ~(Create(q) /\ Delete(q)) BY DEF Create, Delete
    <2>1. req' = [req EXCEPT ![q] = s] BY <1>4, <2>0 DEF Create, Delete
    <2>4. /\ UNCHANGED <<chain, wire, exec, root, w, clock, made, spec, life>> /\ budget' \in [Kinds -> Nat]
      BY <1>1, <1>4, Taking, KindsHave DEF Create, Delete, apart
    <2>5. \/ t = "live" /\ c.state = "absent" /\ spec[q] # None
          \/ t \in {"deleting", "gone"} /\ c.state = "live"
      BY <1>4 DEF Create, Delete
    <2> HIDE DEF t, c
    <2>2. Marks(c, s) /\ s.state = t BY <1>2, <2>5 DEF Marks, Request, c
    <2> HIDE DEF s
    <2>3. req'[q] = s /\ req' \in [Requests -> Request] /\ \A r \in Requests : r # q => req'[r] = req[r]
      BY <1>1, <2>1, <2>2 DEF Marks
    <2> QED BY <1>2, <1>4, <2>2, <2>3, <2>4, <2>5 DEF c
  <1>5. AddFinalizer => ~(Create(q) \/ Delete(q))
    <2>1. AddFinalizer => life.pc = "exec" /\ life' = NoLife BY DEF AddFinalizer
    <2>2. Create(q) \/ Delete(q) => life' = life BY DEF Create, Delete
    <2>3. NoLife.pc = "idle" BY DEF NoLife
    <2> QED BY <2>1, <2>2, <2>3
  <1> QED BY <1>3, <1>4, <1>5

LEMMA OperatorTypes ==
  ASSUME Types, Nil,
         \/ ReportAction \/ AddFinalizer \/ ReadExecution \/ AbortLife
         \/ \E r \in Requests : ReadRequest(r) \/ Create(r) \/ Delete(r)
  PROVE  Types'
  <1>1. NoLife \in Operating /\ NoLife.pc = "idle" BY DEF NoLife, Operating
  <1>2. /\ req \in [Requests -> Request] /\ life \in Operating /\ exec \in Execution
           /\ budget \in [Kinds -> Nat]
    BY Parts
  <1>3. ASSUME UNCHANGED <<chain, wire, exec, root, w, clock, made, spec>>, budget' \in [Kinds -> Nat],
               req' \in [Requests -> Request], life' \in Operating,
               life'.pc # "idle" => life'.request \in Requests /\ life'.copy \in Request,
               life'.pc = "write" => life'.exec \in Execution
        PROVE  Types'
    BY <1>3 DEF Types, TypeOK, HeldInv, Operating
  <1>4. CASE ReportAction BY <1>1, <1>2, <1>3, <1>4, ReportWrites DEF apart
  <1>5. CASE AddFinalizer
    <2>1. life.request \in Requests BY <1>5 DEF AddFinalizer, Types, HeldInv
    <2> DEFINE q == life.request
    <2>2. q \in Requests /\ q = life.request BY <2>1
    <2> HIDE DEF q
    <2> QED BY <1>1, <1>3, <1>5, <2>2, RequestWrites
  <1>6. ASSUME NEW r \in Requests, Create(r) \/ Delete(r) PROVE Types'
    <2>1. ~AddFinalizer \/ life' = NoLife BY <1>6, RequestWrites
    <2>2. life' \in Operating /\ (life' = life \/ life' = NoLife) BY <1>1, <1>2, <1>6, <2>1, RequestWrites
    <2>3. /\ life'.pc # "idle" => life'.request \in Requests /\ life'.copy \in Request
          /\ life'.pc = "write" => life'.exec \in Execution
      BY <1>1, <2>2 DEF Types, HeldInv
    <2> QED BY <1>3, <1>6, <2>2, <2>3, RequestWrites
  <1>7. CASE ReadExecution
    <2>1. life' = [life EXCEPT !.pc = "write", !.exec = exec] /\ life.pc = "exec" /\ UNCHANGED <<apart, req>>
      BY <1>7 DEF ReadExecution
    <2>2. /\ life' \in Operating /\ life'.request = life.request /\ life'.copy = life.copy
             /\ life'.exec = exec
      BY <1>2, <2>1 DEF Operating
    <2>3. life.request \in Requests /\ life.copy \in Request BY <2>1 DEF Types, HeldInv
    <2> QED BY <1>2, <1>3, <2>1, <2>2, <2>3 DEF apart
  <1>8. CASE AbortLife BY <1>1, <1>2, <1>3, <1>8 DEF AbortLife, apart
  <1>9. ASSUME NEW r \in Requests, ReadRequest(r) PROVE Types'
    <2>1. life' = [NoLife EXCEPT !.pc = "exec", !.request = r, !.copy = req[r]] /\ UNCHANGED <<apart, req>>
      BY <1>9 DEF ReadRequest
    <2>2. req[r] \in Request BY <1>2
    <2>3. life' \in Operating /\ life'.request = r /\ life'.copy = req[r] /\ life'.pc = "exec"
      BY <2>1, <2>2 DEF NoLife, Operating
    <2> QED BY <1>2, <1>3, <2>1, <2>2, <2>3 DEF apart
  <1> QED BY <1>4, <1>5, <1>6, <1>7, <1>8, <1>9

-----------------------------------------------------------------------------
(* What becomes of the chain *)

LEMMA Growing ==
  ASSUME NEW c, NEW x, NEW y, GoodChain(c), GoodChain(x), GoodChain(y), Grown(c, x), Grown(x, y)
  PROVE  Grown(c, y)
  <1>1. Len(c.path) \in Nat /\ Len(x.path) \in Nat /\ Len(y.path) \in Nat BY LenProperties DEF GoodChain
  <1>2. \A b \in 0..Len(c.path) : b \in 0..Len(x.path) BY <1>1 DEF Grown
  <1> QED BY <1>1, <1>2 DEF Grown

LEMMA Itself == ASSUME NEW c, GoodChain(c) PROVE Grown(c, c)
  <1>1. Len(c.path) \in Nat BY LenProperties DEF GoodChain
  <1> QED BY <1>1 DEF Grown

LEMMA Marking ==
  ASSUME NEW c, GoodChain(c), NEW s \in SUBSET (1..Len(c.path))
  PROVE  LET x == [c EXCEPT !.marked = s] IN
         GoodChain(x) /\ Grown(c, x) /\ x.marked = s /\ x.path = c.path
  <1> DEFINE x == [c EXCEPT !.marked = s]
  <1>1. Len(c.path) \in Nat /\ c \in Chain BY LenProperties DEF GoodChain
  <1>2. s \subseteq Nat BY <1>1
  <1>3. x \in Chain /\ x.path = c.path /\ x.tip = c.tip /\ x.marked = s BY <1>1, <1>2 DEF Chain
  <1> HIDE DEF x
  <1>4. GoodChain(x) BY <1>3 DEF GoodChain
  <1>5. Grown(c, x) BY <1>1, <1>3 DEF Grown, line
  <1> QED BY <1>3, <1>4, <1>5 DEF x

LEMMA PeerChain ==
  ASSUME ActionsInv, Nil, Peer
  PROVE  /\ UNCHANGED <<wire, exec, req, root, w, life, clock, made, spec>> /\ budget' \in [Kinds -> Nat]
         /\ GoodChain(chain') /\ Grown(chain, chain') /\ chain'.marked = chain.marked
  <1>1. GoodChain(chain) BY Parts DEF ActionsInv
  <1>2. PICK b \in {chain.tip} \cup (IF exec.action = None THEN {} ELSE {exec.action.original}) :
          chain' \in activated(extended(chain, b))
    BY DEF Peer
  <1>3. Known(chain, b)
    <2>1. Known(chain, chain.tip) BY <1>1 DEF GoodChain, Known
    <2>2. exec.action # None => Known(chain, exec.action.original) BY DEF ActionsInv, ReplacementInv,
        Replacing
    <2> QED BY <2>1, <2>2
  <1> DEFINE x == extended(chain, b)
  <1>4. GoodChain(x) /\ Grown(chain, x) /\ x.marked = chain.marked BY <1>1, <1>3, Extension
  <1> HIDE DEF x
  <1>5. chain' \in activated(x) BY <1>2 DEF x
  <1>6. GoodChain(chain') /\ Grown(x, chain') /\ chain'.marked = x.marked BY <1>4, <1>5, Activation
  <1>7. Grown(chain, chain') BY <1>1, <1>4, <1>6, Growing
  <1>8. Types BY DEF ActionsInv
  <1>9. budget' \in [Kinds -> Nat] BY <1>8, Taking, KindsHave DEF Peer
  <1> QED BY <1>4, <1>6, <1>7, <1>9 DEF Peer

\* What a call does to the markers.
MarkedBy(a, m) ==
    CASE m = "generate" -> chain'.marked = chain.marked
      [] m = "invalidate" -> chain'.marked = chain.marked \cup {a.hash}
      [] m = "reconsider" -> chain'.marked = chain.marked \ {a.hash}

LEMMA ExecuteCall ==
  ASSUME ActionsInv, Nil, NEW call, Execute(call)
  PROVE  /\ exec.exists /\ SlotInv /\ ArmedInv /\ CountInv
         /\ call \in wire /\ call \in Call /\ call # None /\ call = exec.armed
         /\ exec.action # None /\ exec.action \in Reservation
         /\ call.method \in Methods /\ call.request \in Requests /\ call.request = exec.action.request
         /\ Needed(exec.action, call.method) /\ Sound(exec.action) /\ wire' = {} /\ wire = {call}
  <1>1. call \in wire /\ exec.exists /\ wire' = wire \ {call} BY DEF Execute
  <1>2. SlotInv /\ ArmedInv /\ CountInv BY <1>1 DEF ActionsInv
  <1>3. wire \subseteq Call /\ exec \in Execution BY Parts DEF ActionsInv
  <1>4. call \in Call /\ call = exec.armed BY <1>1, <1>2, <1>3 DEF SlotInv
  <1>5. call # None BY <1>4 DEF Nil
  <1>6. exec.action # None BY <1>2, <1>4, <1>5 DEF SlotInv
  <1>7. wire' = {} /\ wire = {call} BY <1>1, <1>2, <1>4 DEF SlotInv
  <1>8. call.method \in Methods /\ call.request \in Requests BY <1>4 DEF Call
  <1>9. call.request = exec.action.request /\ Needed(exec.action, call.method)
    BY <1>2, <1>4, <1>5 DEF ArmedInv
  <1>10. Sound(exec.action) BY <1>6 DEF ActionsInv, ReplacementInv
  <1>11. exec.action \in Reservation BY <1>3, <1>6, Record
  <1> QED BY <1>1, <1>2, <1>4, <1>5, <1>6, <1>7, <1>8, <1>9, <1>10, <1>11

LEMMA ExecuteChain ==
  ASSUME ActionsInv, Nil, NEW call, Execute(call)
  PROVE  GoodChain(chain') /\ Grown(chain, chain') /\ MarkedBy(exec.action, call.method)
  <1>1. GoodChain(chain) BY Parts DEF ActionsInv
  <1>2. /\ exec.action # None /\ call.method \in Methods /\ Needed(exec.action, call.method)
        /\ Sound(exec.action)
    BY ExecuteCall
  <1>3. chain' \in executed(call) BY DEF Execute
  <1>4. Len(chain.path) \in Nat /\ Known(chain, chain.tip) BY <1>1, LenProperties DEF GoodChain, Known
  <1>5. CASE call.method = "generate"
    <2> DEFINE x == extended(chain, chain.tip)
               t == Len(chain.path) + 1
    <2>1. GoodChain(x) /\ Grown(chain, x) /\ x.marked = chain.marked /\ Len(x.path) = t
      BY <1>1, <1>4, Extension
    <2>2. chain' = [x EXCEPT !.tip = t] BY <1>3, <1>5 DEF executed
    <2>3. t \in Nat /\ t \in 0..t BY <1>4
    <2> HIDE DEF x, t
    <2>4. x \in Chain BY <2>1 DEF GoodChain
    <2>5. chain' \in Chain /\ chain'.path = x.path /\ chain'.tip = t /\ chain'.marked = x.marked
      BY <2>2, <2>3, <2>4 DEF Chain
    <2>6. GoodChain(chain') BY <2>1, <2>3, <2>5 DEF GoodChain
    <2>7. Grown(chain, chain') BY <2>1, <2>5 DEF Grown, line
    <2> QED BY <1>5, <2>1, <2>5, <2>6, <2>7 DEF MarkedBy
  <1>6. CASE call.method = "invalidate"
    <2> DEFINE s == chain.marked \cup {exec.action.hash}
               x == [chain EXCEPT !.marked = s]
    <2>1. exec.action.hash \in 1..Len(chain.path)
      BY <1>2, <1>6 DEF Needed, ActionsInv, ReplacementInv, Replacing
    <2>2. s \in SUBSET (1..Len(chain.path)) BY <1>1, <2>1 DEF GoodChain
    <2>3. GoodChain(x) /\ Grown(chain, x) /\ x.marked = s BY <1>1, <2>2, Marking
    <2>4. chain' \in activated(x) BY <1>3, <1>6 DEF executed
    <2> HIDE DEF x
    <2>5. GoodChain(chain') /\ Grown(x, chain') /\ chain'.marked = s BY <2>3, <2>4, Activation
    <2> QED BY <1>1, <1>6, <2>3, <2>5, Growing DEF MarkedBy
  <1>7. CASE call.method = "reconsider"
    <2> DEFINE s == chain.marked \ {exec.action.hash}
               x == [chain EXCEPT !.marked = s]
    <2>2. s \in SUBSET (1..Len(chain.path)) BY <1>1 DEF GoodChain
    <2>3. GoodChain(x) /\ Grown(chain, x) /\ x.marked = s BY <1>1, <2>2, Marking
    <2>4. chain' \in activated(x) BY <1>3, <1>7 DEF executed
    <2> HIDE DEF x
    <2>5. GoodChain(chain') /\ Grown(x, chain') /\ chain'.marked = s BY <2>3, <2>4, Activation
    <2> QED BY <1>1, <1>7, <2>3, <2>5, Growing DEF MarkedBy
  <1> QED BY <1>2, <1>5, <1>6, <1>7 DEF Methods

LEMMA ExecuteWrites ==
  ASSUME ActionsInv, Nil, NEW call, Execute(call)
  PROVE  /\ UNCHANGED <<exec, req, root, life, clock, spec, budget>>
         /\ made' \in [Requests -> [Methods -> Nat]]
         /\ made'[call.request][call.method] = made[call.request][call.method] + 1
         /\ \A r \in Requests, m \in Methods :
              r # call.request \/ m # call.method => made'[r][m] = made[r][m]
         /\ w' \in Working /\ w'.pc = w.pc /\ w'.exec = w.exec /\ w'.method = w.method
         /\ w'.request = w.request /\ w'.active = w.active
         /\ IF w.active = call THEN w'.got \in Nat ELSE w'.got = w.got
  <1>1. call.method \in Methods /\ call.request \in Requests BY ExecuteCall
  <1>2. made \in [Requests -> [Methods -> Nat]] /\ w \in Working BY Parts DEF ActionsInv
  <1>3. made' = [made EXCEPT ![call.request][call.method] = @ + 1] BY DEF Execute
  <1>4. GoodChain(chain') BY ExecuteChain
  <1> DEFINE n == Len(chain'.path)
  <1>5. n \in Nat BY <1>4, LenProperties DEF GoodChain
  <1>6. w' = IF w.active = call THEN [w EXCEPT !.got = n] ELSE w BY DEF Execute
  <1> HIDE DEF n
  <1>7. /\ w' \in Working /\ w'.pc = w.pc /\ w'.exec = w.exec /\ w'.method = w.method
        /\ w'.request = w.request /\ w'.active = w.active
        /\ IF w.active = call THEN w'.got \in Nat ELSE w'.got = w.got
    BY <1>2, <1>5, <1>6 DEF Working
  <1>8. /\ made' \in [Requests -> [Methods -> Nat]]
        /\ made'[call.request][call.method] = made[call.request][call.method] + 1
        /\ \A r \in Requests, m \in Methods :
             r # call.request \/ m # call.method => made'[r][m] = made[r][m]
    BY <1>1, <1>2, <1>3
  <1> QED BY <1>7, <1>8 DEF Execute

LEMMA ChainTypes ==
  ASSUME ActionsInv, Nil, Peer \/ \E call \in wire : Execute(call) PROVE Types'
  <1>1. Types BY DEF ActionsInv
  <1>2. CASE Peer
    BY <1>1, <1>2, PeerChain DEF Types, TypeOK, HeldInv, GoodChain
  <1>3. ASSUME NEW call, Execute(call) PROVE Types'
    <2>1. GoodChain(chain') BY <1>3, ExecuteChain
    <2>2. wire' = {} BY <1>3, ExecuteCall
    <2>3. /\ UNCHANGED <<exec, req, root, life, clock, spec, budget>>
          /\ made' \in [Requests -> [Methods -> Nat]]
          /\ w' \in Working /\ w'.pc = w.pc /\ w'.exec = w.exec
      BY <1>3, ExecuteWrites
    <2> QED BY <1>1, <2>1, <2>2, <2>3 DEF Types, TypeOK, HeldInv, GoodChain, Working
  <1> QED BY <1>2, <1>3

LEMMA WorldTypes ==
  ASSUME Types, Nil, EditRoot \/ Dispose \/ \E r \in Requests : Expire(r) PROVE Types'
  <1>1. /\ exec \in Execution /\ budget \in [Kinds -> Nat] /\ clock \in [Requests -> 0..2]
        /\ root \in [mode : {"Running", "Paused", "Stopped", "Deleting", "Gone"}, actor : Nat,
           enabled : BOOLEAN]
    BY Parts
  <1>2. CASE EditRoot
    <2>1. budget' \in [Kinds -> Nat] BY <1>1, <1>2, Taking, KindsHave DEF EditRoot
    <2>2. root' \in [mode : {"Running", "Paused", "Stopped", "Deleting", "Gone"}, actor : Nat,
          enabled : BOOLEAN]
      BY <1>1, <1>2 DEF EditRoot
    <2> QED BY <1>2, <2>1, <2>2 DEF EditRoot, Types, TypeOK, HeldInv
  <1>3. CASE Dispose
    <2>1. exec' \in Execution BY <1>1, <1>3 DEF Dispose, Execution
    <2>2. root' \in [mode : {"Running", "Paused", "Stopped", "Deleting", "Gone"}, actor : Nat,
          enabled : BOOLEAN]
      BY <1>1, <1>3 DEF Dispose
    <2> QED BY <1>3, <2>1, <2>2 DEF Dispose, Types, TypeOK, HeldInv
  <1>4. ASSUME NEW r \in Requests, Expire(r) PROVE Types'
    <2>1. budget' \in [Kinds -> Nat] BY <1>4, Taking, KindsHave DEF Expire
    <2>2. clock' \in [Requests -> 0..2] BY <1>1, <1>4 DEF Expire
    <2> QED BY <1>4, <2>1, <2>2 DEF Expire, Types, TypeOK, HeldInv
  <1> QED BY <1>2, <1>3, <1>4

-----------------------------------------------------------------------------
(* The kinds of steps *)

\* Nothing the invariants speak of, but the root.
Elsewhere == UNCHANGED <<chain, wire, exec, req, w, life, made, spec>>

\* The worker reads, gives up or fails: an answer or a call may be lost.
Local ==
    /\ UNCHANGED <<chain, exec, req, life, made, spec>> /\ wire' \in {wire, {}}
    /\ \/ w'.active = None /\ w'.got = None
       \/ w'.active = w.active /\ w'.got = w.got /\ (w.got = None => wire' = wire)
    /\ \/ w'.pc = w.pc /\ w'.exec = w.exec /\ w'.method = w.method /\ w'.request = w.request
       \/ w'.pc \in {"idle", "decide", "arm"}

\* The record of the step is written.
Written == exec.exists /\ UNCHANGED aside /\ w' = Done /\ (Amending \/ Released)

\* The user or the operator changes a request, not what it reports.
Remarks == \E q \in Requests : (AddFinalizer /\ q = life.request) \/ Create(q) \/ Delete(q)

\* The operator reads.
Looks == ReadExecution \/ AbortLife \/ \E r \in Requests : ReadRequest(r)

LEMMA LocalSteps ==
  ASSUME Types, Nil, ReadRecord \/ Abort \/ Crash \/ Lose \/ Restart PROVE Local
  <1>1. w \in Working BY Parts
  <1>2. CASE ReadRecord BY <1>1, <1>2 DEF ReadRecord, Local, Working, aside
  <1>3. CASE Abort BY <1>1, <1>3 DEF Abort, Idle, Local, Working, aside
  <1>4. CASE Crash BY <1>1, <1>4 DEF Crash, Idle, Local, Working
  <1>5. CASE Lose BY <1>1, <1>5 DEF Lose, Local, Working
  <1>6. CASE Restart BY <1>1, <1>6 DEF Restart, Local, Working
  <1> QED BY <1>2, <1>3, <1>4, <1>5, <1>6

LEMMA Steps ==
  ASSUME Types, Nil, Next
  PROVE  \/ Elsewhere \/ Local \/ Written \/ (\E r \in Requests : Candidate(r)) \/ Reserve \/ Arm \/ Withdraw
         \/ Account \/ Confirm \/ (\E call \in wire : Execute(call)) \/ Peer \/ Dispose
         \/ ReportAction \/ Remarks \/ Looks
  <1>1. CASE StepAction
    <2>1. CASE UNCHANGED exec /\ \E m \in Methods : w' = [w EXCEPT !.pc = "arm", !.method = m]
      <3>1. w \in Working BY Parts
      <3>2. UNCHANGED aside BY <1>1, StepActionWrites
      <3> QED BY <2>1, <3>1, <3>2 DEF Local, Working, aside
    <2>2. CASE w' = Done /\ UNCHANGED exec
      <3>1. w \in Working BY Parts
      <3>2. UNCHANGED aside BY <1>1, StepActionWrites
      <3> QED BY <2>2, <3>1, <3>2 DEF Local, Working, aside, Done
    <2>3. CASE w' = Done /\ (Released \/ Amending) BY <1>1, <2>3, StepActionWrites DEF Written
    <2> QED BY <1>1, <2>1, <2>2, <2>3, StepActionWrites
  <1>2. CASE ChainMoved BY <1>2, ChainMovedWrites DEF Written
  <1>3. CASE ReadRecord \/ Abort \/ Crash \/ Lose \/ Restart BY <1>3, LocalSteps
  <1>4. CASE EditRoot BY <1>4 DEF EditRoot, Elsewhere
  <1>5. ASSUME NEW r \in Requests, Expire(r) PROVE Elsewhere BY <1>5 DEF Expire, Elsewhere
  <1>6. CASE AddFinalizer
    <2>1. life.request \in Requests BY <1>6 DEF AddFinalizer, Types, HeldInv
    <2> QED BY <1>6, <2>1 DEF Remarks
  <1>7. CASE \E r \in Requests : Create(r) \/ Delete(r) BY <1>7 DEF Remarks
  <1>8. CASE ReadExecution \/ AbortLife \/ \E r \in Requests : ReadRequest(r) BY <1>8 DEF Looks
  <1> QED BY <1>1, <1>2, <1>3, <1>4, <1>5, <1>6, <1>7, <1>8 DEF Next, Worker, Operator

\* The record is the network's.
LEMMA GoneStep == ASSUME ActionsInv, Nil, [Next]_vars PROVE GoneInv'
  <1>1. GoneInv /\ Types BY DEF ActionsInv
  <1>2. ASSUME UNCHANGED root, exec'.exists = exec.exists PROVE GoneInv' BY <1>1, <1>2 DEF GoneInv
  <1>3. CASE StepAction
    <2>1. UNCHANGED root /\ (UNCHANGED exec \/ Released \/ Amending)
      BY <1>1, <1>3, StepActionWrites DEF aside
    <2> QED BY <1>2, <2>1 DEF Released, Amending, Amended
  <1>4. CASE Reserve
    <2>1. exec.exists /\ exec' = w.exec /\ w.exec.exists /\ UNCHANGED root
      BY <1>4 DEF Reserve, ReserveInv, ActionsInv, aside
    <2> QED BY <1>2, <2>1
  <1>5. CASE Arm BY <1>1, <1>2, <1>5, ArmWrites DEF aside
  <1>6. CASE ChainMoved BY <1>1, <1>2, <1>6, ChainMovedWrites DEF aside, Amending, Amended
  <1>7. CASE Withdraw
    <2>1. SlotInv BY <1>7 DEF Withdraw, ActionsInv
    <2> QED BY <1>1, <1>2, <1>7, <2>1, WithdrawWrites DEF aside
  <1>8. CASE Account
    <2>1. SlotInv BY <1>8 DEF Account, ActionsInv
    <2> QED BY <1>1, <1>2, <1>8, <2>1, AccountWrites DEF aside
  <1>9. CASE EditRoot
    <2>1. root \in [mode : {"Running", "Paused", "Stopped", "Deleting", "Gone"}, actor : Nat,
          enabled : BOOLEAN]
      BY <1>1, Parts
    <2>2. root'.mode # "Gone" <=> root.mode # "Gone" BY <1>9, <2>1 DEF EditRoot
    <2> QED BY <1>1, <1>9, <2>2 DEF EditRoot, GoneInv
  <1>10. CASE Dispose
    <2>1. /\ root \in [mode : {"Running", "Paused", "Stopped", "Deleting", "Gone"}, actor : Nat,
             enabled : BOOLEAN]
          /\ exec \in Execution
      BY <1>1, Parts
    <2>2. root'.mode = "Gone" /\ exec'.exists = FALSE BY <1>10, <2>1 DEF Dispose, Execution
    <2> QED BY <2>2 DEF GoneInv
  <1>11. CASE Restart
    <2>1. root \in [mode : {"Running", "Paused", "Stopped", "Deleting", "Gone"}, actor : Nat,
          enabled : BOOLEAN]
      BY <1>1, Parts
    <2>2. root'.mode = root.mode /\ UNCHANGED exec BY <1>11, <2>1 DEF Restart
    <2> QED BY <1>1, <2>2 DEF GoneInv
  <1>12. CASE \/ ReadRecord \/ Abort \/ Confirm \/ Crash \/ Lose \/ Peer \/ AddFinalizer \/ ReadExecution
              \/ ReportAction \/ AbortLife \/ UNCHANGED vars
              \/ \E r \in Requests : Candidate(r) \/ ReadRequest(r) \/ Create(r) \/ Delete(r) \/ Expire(r)
              \/ \E call \in wire : Execute(call)
    <2>1. UNCHANGED root /\ UNCHANGED exec
      BY <1>12 DEF ReadRecord, Abort, Confirm, Crash, Lose, Peer, AddFinalizer, ReadExecution,
          ReportAction, AbortLife, vars, Candidate, ReadRequest, Create, Delete, Expire, Execute, aside, apart
    <2> QED BY <1>2, <2>1
  <1> QED BY <1>3, <1>4, <1>5, <1>6, <1>7, <1>8, <1>9, <1>10, <1>11, <1>12 DEF Next, Worker, Operator

-----------------------------------------------------------------------------
(* The slot, its call and the receipts *)

CoreInv == SlotInv /\ ArmedInv /\ CountInv

LEMMA Receipts ==
  ASSUME Types, Nil, CoreInv, ReplacementInv, exec.action # None
  PROVE  /\ exec.action \in Reservation /\ exec.action.request \in Requests
         /\ Counted(exec.action) /\ Sound(exec.action)
         /\ \A m \in Methods : /\ recorded(exec.action, m) \in Nat
                               /\ made[exec.action.request][m] \in Nat
  <1>1. exec \in Execution /\ made \in [Requests -> [Methods -> Nat]] BY Parts
  <1>2. exec.action \in Reservation BY <1>1, Record
  <1>3. exec.action.request \in Requests /\ exec.action.blocks \in Nat BY <1>2, Fields
  <1>4. Counted(exec.action) /\ Sound(exec.action) BY DEF CoreInv, CountInv, ReplacementInv
  <1>5. ASSUME NEW m \in Methods PROVE recorded(exec.action, m) \in Nat BY <1>3 DEF recorded, Methods
  <1> QED BY <1>1, <1>2, <1>3, <1>4, <1>5

\* Steps of others leave the slot alone.
LEMMA CoreElsewhere ==
  ASSUME CoreInv, UNCHANGED <<wire, exec, w, made, spec>>, chain'.marked = chain.marked
  PROVE  CoreInv'
  BY DEF CoreInv, SlotInv, ArmedInv, CountInv, Counted, Needed, quota, reorganizes, recorded

LEMMA CoreLocal == ASSUME CoreInv, Nil, Types, Local PROVE CoreInv'
  <1>1. SlotInv'
    BY DEF CoreInv, SlotInv, Local
  <1>2. ArmedInv' BY DEF CoreInv, ArmedInv, Local, Needed, quota, reorganizes
  <1>3. CountInv'
    <2>1. (w'.pc = "confirm" => w.pc = "confirm") /\ (wire' # {} => wire # {})
          /\ (w'.got # None => w.got # None)
      BY DEF Local
    <2>2. UNCHANGED <<chain, exec, made, spec>> BY DEF Local
    <2> QED BY <2>1, <2>2 DEF CoreInv, CountInv, Counted, recorded
  <1> QED BY <1>1, <1>2, <1>3 DEF CoreInv

LEMMA DoneFields ==
  ASSUME w \in Working, w' = Done
  PROVE  w'.pc = "idle" /\ w'.active = w.active /\ w'.got = w.got
  BY DEF Done, Working

LEMMA CoreAmending ==
  ASSUME CoreInv, Nil, Types, exec.exists, UNCHANGED aside, w' = Done, Amending
  PROVE  CoreInv'
  <1>1. w \in Working BY Parts
  <1>2. w'.pc = "idle" /\ w'.active = w.active /\ w'.got = w.got BY <1>1, DoneFields
  <1>3. /\ exec'.armed = exec.armed /\ (exec'.action = None <=> exec.action = None)
        /\ exec.action # None => Same(exec.action, exec'.action)
    BY DEF Amending, Amended
  <1>4. UNCHANGED <<chain, wire, made, spec>> BY DEF aside
  <1>5. SlotInv' BY <1>2, <1>3, <1>4 DEF CoreInv, SlotInv
  <1>6. ArmedInv'
    <2> SUFFICES ASSUME exec'.armed # None PROVE ArmedInv' BY DEF ArmedInv
    <2>1. exec.armed # None /\ exec.action # None BY <1>3 DEF CoreInv, SlotInv
    <2>2. Settled(exec.action, exec'.action) BY <2>1 DEF Amending
    <2> QED BY <1>3, <1>4, <2>1, <2>2 DEF CoreInv, ArmedInv, Needed, quota, reorganizes, Settled, Same
  <1>7. CountInv'
    <2>1. CASE exec.action = None BY <1>3, <1>4, <2>1 DEF CoreInv, CountInv
    <2>2. CASE exec.action # None
      <3>1. /\ exec'.action.request = exec.action.request /\ exec'.action.blocks = exec.action.blocks
            /\ exec'.action.inval = exec.action.inval /\ exec'.action.clean = exec.action.clean
            /\ exec'.action.hash = exec.action.hash /\ exec'.action # None
        BY <1>3, <2>2 DEF Same
      <3>2. Counted(exec.action) BY <2>2 DEF CoreInv, CountInv
      <3>3. \A m \in Methods : recorded(exec.action, m)' = recorded(exec.action, m)
        BY <3>1 DEF recorded, Methods
      <3>4. exec.armed # None => exec.armed.method \in Methods
        <4>1. exec \in Execution BY Parts
        <4> QED BY <4>1, Record DEF Call
      <3>5. wire # {} \/ w.got # None => exec.armed # None
        <4>1. wire \subseteq Call BY Parts
        <4> QED BY <4>1 DEF CoreInv, SlotInv, Nil
      <3>6. Counted(exec.action)' BY <1>2, <1>3, <1>4, <3>1, <3>2, <3>3, <3>4, <3>5 DEF Counted
      <3> QED BY <3>1, <3>6 DEF CountInv
    <2> QED BY <2>1, <2>2
  <1> QED BY <1>5, <1>6, <1>7 DEF CoreInv

LEMMA CoreReleased ==
  ASSUME CoreInv, ReplacementInv, Nil, Types, exec.exists, UNCHANGED aside, w' = Done, Released
  PROVE  /\ CoreInv' /\ wire = {} /\ w.active = None
         /\ \A m \in Methods : made[exec.action.request][m] = recorded(exec.action, m)
  <1>1. w \in Working /\ wire \subseteq Call BY Parts
  <1>2. w'.pc = "idle" /\ w'.active = w.active /\ w'.got = w.got BY <1>1, DoneFields
  <1>3. /\ exec.action # None /\ exec.armed = None /\ compensated(exec.action)
        /\ exec'.action = None /\ exec'.armed = None
    BY DEF Released, released
  <1>4. wire = {} /\ w.active = None
    <2>1. \A c \in wire : c = None BY <1>3 DEF CoreInv, SlotInv
    <2> QED BY <1>1, <1>3, <2>1 DEF CoreInv, SlotInv, Nil
  <1>5. UNCHANGED <<chain, wire, made, spec>> BY DEF aside
  <1>6. Counted(exec.action) /\ Sound(exec.action) BY <1>3, Receipts
  <1>7. \A m \in Methods : made[exec.action.request][m] = recorded(exec.action, m) BY <1>3, <1>6 DEF Counted
  <1>8. chain.marked = {}
    <2>1. /\ made[exec.action.request]["invalidate"] = recorded(exec.action, "invalidate")
          /\ made[exec.action.request]["reconsider"] = recorded(exec.action, "reconsider")
      BY <1>7 DEF Methods
    <2>2. ~exec.action.inval \/ exec.action.clean BY <1>3, <1>6 DEF compensated, Sound
    <2> QED BY <1>6, <2>1, <2>2 DEF Counted, recorded
  <1>9. CoreInv' BY <1>2, <1>3, <1>4, <1>5, <1>8 DEF CoreInv, SlotInv, ArmedInv, CountInv
  <1> QED BY <1>4, <1>7, <1>9

LEMMA CoreReserve ==
  ASSUME ActionsInv, Nil, exec.exists, Reserve
  PROVE  /\ CoreInv' /\ wire = {}
         /\ exec'.exists /\ exec'.armed = None /\ exec'.action \in Reservation /\ exec'.action # None
         /\ exec'.action.request = w.request /\ w.request \in Requests /\ eligible(w.request)
         /\ exec'.action.blocks = 0 /\ ~exec'.action.inval /\ ~exec'.action.clean
         /\ UNCHANGED aside /\ w'.pc = "idle"
  <1>1. Types /\ CoreInv /\ RequestInv BY DEF ActionsInv, CoreInv
  <1>2. w \in Working /\ wire \subseteq Call BY <1>1, Parts
  <1>3. /\ w.pc = "reserve" /\ exec.action = None /\ exec.armed = None /\ eligible(w.request)
        /\ exec' = w.exec /\ w' = [w EXCEPT !.pc = "idle", !.exec = None, !.request = 0] /\ UNCHANGED aside
    BY DEF Reserve
  <1>4. /\ w.exec.action.request = w.request /\ w.exec.action.blocks = 0 /\ ~w.exec.action.inval
        /\ ~w.exec.action.clean /\ w.exec.armed = None /\ w.exec.exists
    BY <1>3 DEF ActionsInv, ReserveInv
  <1>5. w.exec \in Execution /\ w.exec.action # None BY <1>1, <1>3 DEF Types, HeldInv
  <1>6. w.exec.action \in Reservation BY <1>5, Record
  <1>7. w.request \in Requests BY <1>4, <1>6, Fields
  <1>8. wire = {} /\ w.active = None /\ w.got = None
    <2>1. \A c \in wire : c = None BY <1>1, <1>3 DEF CoreInv, SlotInv
    <2> QED BY <1>1, <1>2, <1>3, <2>1 DEF CoreInv, SlotInv, Nil
  <1>9. w'.pc = "idle" /\ w'.active = None /\ w'.got = None BY <1>2, <1>3, <1>8 DEF Working
  <1>10. \A m \in Methods : made[w.request][m] = 0
    BY <1>1, <1>3, <1>7 DEF RequestInv, Requesting, eligible
  <1>11. chain.marked = {} BY <1>1, <1>3 DEF CoreInv, CountInv
  <1>12. UNCHANGED <<chain, wire, made, spec>> BY <1>3 DEF aside
  <1>13. SlotInv' /\ ArmedInv' BY <1>3, <1>4, <1>5, <1>8, <1>9, <1>12 DEF SlotInv, ArmedInv
  <1>14. CountInv'
    <2>2. Counted(exec.action)'
      <3>1. \A m \in Methods : made'[exec'.action.request][m] = 0 BY <1>3, <1>4, <1>10, <1>12
      <3>2. \A m \in Methods : recorded(exec.action, m)' = 0 BY <1>3, <1>4 DEF recorded, Methods
      <3>3. made'[exec'.action.request]["invalidate"] = 0 BY <3>1 DEF Methods
      <3> QED BY <1>8, <1>9, <1>11, <1>12, <3>1, <3>2, <3>3 DEF Counted
    <2> QED BY <1>3, <1>5, <2>2 DEF CountInv
  <1> QED BY <1>3, <1>4, <1>5, <1>6, <1>7, <1>8, <1>9, <1>13, <1>14 DEF CoreInv

\* What the worker may send is still to be done.
LEMMA Authorized ==
  ASSUME Types, Nil, NEW a \in Reservation, Sound(a), NEW m \in Methods, authorizeMutation(a, m)
  PROVE  /\ Needed(a, m) /\ ~AtRest(a, None)
         /\ m # "reconsider" => /\ ~IsTerminalPhase(req[a.request].phase) /\ req[a.request].adm
                                /\ req[a.request].state = "live"
         /\ m = "reconsider" => ~compensated(a) /\ a.inval
         /\ root.mode # "Gone"
  <1>1. a.blocks \in Nat /\ a.request \in Requests BY Fields
  <1>2. quota(a.request) \in Nat BY <1>1, Quota DEF Sound
  <1>3. CASE m = "reconsider"
    BY <1>3 DEF authorizeMutation, Needed, AtRest, compensated, Sound
  <1>4. CASE m = "invalidate"
    BY <1>4 DEF authorizeMutation, Needed, AtRest, compensated, Sound, actionAdmissionAcknowledged
  <1>5. CASE m = "generate"
    <2>1. /\ a.stop = "" /\ a.blocks < quota(a.request) /\ ~IsTerminalPhase(req[a.request].phase)
          /\ actionAdmissionAcknowledged(a.request) /\ root.mode = "Running"
          /\ req[a.request].state = "live"
      BY <1>5 DEF authorizeMutation
    <2>2. a.blocks # quota(a.request)
      <3> DEFINE q == quota(a.request)
                 b == a.blocks
      <3>1. q \in Nat /\ b \in Nat /\ b < q BY <1>1, <1>2, <2>1
      <3> HIDE DEF q, b
      <3>2. b # q BY <3>1
      <3> QED BY <3>2 DEF q, b
    <2>3. a.final = None BY <2>2 DEF Sound
    <2> QED BY <1>5, <2>1, <2>2, <2>3 DEF Needed, AtRest, actionAdmissionAcknowledged
  <1> QED BY <1>3, <1>4, <1>5 DEF Methods

LEMMA CoreArm ==
  ASSUME CoreInv, ReplacementInv, Nil, Types, Arm
  PROVE  CoreInv'
  <1> DEFINE a == exec.action
  <1>1. /\ UNCHANGED aside /\ a \in Reservation /\ exec.armed = None
        /\ w.active = None /\ authorizeMutation(a, w.method)
        /\ exec'.armed \in Call /\ exec'.armed # None /\ exec'.armed.method = w.method
        /\ exec'.armed.request = a.request
        /\ exec'.action # None /\ Settled(a, exec'.action)
        /\ w'.pc = "confirm" /\ w'.exec = exec' /\ w'.active = None /\ w'.got = w.got
        /\ w'.method = w.method
    BY ArmWrites
  <1>2. a # None BY <1>1 DEF Nil
  <1>3. w.method \in Methods /\ wire \subseteq Call
    <2>1. w \in Working /\ wire \subseteq Call BY Parts
    <2> QED BY <2>1 DEF Working
  <1>4. Sound(a) /\ Counted(a) BY <1>2, Receipts
  <1>5. Needed(a, w.method) BY <1>1, <1>3, <1>4, Authorized
  <1>6. wire = {} /\ w.got = None
    <2>1. \A c \in wire : c = None BY <1>1 DEF CoreInv, SlotInv
    <2> QED BY <1>1, <1>3, <2>1 DEF CoreInv, SlotInv, Nil
  <1>7. UNCHANGED <<chain, wire, made, spec>> BY <1>1 DEF aside
  <1>8. SlotInv' BY <1>1, <1>6, <1>7 DEF SlotInv
  <1>9. Same(a, exec'.action) /\ exec'.action.final = a.final BY <1>1 DEF Settled
  <1>10. ArmedInv'
    <2>2. Needed(exec.action, exec.armed.method)'
      BY <1>1, <1>5, <1>7, <1>9 DEF Needed, quota, reorganizes, Same
    <2> QED BY <1>1, <1>9, <2>2 DEF ArmedInv, Same
  <1>11. CountInv'
    <2>1. \A m \in Methods : recorded(exec.action, m)' = recorded(exec.action, m)
      BY <1>9 DEF recorded, Methods, Same
    <2>2. \A m \in Methods : made[a.request][m] = recorded(a, m) BY <1>1, <1>4 DEF Counted
    <2>3. Counted(exec.action)'
      BY <1>1, <1>3, <1>4, <1>6, <1>7, <1>9, <2>1, <2>2 DEF Counted, Same
    <2> QED BY <1>1, <2>3 DEF CountInv
  <1> QED BY <1>8, <1>10, <1>11 DEF CoreInv

LEMMA CoreWithdraw ==
  ASSUME CoreInv, ReplacementInv, Nil, Types, Withdraw
  PROVE  CoreInv'
  <1> DEFINE a == exec.action
  <1>1. /\ UNCHANGED aside /\ a # None /\ exec.armed # None /\ w' = Done /\ w.pc = "confirm"
        /\ exec'.armed = None /\ exec'.action # None /\ Settled(a, exec'.action)
    BY WithdrawWrites DEF CoreInv
  <1>2. w \in Working /\ exec \in Execution BY Parts
  <1>3. w'.pc = "idle" /\ w'.active = w.active /\ w'.got = w.got BY <1>1, <1>2, DoneFields
  <1>4. w.active = None /\ wire = {} /\ w.got = None BY <1>1 DEF CoreInv, SlotInv
  <1>5. UNCHANGED <<chain, wire, made, spec>> BY <1>1 DEF aside
  <1>6. SlotInv' /\ ArmedInv' BY <1>1, <1>3, <1>4, <1>5 DEF SlotInv, ArmedInv
  <1>7. Counted(a) BY <1>1, Receipts
  <1>8. \A m \in Methods : made[a.request][m] = recorded(a, m)
    <2>1. made[a.request][exec.armed.method] = recorded(a, exec.armed.method) BY <1>1, <1>7 DEF Counted
    <2> QED BY <1>7, <2>1 DEF Counted
  <1>9. CountInv'
    <2>1. Same(a, exec'.action) BY <1>1 DEF Settled
    <2>2. \A m \in Methods : recorded(exec.action, m)' = recorded(exec.action, m)
      BY <2>1 DEF recorded, Methods, Same
    <2>3. Counted(exec.action)' BY <1>1, <1>3, <1>4, <1>5, <1>7, <1>8, <2>1, <2>2 DEF Counted, Same
    <2> QED BY <1>1, <2>3 DEF CountInv
  <1> QED BY <1>6, <1>9 DEF CoreInv

LEMMA CoreAccount ==
  ASSUME CoreInv, ReplacementInv, Nil, Types, Account
  PROVE  CoreInv' /\ wire = {}
  <1> DEFINE a == exec.action
             m == exec.armed.method
  <1>1. /\ UNCHANGED aside /\ a # None /\ exec.armed = w.active /\ exec.armed \in Call /\ exec.armed # None
        /\ w.got # None /\ exec'.armed = None /\ exec'.action # None
        /\ Receipted(a, exec'.action, m, w.got)
        /\ w'.pc = w.pc /\ w'.active = None /\ w'.got = None
    BY AccountWrites DEF CoreInv
  <1>2. m \in Methods BY <1>1 DEF Call
  <1>3. /\ a \in Reservation /\ a.request \in Requests /\ Counted(a) /\ Sound(a)
        /\ \A k \in Methods : recorded(a, k) \in Nat
    BY <1>1, Receipts
  <1>4. made[a.request][m] = recorded(a, m) + 1 /\ recorded(a, m) \in Nat BY <1>1, <1>2, <1>3 DEF Counted
  <1>5. wire = {}
    <2>1. ASSUME wire # {} PROVE FALSE
      <3>1. made[a.request][m] = recorded(a, m) BY <1>3, <2>1 DEF Counted
      <3> QED BY <1>4, <3>1
    <2> QED BY <2>1
  <1>6. w.pc # "confirm" BY <1>1 DEF CoreInv, SlotInv
  <1>7. UNCHANGED <<chain, wire, made, spec>> BY <1>1 DEF aside
  <1>8. SlotInv' /\ ArmedInv' BY <1>1, <1>5, <1>6, <1>7 DEF SlotInv, ArmedInv
  <1>9. CountInv'
    <2>1. Needed(a, m) BY <1>1 DEF CoreInv, ArmedInv
    <2>2. ASSUME NEW k \in Methods PROVE made'[exec'.action.request][k] = recorded(exec.action, k)'
      <3>1. exec'.action.request = a.request BY <1>1 DEF Receipted
      <3>2. CASE k = m
        <4>1. recorded(exec.action, k)' = recorded(a, k) + 1
          <5>1. a.blocks \in Nat /\ a.inval \in BOOLEAN /\ a.clean \in BOOLEAN BY <1>3, Fields
          <5> HIDE DEF a, m
          <5>2. CASE k = "generate" BY <1>1, <3>2, <5>1, <5>2 DEF recorded, Receipted
          <5>3. CASE k = "invalidate"
            <6>1. ~a.inval BY <2>1, <3>2, <5>3 DEF Needed
            <6>2. exec'.action.inval = TRUE BY <1>1, <3>2, <5>3 DEF Receipted
            <6> QED BY <5>3, <6>1, <6>2 DEF recorded
          <5>4. CASE k = "reconsider" BY <1>1, <2>1, <3>2, <5>1, <5>4 DEF recorded, Receipted, Needed
          <5> QED BY <5>2, <5>3, <5>4 DEF Methods, a
        <4> QED BY <1>4, <1>7, <3>1, <3>2, <4>1
      <3>3. CASE k # m
        <4>1. made[a.request][k] = recorded(a, k) BY <1>3, <3>3 DEF Counted
        <4>2. recorded(exec.action, k)' = recorded(a, k)
          <5>1. a.blocks \in Nat /\ a.inval \in BOOLEAN /\ a.clean \in BOOLEAN BY <1>3, Fields
          <5> QED BY <1>1, <3>3, <5>1 DEF recorded, Receipted, Methods
        <4> QED BY <1>7, <3>1, <4>1, <4>2
      <3> QED BY <3>2, <3>3
    <2>3. Counted(exec.action)'
      <3>1. exec'.action.request = a.request /\ exec'.action.hash = a.hash BY <1>1 DEF Receipted
      <3> QED BY <1>1, <1>3, <1>5, <1>6, <1>7, <2>2, <3>1 DEF Counted
    <2> QED BY <1>1, <2>3 DEF CountInv
  <1> QED BY <1>5, <1>8, <1>9 DEF CoreInv

LEMMA CoreConfirm ==
  ASSUME CoreInv, ReplacementInv, Nil, Types, Confirm
  PROVE  CoreInv' /\ exec.armed # None /\ wire = {} /\ wire' = {exec.armed} /\ exec.action # None
         /\ authorizeMutation(exec.action, exec.armed.method)
  <1>1. /\ UNCHANGED <<chain, exec, made, spec>> /\ w.pc = "confirm" /\ w.exec.armed \in Call
        /\ wire' = wire \cup {w.exec.armed}
        /\ w'.pc = "idle" /\ w'.active = w.exec.armed /\ w'.got = w.got
        /\ authorizeMutation(w.exec.action, w.method)
    BY ConfirmWrites
  <1>2. w.active = None /\ wire = {} /\ w.exec = exec /\ w.got = None /\ exec.armed.method = w.method
    BY <1>1 DEF CoreInv, SlotInv
  <1>3. exec.armed # None /\ exec.action # None BY <1>1, <1>2 DEF CoreInv, SlotInv, Nil
  <1>4. wire' = {exec.armed} BY <1>1, <1>2
  <1>5. SlotInv' BY <1>1, <1>2, <1>3, <1>4 DEF SlotInv
  <1>6. ArmedInv' BY <1>1 DEF CoreInv, ArmedInv, Needed, quota, reorganizes
  <1>7. CountInv'
    <2>1. Counted(exec.action) BY <1>3 DEF CoreInv, CountInv
    <2>2. \A m : recorded(exec.action, m)' = recorded(exec.action, m) BY <1>1 DEF recorded
    <2> QED BY <1>1, <1>2, <1>3, <2>1, <2>2 DEF CountInv, Counted
  <1> QED BY <1>1, <1>2, <1>3, <1>4, <1>5, <1>6, <1>7 DEF CoreInv

LEMMA CoreExecute ==
  ASSUME ActionsInv, Nil, NEW call, Execute(call)
  PROVE  CoreInv'
  <1> DEFINE a == exec.action
             m == call.method
             n == made[a.request]
  <1>1. /\ SlotInv /\ ArmedInv /\ CountInv /\ call \in wire /\ call = exec.armed /\ call # None
        /\ a # None /\ m \in Methods /\ call.request \in Requests /\ call.request = a.request /\ Needed(a, m)
        /\ Sound(a) /\ wire' = {} /\ wire = {call}
    BY ExecuteCall
  <1>2. /\ UNCHANGED <<exec, spec>>
        /\ made' \in [Requests -> [Methods -> Nat]]
        /\ made'[call.request][m] = made[call.request][m] + 1
        /\ \A k \in Methods : k # m => made'[call.request][k] = made[call.request][k]
        /\ w'.pc = w.pc /\ w'.exec = w.exec /\ w'.method = w.method /\ w'.active = w.active
        /\ IF w.active = call THEN w'.got \in Nat ELSE w'.got = w.got
    BY <1>1, ExecuteWrites
  <1>3. MarkedBy(a, m) BY ExecuteChain
  <1>4. w.pc # "confirm" BY <1>1 DEF SlotInv
  <1>5. SlotInv'
    <2>1. w.active # None => w'.got # None BY <1>1, <1>2 DEF SlotInv, Nil
    <2>2. w'.got # None => w.active # None BY <1>1, <1>2 DEF SlotInv
    <2> QED BY <1>1, <1>2, <1>4, <2>1, <2>2 DEF SlotInv
  <1>6. ArmedInv' BY <1>1, <1>2 DEF ArmedInv, Needed, quota, reorganizes
  <1>7. Counted(a) /\ \A k \in Methods : recorded(a, k) \in Nat /\ n[k] \in Nat
    <2>1. Types /\ CoreInv /\ ReplacementInv BY <1>1 DEF ActionsInv, CoreInv
    <2> QED BY <1>1, <2>1, Receipts
  <1>8. n[m] = recorded(a, m) BY <1>1, <1>7 DEF Counted
  <1>9. \A k \in Methods : k # m => n[k] = recorded(a, k) BY <1>1, <1>7 DEF Counted
  <1>10. \A k \in Methods : recorded(exec.action, k)' = recorded(a, k) BY <1>2 DEF recorded
  <1>11. chain'.marked = IF made'[a.request]["invalidate"] = 1 /\ made'[a.request]["reconsider"] = 0
                         THEN {a.hash} ELSE {}
    <2>1. chain.marked = IF n["invalidate"] = 1 /\ n["reconsider"] = 0 THEN {a.hash} ELSE {}
      BY <1>7 DEF Counted
    <2>2. CASE m = "generate"
      <3>1. made'[a.request]["invalidate"] = n["invalidate"]
            /\ made'[a.request]["reconsider"] = n["reconsider"]
        BY <1>1, <1>2, <2>2 DEF Methods
      <3> QED BY <1>3, <2>1, <2>2, <3>1 DEF MarkedBy
    <2>3. CASE m = "invalidate"
      <3>1. ~a.inval /\ ~a.clean BY <1>1, <2>3 DEF Needed, Sound
      <3>2. n["invalidate"] = 0 /\ n["reconsider"] = 0 BY <1>8, <1>9, <2>3, <3>1 DEF recorded, Methods
      <3>3. made'[a.request]["invalidate"] = 1 /\ made'[a.request]["reconsider"] = 0
        BY <1>1, <1>2, <2>3, <3>2 DEF Methods
      <3> QED BY <1>3, <2>1, <2>3, <3>2, <3>3 DEF MarkedBy
    <2>4. CASE m = "reconsider"
      <3>1. a.inval /\ ~a.clean BY <1>1, <2>4 DEF Needed
      <3>2. n["invalidate"] = 1 /\ n["reconsider"] = 0 BY <1>8, <1>9, <2>4, <3>1 DEF recorded, Methods
      <3>3. made'[a.request]["reconsider"] = 1 BY <1>1, <1>2, <2>4, <3>2 DEF Methods
      <3> QED BY <1>3, <2>1, <2>4, <3>2, <3>3 DEF MarkedBy
    <2> QED BY <1>1, <2>2, <2>3, <2>4 DEF Methods
  <1>12. \A k \in Methods : made'[a.request][k] = IF k = m THEN recorded(a, k) + 1 ELSE recorded(a, k)
    BY <1>1, <1>2, <1>8, <1>9
  <1>13. Counted(exec.action)'
    BY <1>1, <1>2, <1>4, <1>10, <1>11, <1>12 DEF Counted
  <1>14. CountInv' BY <1>1, <1>2, <1>13 DEF CountInv
  <1> QED BY <1>5, <1>6, <1>14 DEF CoreInv

LEMMA CoreStep == ASSUME ActionsInv, Nil, [Next]_vars, exec'.exists PROVE CoreInv'
  <1>1. Types /\ ReplacementInv /\ (exec.exists => CoreInv) BY DEF ActionsInv, CoreInv
  <1>2. CASE Elsewhere \/ UNCHANGED vars
    <2>1. UNCHANGED <<chain, wire, exec, w, made, spec>> BY <1>2 DEF Elsewhere, vars
    <2> QED BY <1>1, <2>1, CoreElsewhere
  <1>3. CASE Local
    <2>1. UNCHANGED exec BY <1>3 DEF Local
    <2> QED BY <1>1, <1>3, <2>1, CoreLocal
  <1>4. CASE Written BY <1>1, <1>4, CoreAmending, CoreReleased DEF Written
  <1>5. ASSUME NEW r \in Requests, Candidate(r) PROVE CoreInv'
    <2>1. /\ UNCHANGED <<aside, exec>> /\ exec.exists /\ w'.pc = "reserve"
          /\ w'.active = w.active /\ w'.got = w.got
      BY <1>5, CandidateWrites
    <2>2. UNCHANGED <<chain, wire, made, spec>> BY <2>1 DEF aside
    <2>3. SlotInv' /\ ArmedInv' BY <1>1, <2>1, <2>2 DEF CoreInv, SlotInv, ArmedInv, Needed, quota, reorganizes
    <2>4. exec.action = None BY <1>5 DEF Candidate
    <2>5. CountInv' BY <1>1, <2>1, <2>2, <2>4 DEF CoreInv, CountInv
    <2> QED BY <2>3, <2>5 DEF CoreInv
  <1>6. CASE Reserve BY <1>6, CoreReserve DEF Reserve
  <1>7. CASE Arm BY <1>1, <1>7, CoreArm DEF Arm
  <1>8. CASE Withdraw BY <1>1, <1>8, CoreWithdraw DEF Withdraw
  <1>9. CASE Account BY <1>1, <1>9, CoreAccount DEF Account
  <1>10. CASE Confirm
    <2>1. UNCHANGED exec BY <1>10 DEF Confirm
    <2> QED BY <1>1, <1>10, <2>1, CoreConfirm
  <1>11. ASSUME NEW call, Execute(call) PROVE CoreInv' BY <1>11, CoreExecute
  <1>12. CASE Peer BY <1>1, <1>12, PeerChain, CoreElsewhere
  <1>13. CASE Dispose
    <2>1. exec \in Execution BY <1>1, Parts
    <2>2. exec'.exists = FALSE BY <1>13, <2>1 DEF Dispose, Execution
    <2> QED BY <2>2
  <1>14. CASE ReportAction \/ Looks
    <2>1. UNCHANGED <<chain, wire, exec, w, made, spec>>
      BY <1>14 DEF ReportAction, Looks, ReadExecution, AbortLife, ReadRequest, apart
    <2> QED BY <1>1, <2>1, CoreElsewhere
  <1>15. CASE Remarks
    <2>1. UNCHANGED <<chain, wire, exec, w, made, spec>>
      BY <1>15 DEF Remarks, AddFinalizer, Create, Delete, apart
    <2> QED BY <1>1, <2>1, CoreElsewhere
  <1> QED BY <1>1, <1>2, <1>3, <1>4, <1>5, <1>6, <1>7, <1>8, <1>9, <1>10, <1>11, <1>12, <1>13, <1>14, <1>15,
      Steps

-----------------------------------------------------------------------------
(* The replacement *)

LEMMA OneMore ==
  ASSUME NEW S, NEW s \in Seq(S), NEW r \in Seq(S), NEW k \in Nat, k < Len(r)
  PROVE  Append(s \o SubSeq(r, 1, k), r[k + 1]) = s \o SubSeq(r, 1, k + 1)
  <1> DEFINE u == SubSeq(r, 1, k)
             v == SubSeq(r, 1, k + 1)
             e == r[k + 1]
  <1>1. Len(r) \in Nat /\ k + 1 \in Nat /\ k + 1 \in 1..Len(r) BY LenProperties
  <1>2. \A i \in 1..Len(r) : r[i] \in S BY ElementOfSeq
  <1>3. u \in Seq(S) /\ Len(u) = k /\ \A i \in 1..k : u[i] = r[i]
    <2>1. \A i \in 1..k : r[i] \in S BY <1>1, <1>2
    <2>2. /\ u \in Seq(S) /\ Len(u) = IF 1 <= k THEN k - 1 + 1 ELSE 0
          /\ \A i \in 1..(k - 1 + 1) : u[i] = r[1 + i - 1]
      BY <2>1, SubSeqProperties
    <2> QED BY <2>2
  <1>4. v \in Seq(S) /\ Len(v) = k + 1 /\ \A i \in 1..(k + 1) : v[i] = r[i]
    <2> DEFINE n == k + 1
    <2>1. n \in Nat /\ n >= 1 /\ \A i \in 1..n : r[i] \in S BY <1>1, <1>2
    <2> HIDE DEF n
    <2>2. /\ SubSeq(r, 1, n) \in Seq(S) /\ Len(SubSeq(r, 1, n)) = IF 1 <= n THEN n - 1 + 1 ELSE 0
          /\ \A i \in 1..(n - 1 + 1) : SubSeq(r, 1, n)[i] = r[1 + i - 1]
      BY <2>1, SubSeqProperties
    <2>3. Len(SubSeq(r, 1, n)) = n /\ \A i \in 1..n : SubSeq(r, 1, n)[i] = r[i] BY <2>1, <2>2
    <2> QED BY <2>2, <2>3 DEF n
  <1>5. e \in S BY <1>1, <1>2
  <1> HIDE DEF u, v, e
  <1>6. Len(s) \in Nat BY LenProperties
  <1>7. /\ s \o u \in Seq(S) /\ Len(s \o u) = Len(s) + k
        /\ \A i \in 1..(Len(s) + k) : (s \o u)[i] = IF i <= Len(s) THEN s[i] ELSE u[i - Len(s)]
    BY <1>3, ConcatProperties
  <1>8. /\ s \o v \in Seq(S) /\ Len(s \o v) = Len(s) + (k + 1)
        /\ \A i \in 1..(Len(s) + (k + 1)) : (s \o v)[i] = IF i <= Len(s) THEN s[i] ELSE v[i - Len(s)]
    <2> DEFINE n == k + 1
    <2>1. v \in Seq(S) /\ Len(v) = n /\ n \in Nat BY <1>1, <1>4
    <2> HIDE DEF n
    <2>2. /\ s \o v \in Seq(S) /\ Len(s \o v) = Len(s) + n
          /\ \A i \in 1..(Len(s) + n) : (s \o v)[i] = IF i <= Len(s) THEN s[i] ELSE v[i - Len(s)]
      BY <2>1, ConcatProperties
    <2> QED BY <2>2 DEF n
  <1> DEFINE p == s \o u
             q == s \o v
             l == Len(s)
  <1>9. p \in Seq(S) /\ Len(p) = l + k /\ \A i \in 1..(l + k) : p[i] = IF i <= l THEN s[i] ELSE u[i - l]
    BY <1>7
  <1>10. /\ q \in Seq(S) /\ Len(q) = l + k + 1 /\ l \in Nat
         /\ \A i \in 1..(l + k + 1) : q[i] = IF i <= l THEN s[i] ELSE v[i - l]
    BY <1>6, <1>8
  <1> HIDE DEF p, q, l
  <1>11. /\ Append(p, e) \in Seq(S) /\ Len(Append(p, e)) = l + k + 1
         /\ \A i \in 1..(l + k) : Append(p, e)[i] = p[i]
         /\ Append(p, e)[l + k + 1] = e
    BY <1>5, <1>9, <1>10, AppendProperties
  <1>12. ASSUME NEW i \in 1..(l + k + 1) PROVE Append(p, e)[i] = q[i]
    <2>1. CASE i <= l BY <1>9, <1>10, <1>11, <2>1
    <2>2. CASE i > l /\ i <= l + k
      <3>1. i - l \in 1..k BY <1>10, <2>2
      <3>2. u[i - l] = v[i - l] BY <1>3, <1>4, <3>1
      <3> QED BY <1>9, <1>10, <1>11, <2>2, <3>2
    <2>3. CASE i = l + k + 1
      <3>1. i - l = k + 1 BY <1>10, <2>3
      <3>2. v[k + 1] = e BY <1>4 DEF e
      <3> QED BY <1>10, <1>11, <2>3, <3>1, <3>2
    <2>4. i \in Nat /\ (i <= l \/ (i > l /\ i <= l + k) \/ i = l + k + 1) BY <1>10
    <2> QED BY <2>1, <2>2, <2>3, <2>4
  <1>13. Append(p, e) = q BY <1>10, <1>11, <1>12, SeqEqual
  <1> QED BY <1>13 DEF p, q, u, v, e

LEMMA SameStart ==
  ASSUME NEW S, NEW r \in Seq(S), NEW g \in S, NEW k \in Nat, k <= Len(r)
  PROVE  SubSeq(Append(r, g), 1, k) = SubSeq(r, 1, k)
  <1> DEFINE z == Append(r, g)
  <1>1. z \in Seq(S) /\ Len(r) \in Nat /\ \A i \in 1..Len(r) : z[i] = r[i] BY AppendProperties, LenProperties
  <1> HIDE DEF z
  <1>2. \A i \in 1..k : r[i] \in S /\ z[i] = r[i] /\ z[i] \in S
    <2>1. \A i \in 1..Len(r) : r[i] \in S BY ElementOfSeq
    <2> QED BY <1>1, <2>1
  <1>3. /\ SubSeq(r, 1, k) \in Seq(S) /\ Len(SubSeq(r, 1, k)) = IF 1 <= k THEN k - 1 + 1 ELSE 0
        /\ \A i \in 1..(k - 1 + 1) : SubSeq(r, 1, k)[i] = r[1 + i - 1]
    BY <1>2, SubSeqProperties
  <1>4. /\ SubSeq(z, 1, k) \in Seq(S) /\ Len(SubSeq(z, 1, k)) = IF 1 <= k THEN k - 1 + 1 ELSE 0
        /\ \A i \in 1..(k - 1 + 1) : SubSeq(z, 1, k)[i] = z[1 + i - 1]
    BY <1>2, SubSeqProperties
  <1> DEFINE p == SubSeq(z, 1, k)
             q == SubSeq(r, 1, k)
  <1>5. /\ p \in Seq(S) /\ q \in Seq(S) /\ Len(p) = k /\ Len(q) = k
        /\ \A i \in 1..k : p[i] = z[i] /\ q[i] = r[i]
    BY <1>3, <1>4
  <1> HIDE DEF p, q
  <1>6. \A i \in 1..Len(p) : p[i] = q[i] BY <1>2, <1>5
  <1>7. p = q BY <1>5, <1>6, SeqEqual
  <1> QED BY <1>7 DEF p, q, z

LEMMA Nothing ==
  ASSUME NEW S, NEW s \in Seq(S), NEW r \in Seq(S)
  PROVE  s \o SubSeq(r, 1, 0) = s
  <1>1. SubSeq(r, 1, 0) \in Seq(S) /\ Len(SubSeq(r, 1, 0)) = 0 BY SubSeqProperties
  <1>2. SubSeq(r, 1, 0) = <<>> BY <1>1, EmptySeq
  <1> QED BY <1>2, ConcatEmptySeq

\* What holds of a replacement holds when the chain has grown.
LEMMA Later ==
  ASSUME NEW a, NEW c, NEW x, GoodChain(c), GoodChain(x), Grown(c, x), Replacing(c, a)
  PROVE  Replacing(x, a)
  <1>1. Len(c.path) \in Nat /\ Len(x.path) \in Nat /\ Len(c.path) <= Len(x.path)
    BY LenProperties DEF GoodChain, Grown
  <1>2. \A b : Known(c, b) => Known(x, b) BY <1>1 DEF Known
  <1>3. \A b : Known(c, b) => line(x, b) = line(c, b) /\ height(x, b) = height(c, b)
    BY DEF Known, Grown, height
  <1>4. reorganizes(a) => a.hash \in 1..Len(x.path) BY <1>1 DEF Replacing
  <1>5. Known(c, a.original) /\ Known(c, a.fork) BY DEF Replacing
  <1>6. a.accepted # None => Known(c, a.accepted) BY DEF Replacing, Verified
  <1>7. Verified(x, a) BY <1>2, <1>3, <1>5, <1>6 DEF Replacing, Verified
  <1> QED BY <1>2, <1>3, <1>4, <1>5, <1>6, <1>7 DEF Replacing

LEMMA SettledSound ==
  ASSUME NEW a, NEW b, NEW c, Settled(a, b), Sound(a), Replacing(c, a)
  PROVE  Sound(b) /\ Replacing(c, b)
  BY DEF Settled, Same, Sound, Replacing, Verified, quota, reorganizes

\* Lines above the fork of a reservation, and how many blocks of it were verified.
LEMMA VerifiedLine ==
  ASSUME Types, NEW a \in Reservation, Replacing(chain, a), reorganizes(a)
  PROVE  LET t == tipExpected(a, TRUE)
             v == verified(a)
         IN
         /\ Known(chain, t) /\ v \in Nat /\ v <= Len(a.replaced)
         /\ height(chain, t) = height(chain, a.fork) + v
         /\ height(chain, a.fork) \in Nat /\ Len(a.replaced) \in Nat
         /\ line(chain, a.fork) \in Seq(Nat) /\ line(chain, t) \in Seq(Nat)
         /\ line(chain, t) = line(chain, a.fork) \o SubSeq(a.replaced, 1, v)
  <1> DEFINE t == tipExpected(a, TRUE)
             v == verified(a)
             s == line(chain, a.fork)
  <1>1. GoodChain(chain) BY Parts
  <1>2. a.replaced \in Seq(Nat) BY Fields
  <1>3. Len(a.replaced) \in Nat BY <1>2, LenProperties
  <1>4. Known(chain, a.fork) /\ Verified(chain, a) BY DEF Replacing
  <1>5. Len(chain.path) \in Nat /\ 1..Len(chain.path) \subseteq Nat BY <1>1, <1>4, Lines
  <1>6. \A b : Known(chain, b) => line(chain, b) \in Seq(Nat) /\ height(chain, b) \in Nat
    <2> SUFFICES ASSUME NEW b, Known(chain, b) PROVE line(chain, b) \in Seq(Nat) /\ height(chain, b) \in Nat
      OBVIOUS
    <2>1. line(chain, b) \in Seq(1..Len(chain.path)) /\ height(chain, b) \in Nat BY <1>1, Lines
    <2> QED BY <1>5, <2>1, SeqMonotonic
  <1>7. t = IF a.accepted # None THEN a.accepted ELSE a.fork BY DEF tipExpected
  <1>8. v = height(chain, t) - height(chain, a.fork) BY DEF verified
  <1>9. s \o SubSeq(a.replaced, 1, 0) = s BY <1>2, <1>4, <1>6, Nothing
  <1> HIDE DEF t, v, s
  <1> DEFINE Known3 ==
        /\ Known(chain, t) /\ v \in Nat /\ v <= Len(a.replaced)
        /\ height(chain, t) = height(chain, a.fork) + v
        /\ line(chain, t) = s \o SubSeq(a.replaced, 1, v)
  <1>10. ASSUME a.accepted = None PROVE Known3
    <2>1. t = a.fork BY <1>7, <1>10
    <2>2. height(chain, t) \in Nat BY <1>4, <1>6, <2>1
    <2>3. v = 0 BY <1>8, <2>1, <2>2
    <2>4. line(chain, t) = s \o SubSeq(a.replaced, 1, v) BY <1>9, <2>1, <2>3 DEF s
    <2>5. height(chain, t) = height(chain, a.fork) + v BY <2>1, <2>2, <2>3
    <2> QED BY <1>3, <1>4, <2>1, <2>3, <2>4, <2>5
  <1>11. ASSUME a.accepted # None PROVE Known3
    <2>1. Known(chain, t) /\ height(chain, a.fork) <= height(chain, t) /\ v <= Len(a.replaced)
      BY <1>4, <1>7, <1>8, <1>11 DEF Verified
    <2>2. v \in Nat /\ height(chain, t) = height(chain, a.fork) + v BY <1>4, <1>6, <1>8, <2>1
    <2>3. line(chain, t) = s \o SubSeq(a.replaced, 1, v) BY <1>4, <1>7, <1>8, <1>11 DEF Verified, s
    <2> QED BY <2>1, <2>2, <2>3
  <1>12. Known3 BY <1>10, <1>11
  <1>13. height(chain, a.fork) \in Nat /\ line(chain, a.fork) \in Seq(Nat) /\ line(chain, t) \in Seq(Nat)
    BY <1>4, <1>6, <1>12
  <1> QED BY <1>3, <1>12, <1>13 DEF t, v, s

LEMMA AcceptedSound ==
  ASSUME Types, Nil, NEW a \in Reservation, NEW b, Sound(a), Replacing(chain, a), a.final = None,
         reorganizes(a),
         Same(a, b), Accepts(a, b)
  PROVE  Sound(b) /\ Replacing(chain, b)
  <1> DEFINE t == tipExpected(a, TRUE)
             v == verified(a)
             d == b.accepted
             s == line(chain, a.fork)
             r == a.replaced
  <1>1. /\ Known(chain, t) /\ v \in Nat /\ height(chain, t) = height(chain, a.fork) + v
        /\ height(chain, a.fork) \in Nat /\ Len(r) \in Nat /\ s \in Seq(Nat) /\ line(chain, t) \in Seq(Nat)
        /\ line(chain, t) = s \o SubSeq(r, 1, v)
    BY VerifiedLine
  <1>2. r \in Seq(Nat) /\ a.blocks \in Nat BY Fields
  <1>3. Len(r) = a.blocks BY DEF Sound
  <1>4. v < Len(r) BY <1>3 DEF Accepts
  <1>5. d = r[v + 1] /\ d \in 1..Len(chain.path) /\ line(chain, d) = Append(line(chain, t), d)
    BY DEF Accepts, replacementHeader
  <1>6. GoodChain(chain) BY Parts
  <1>7. Len(chain.path) \in Nat BY <1>1, <1>6, Lines
  <1>8. Known(chain, d) /\ d # None
    <2>1. d \in Nat BY <1>5, <1>7
    <2> QED BY <1>5, <1>7, <2>1 DEF Known, Nil
  <1>9. line(chain, d) = s \o SubSeq(r, 1, v + 1)
    <2>1. Append(s \o SubSeq(r, 1, v), r[v + 1]) = s \o SubSeq(r, 1, v + 1) BY <1>1, <1>2, <1>4, OneMore
    <2> QED BY <1>1, <1>5, <2>1
  <1>10. height(chain, d) = height(chain, a.fork) + (v + 1)
    <2>1. d \in Nat BY <1>5, <1>7
    <2>2. Len(Append(line(chain, t), d)) = Len(line(chain, t)) + 1 BY <1>1, <2>1, AppendProperties
    <2> DEFINE h == height(chain, t)
               g == height(chain, a.fork)
    <2>3. height(chain, d) = h + 1 /\ h = g + v BY <1>1, <1>5, <2>2 DEF height
    <2>4. g \in Nat BY <1>1
    <2> HIDE DEF h, g
    <2>5. height(chain, d) = g + (v + 1) BY <1>1, <2>3, <2>4
    <2> QED BY <2>5 DEF g
  <1> DEFINE g == height(chain, a.fork)
             k == height(chain, d) - g
  <1>11. k = v + 1 /\ k <= Len(r) /\ g <= height(chain, d)
    <2>1. height(chain, d) = g + (v + 1) /\ g \in Nat BY <1>1, <1>10
    <2> HIDE DEF g, d, r, v
    <2> QED BY <1>1, <1>4, <2>1
  <1>12. b.fork = a.fork /\ b.replaced = r /\ b.final = None /\ b.original = a.original /\ b.hash = a.hash
         /\ b.request = a.request
    BY DEF Same, Accepts
  <1>13. Verified(chain, b) BY <1>8, <1>9, <1>11, <1>12 DEF Verified
  <1>14. Replacing(chain, b) BY <1>12, <1>13 DEF Replacing, reorganizes
  <1>15. Sound(b) BY DEF Sound, Same, Accepts, quota, reorganizes
  <1> QED BY <1>14, <1>15

LEMMA FinishedSound ==
  ASSUME Types, Nil, NEW a \in Reservation, NEW b, Sound(a), Replacing(chain, a), reorganizes(a),
         Same(a, b), Finishes(a, b)
  PROVE  Sound(b) /\ Replacing(chain, b)
  <1>1. a.inval /\ a.clean /\ ~(verified(a) < a.blocks) /\ a.blocks = quota(a.request) /\ a.accepted # None
        /\ Len(a.replaced) = a.blocks
    BY DEF Finishes, Sound, replacementFinal
  <1>2. verified(a) \in Nat /\ verified(a) <= Len(a.replaced) /\ Len(a.replaced) \in Nat BY VerifiedLine
  <1>3. verified(a) = Len(a.replaced)
    <2> DEFINE v == verified(a)
               n == Len(a.replaced)
    <2>1. v \in Nat /\ n \in Nat /\ v <= n /\ ~(v < n) BY <1>1, <1>2
    <2> HIDE DEF v, n
    <2>2. v = n BY <2>1
    <2> QED BY <2>2 DEF v, n
  <1>4. height(chain, a.accepted) - height(chain, a.fork) = Len(a.replaced)
    BY <1>1, <1>3 DEF verified, tipExpected
  <1>5. /\ b.fork = a.fork /\ b.replaced = a.replaced /\ b.original = a.original /\ b.hash = a.hash
        /\ b.request = a.request /\ b.accepted = a.accepted /\ b.clean = a.clean /\ b.inval = a.inval
        /\ b.blocks = a.blocks
    BY DEF Same, Finishes
  <1>6. Replacing(chain, b) BY <1>1, <1>4, <1>5 DEF Replacing, Verified, reorganizes
  <1>7. Sound(b) BY <1>1, <1>5 DEF Sound, quota, reorganizes
  <1> QED BY <1>6, <1>7

LEMMA ReceiptedSound ==
  ASSUME Types, Nil, NEW a \in Reservation, NEW b, NEW m \in Methods, NEW g \in Nat, Sound(a),
         Replacing(chain, a),
         Needed(a, m), Receipted(a, b, m, g)
  PROVE  Sound(b) /\ Replacing(chain, b)
  <1>1. a.blocks \in Nat /\ a.replaced \in Seq(Nat) /\ a.request \in Requests /\ spec[a.request] # None
        /\ a.inval \in BOOLEAN /\ a.clean \in BOOLEAN
    BY Fields DEF Sound
  <1>2. quota(a.request) \in Nat BY <1>1, Quota
  <1>3. a.final = None BY DEF Needed, Sound, Methods
  <1>4. /\ b.request = a.request /\ b.original = a.original /\ b.fork = a.fork
        /\ b.hash = a.hash /\ b.accepted = a.accepted /\ b.final = a.final
        /\ b.blocks = IF m = "generate" THEN a.blocks + 1 ELSE a.blocks
        /\ b.replaced = IF m = "generate" /\ reorganizes(a) THEN Append(a.replaced, g) ELSE a.replaced
        /\ b.inval = (a.inval \/ m = "invalidate") /\ b.clean = (a.clean \/ m = "reconsider")
    BY DEF Receipted
  <1>5. reorganizes(b) = reorganizes(a) BY <1>4 DEF reorganizes
  <1>6. Len(Append(a.replaced, g)) = Len(a.replaced) + 1 /\ Len(a.replaced) \in Nat
    BY <1>1, AppendProperties, LenProperties
  <1>7. Sound(b)
    <2>1. b.blocks <= quota(b.request)
      <3> DEFINE q == quota(a.request)
                 n == a.blocks
      <3>1. m = "generate" => n < q BY DEF Needed
      <3>2. n <= q /\ n \in Nat /\ q \in Nat BY <1>1, <1>2 DEF Sound
      <3>3. b.blocks = IF m = "generate" THEN n + 1 ELSE n BY <1>4
      <3> HIDE DEF n, q
      <3>4. b.blocks <= q BY <3>1, <3>2, <3>3
      <3> QED BY <1>4, <3>4 DEF q
    <2>2. b.clean => b.inval BY <1>1, <1>4 DEF Needed, Sound
    <2>3. b.inval => reorganizes(b) BY <1>1, <1>4, <1>5 DEF Needed, Sound
    <2>4. reorganizes(b) => Len(b.replaced) = b.blocks BY <1>4, <1>5, <1>6 DEF Sound
    <2>5. spec[b.request] # None /\ b.final = None BY <1>1, <1>3, <1>4
    <2> QED BY <2>1, <2>2, <2>3, <2>4, <2>5 DEF Sound
  <1>8. Verified(chain, b)
    <2> SUFFICES ASSUME a.accepted # None PROVE Verified(chain, b) BY <1>4 DEF Verified
    <2> DEFINE k == height(chain, a.accepted) - height(chain, a.fork)
    <2>1. /\ Known(chain, a.accepted) /\ height(chain, a.fork) <= height(chain, a.accepted)
          /\ k <= Len(a.replaced)
          /\ line(chain, a.accepted) = line(chain, a.fork) \o SubSeq(a.replaced, 1, k)
      BY DEF Replacing, Verified
    <2>2. k \in Nat
      <3>1. Known(chain, a.fork) BY DEF Replacing
      <3>2. GoodChain(chain) BY Parts
      <3>3. height(chain, a.fork) \in Nat BY <3>1, <3>2, Lines
      <3>4. height(chain, a.accepted) \in Nat BY <2>1, <3>2, Lines
      <3> QED BY <2>1, <3>3, <3>4
    <2> HIDE DEF k
    <2>3. k <= Len(b.replaced) /\ SubSeq(b.replaced, 1, k) = SubSeq(a.replaced, 1, k)
      <3>1. CASE m = "generate" /\ reorganizes(a)
        <4>1. SubSeq(Append(a.replaced, g), 1, k) = SubSeq(a.replaced, 1, k) BY <1>1, <2>1, <2>2, SameStart
        <4> QED BY <1>4, <1>6, <2>1, <2>2, <3>1, <4>1
      <3>2. CASE ~(m = "generate" /\ reorganizes(a)) BY <1>4, <2>1, <3>2
      <3> QED BY <3>1, <3>2
    <2> QED BY <1>4, <2>1, <2>3 DEF Verified, k
  <1>9. Replacing(chain, b) BY <1>3, <1>4, <1>5, <1>8 DEF Replacing
  <1> QED BY <1>7, <1>9

\* The reservation that is recorded, and the one that is prepared.
Reserved(c, e) == e.action # None => Sound(e.action) /\ Replacing(c, e.action)

LEMMA Replaced ==
  ASSUME UNCHANGED spec, Reserved(chain', exec') PROVE ReplacementInv'
  BY DEF Reserved, ReplacementInv, Sound, Replacing, Verified, quota, reorganizes, height, line, Known

LEMMA ReservedLater ==
  ASSUME ReplacementInv, ReserveInv, GoodChain(chain), GoodChain(chain'), Grown(chain, chain'), UNCHANGED spec
  PROVE  /\ exec'.action = exec.action => ReplacementInv'
         /\ (w'.pc = w.pc /\ w'.exec = w.exec /\ w'.request = w.request) => ReserveInv'
  <1>1. ASSUME exec'.action = exec.action PROVE ReplacementInv'
    <2>1. exec.action # None => Sound(exec.action) /\ Replacing(chain', exec.action)
      BY Later DEF ReplacementInv
    <2>2. Reserved(chain', exec') BY <1>1, <2>1 DEF Reserved
    <2> QED BY <2>2, Replaced
  <1>2. ASSUME w'.pc = w.pc, w'.exec = w.exec, w'.request = w.request PROVE ReserveInv'
    <2> DEFINE a == w.exec.action
    <2>1. w.pc = "reserve" =>
            /\ a.request = w.request /\ Sound(a) /\ Replacing(chain, a)
            /\ a.blocks = 0 /\ ~a.inval /\ ~a.clean /\ w.exec.armed = None /\ w.exec.exists
      BY DEF ReserveInv
    <2>2. w.pc = "reserve" => Replacing(chain', a)
      <3> HIDE DEF a
      <3> QED BY <2>1, Later
    <2>3. w'.exec.action = a /\ w'.pc = w.pc /\ w'.exec = w.exec /\ w'.request = w.request BY <1>2
    <2> HIDE DEF a
    <2>4. w'.pc = "reserve" =>
            /\ a.request = w'.request /\ Sound(a) /\ Replacing(chain', a)
            /\ a.blocks = 0 /\ ~a.inval /\ ~a.clean /\ w'.exec.armed = None /\ w'.exec.exists
      BY <2>1, <2>2, <2>3
    <2> QED BY <2>3, <2>4 DEF ReserveInv, Sound, Replacing, Verified, quota, reorganizes, height, line, Known
  <1> QED BY <1>1, <1>2

LEMMA ReservationStep == ASSUME ActionsInv, Nil, [Next]_vars PROVE ReplacementInv' /\ ReserveInv'
  <1>1. Types /\ ReplacementInv /\ ReserveInv BY DEF ActionsInv
  <1>2. /\ GoodChain(chain) /\ Grown(chain, chain) /\ w \in Working
        /\ exec \in Execution /\ exec.action \in Reservation \cup {None}
    BY <1>1, Parts, Itself, Record
  <1>3. UNCHANGED <<chain, spec>> =>
          /\ exec'.action = exec.action => ReplacementInv'
          /\ (w'.pc = w.pc /\ w'.exec = w.exec /\ w'.request = w.request) => ReserveInv'
    <2> SUFFICES ASSUME UNCHANGED <<chain, spec>>
                 PROVE  /\ exec'.action = exec.action => ReplacementInv'
                        /\ (w'.pc = w.pc /\ w'.exec = w.exec /\ w'.request = w.request) => ReserveInv'
      OBVIOUS
    <2>1. GoodChain(chain') /\ Grown(chain, chain') BY <1>2
    <2> QED BY <1>1, <1>2, <2>1, ReservedLater
  <1>4. ASSUME w'.pc # "reserve" PROVE ReserveInv' BY <1>4 DEF ReserveInv
  <1>5. w' = Done => w'.pc = "idle" BY <1>2, DoneFields
  <1>6. UNCHANGED aside => UNCHANGED <<chain, spec>> BY DEF aside
  <1>7. CASE Elsewhere \/ UNCHANGED vars
    <2>1. UNCHANGED <<chain, spec, exec, w>> BY <1>7 DEF Elsewhere, vars
    <2> QED BY <1>3, <2>1
  <1>8. CASE Local
    <2>1. UNCHANGED <<chain, spec, exec>> BY <1>8 DEF Local
    <2>2. (w'.pc = w.pc /\ w'.exec = w.exec /\ w'.request = w.request) \/ w'.pc # "reserve" BY <1>8 DEF Local
    <2> QED BY <1>3, <1>4, <2>1, <2>2
  <1>9. ASSUME UNCHANGED aside, exec'.action # None => /\ exec.action \in Reservation
                                                       /\ Sound(exec'.action)
                                                          /\ Replacing(chain, exec'.action)
        PROVE ReplacementInv'
    <2>1. Reserved(chain', exec') BY <1>6, <1>9 DEF Reserved
    <2> QED BY <1>6, <1>9, <2>1, Replaced
  <1>10. CASE Written
    <2>1. UNCHANGED aside /\ w'.pc # "reserve" BY <1>5, <1>10 DEF Written
    <2>2. CASE Released
      <3>1. exec'.action = None BY <2>2 DEF Released
      <3> QED BY <1>4, <1>9, <2>1, <3>1
    <2>3. CASE Amending
      <3> DEFINE a == exec.action
                 b == exec'.action
      <3>1. ASSUME b # None PROVE a \in Reservation /\ Sound(b) /\ Replacing(chain, b)
        <4>1. a # None /\ Same(a, b) BY <2>3, <3>1 DEF Amending, Amended
        <4>2. a \in Reservation /\ Sound(a) /\ Replacing(chain, a) BY <1>1, <1>2, <4>1 DEF ReplacementInv
        <4>3. \/ Settled(a, b)
              \/ reorganizes(a) /\ a.final = None /\ (Accepts(a, b) \/ Finishes(a, b))
          BY <2>3, <4>1 DEF Amending
        <4> HIDE DEF a, b
        <4>4. CASE Settled(a, b) BY <4>2, <4>4, SettledSound
        <4>5. CASE reorganizes(a) /\ a.final = None /\ Accepts(a, b) BY <1>1, <4>1, <4>2, <4>5, AcceptedSound
        <4>6. CASE reorganizes(a) /\ a.final = None /\ Finishes(a, b) BY <1>1, <4>1, <4>2, <4>6, FinishedSound
        <4> QED BY <4>2, <4>3, <4>4, <4>5, <4>6
      <3> QED BY <1>4, <1>9, <2>1, <3>1
    <2> QED BY <1>10, <2>2, <2>3 DEF Written
  <1>11. ASSUME NEW r \in Requests, Candidate(r) PROVE ReplacementInv' /\ ReserveInv'
    <2> DEFINE a == captured(r)
    <2>1. /\ UNCHANGED <<aside, exec>> /\ w'.request = r /\ w'.exec.action = a /\ w'.exec.armed = None
          /\ w'.exec.exists /\ a.request = r /\ Sound(a) /\ Replacing(chain, a)
          /\ a.blocks = 0 /\ ~a.inval /\ ~a.clean
      BY <1>11, CandidateWrites
    <2>2. UNCHANGED <<chain, spec, exec>> BY <1>6, <2>1
    <2> HIDE DEF a
    <2>3. ReserveInv'
      BY <2>1, <2>2 DEF ReserveInv, Sound, Replacing, Verified, quota, reorganizes, height, line, Known
    <2> QED BY <1>3, <2>2, <2>3
  <1>12. CASE Reserve
    <2>1. UNCHANGED aside /\ exec' = w.exec /\ w.pc = "reserve" BY <1>12 DEF Reserve
    <2>2. w'.pc # "reserve" BY <1>2, <1>12 DEF Reserve, Working
    <2>3. Sound(exec'.action) /\ Replacing(chain, exec'.action) BY <1>1, <2>1 DEF ReserveInv
    <2>4. Reserved(chain', exec') BY <1>6, <2>1, <2>3 DEF Reserved
    <2> QED BY <1>4, <1>6, <2>1, <2>2, <2>4, Replaced
  <1>13. CASE Arm \/ Withdraw
    <2>1. exec.exists BY <1>13 DEF Arm, Withdraw
    <2>2. SlotInv BY <2>1 DEF ActionsInv
    <2>3. /\ UNCHANGED aside /\ exec.action # None /\ Settled(exec.action, exec'.action)
          /\ w'.pc \in {"idle", "confirm"}
      <3>1. CASE Arm
        <4>1. exec.action # None BY <3>1 DEF Arm
        <4> QED BY <1>1, <3>1, <4>1, ArmWrites
      <3>2. CASE Withdraw BY <1>1, <1>5, <2>2, <3>2, WithdrawWrites
      <3> QED BY <1>13, <3>1, <3>2
    <2>4. exec.action \in Reservation /\ Sound(exec.action) /\ Replacing(chain, exec.action)
      BY <1>1, <1>2, <2>3 DEF ReplacementInv
    <2>5. Sound(exec'.action) /\ Replacing(chain, exec'.action) BY <2>3, <2>4, SettledSound
    <2> QED BY <1>4, <1>9, <2>3, <2>4, <2>5
  <1>14. CASE Account
    <2>1. exec.exists BY <1>14 DEF Account
    <2>2. SlotInv /\ ArmedInv BY <2>1 DEF ActionsInv
    <2>3. /\ UNCHANGED aside /\ exec.action \in Reservation /\ exec.action # None
          /\ exec.armed \in Call /\ exec.armed # None /\ w.got \in Nat
          /\ Receipted(exec.action, exec'.action, exec.armed.method, w.got)
          /\ w'.pc = w.pc /\ w'.exec = w.exec /\ w'.request = w.request
      BY <1>1, <1>14, <2>2, AccountWrites
    <2>4. exec.armed.method \in Methods BY <2>3 DEF Call
    <2>5. Needed(exec.action, exec.armed.method) BY <2>2, <2>3 DEF ArmedInv
    <2>6. Sound(exec.action) /\ Replacing(chain, exec.action) BY <1>1, <2>3 DEF ReplacementInv
    <2>7. Sound(exec'.action) /\ Replacing(chain, exec'.action)
      BY <1>1, <2>3, <2>4, <2>5, <2>6, ReceiptedSound
    <2>8. ReplacementInv' BY <1>9, <2>3, <2>7
    <2> QED BY <1>3, <1>6, <2>3, <2>8
  <1>15. CASE Confirm
    <2>1. UNCHANGED <<chain, spec, exec>> /\ w'.pc # "reserve" BY <1>1, <1>15, ConfirmWrites
    <2> QED BY <1>3, <1>4, <2>1
  <1>16. ASSUME NEW call, Execute(call) PROVE ReplacementInv' /\ ReserveInv'
    <2>1. UNCHANGED <<exec, spec>> /\ w'.pc = w.pc /\ w'.exec = w.exec /\ w'.request = w.request
      BY <1>16, ExecuteWrites
    <2>2. GoodChain(chain') /\ Grown(chain, chain') BY <1>16, ExecuteChain
    <2> QED BY <1>1, <1>2, <2>1, <2>2, ReservedLater
  <1>17. CASE Peer
    <2>1. UNCHANGED <<exec, spec, w>> /\ GoodChain(chain') /\ Grown(chain, chain') BY <1>17, PeerChain
    <2> QED BY <1>1, <1>2, <2>1, ReservedLater
  <1>18. CASE Dispose
    <2>1. UNCHANGED <<chain, spec, w>> /\ exec'.action = exec.action
      BY <1>2, <1>18 DEF Dispose, Execution
    <2> QED BY <1>3, <2>1
  <1>19. CASE ReportAction \/ Looks \/ Remarks
    <2>1. UNCHANGED <<chain, spec, exec, w>>
      BY <1>19 DEF ReportAction, Looks, Remarks, ReadExecution, AbortLife, ReadRequest, AddFinalizer, Create,
                   Delete, apart
    <2> QED BY <1>3, <2>1
  <1> QED BY <1>1, <1>7, <1>8, <1>10, <1>11, <1>12, <1>13, <1>14, <1>15, <1>16, <1>17, <1>18, <1>19, Steps

-----------------------------------------------------------------------------
(* What a request says of its reservation *)

\* What the record demands of what a request says.
Told(r) == IF owner(r) THEN Owned(req[r]) ELSE req[r].adm => Settles(r, req[r])

LEMMA RequestFrame ==
  ASSUME RequestInv, UNCHANGED <<req, made, spec>>, wire' \subseteq wire,
         exec'.exists => \A r \in Requests : Told(r)'
  PROVE  RequestInv'
  <1> SUFFICES ASSUME NEW r \in Requests PROVE Requesting(r)' BY DEF RequestInv
  <1>1. Requesting(r) BY DEF RequestInv
  <1>2. req' = req /\ made' = made /\ spec' = spec OBVIOUS
  <1>3. exec'.exists => Told(r)' OBVIOUS
  <1>4. exec'.exists => IF owner(r)' THEN Owned(req[r])' ELSE req'[r].adm => Settles(r, req[r])'
    BY <1>3 DEF Told
  <1> QED BY <1>1, <1>2, <1>4 DEF Requesting

LEMMA RequestKept ==
  ASSUME RequestInv, UNCHANGED <<req, made, spec, exec>>, wire' \subseteq wire
  PROVE  RequestInv'
  <1>1. ASSUME exec'.exists, NEW r \in Requests PROVE Told(r)'
    <2>1. Requesting(r) BY DEF RequestInv
    <2>2. Told(r) BY <1>1, <2>1 DEF Requesting, Told
    <2> QED BY <2>2 DEF Told, owner, Owned, Settles, compensated, reorganizes
  <1> QED BY <1>1, RequestFrame

\* The record is written: its reservation is still that of the request.
LEMMA RequestWritten ==
  ASSUME RequestInv, UNCHANGED <<req, made, spec>>, wire' \subseteq wire, exec.exists,
         (exec'.action = None) = (exec.action = None),
         exec.action # None =>
           /\ exec'.action.request = exec.action.request
           /\ \A r \in Requests : owner(r) => Owned(req[r])'
  PROVE  RequestInv'
  <1>1. ASSUME NEW r \in Requests PROVE Told(r)'
    <2>1. Requesting(r) BY DEF RequestInv
    <2>2. Told(r) BY <2>1 DEF Requesting, Told
    <2>3. owner(r)' = owner(r) BY DEF owner
    <2>4. CASE owner(r)
      <3>1. Owned(req[r])' BY <2>4 DEF owner
      <3> QED BY <2>3, <2>4, <3>1 DEF Told
    <2>5. CASE ~owner(r)
      <3>1. (req[r].adm => Settles(r, req[r]))' BY <2>2, <2>5 DEF Told, Settles
      <3> QED BY <2>3, <2>5, <3>1 DEF Told
    <2> QED BY <2>4, <2>5
  <1> QED BY <1>1, RequestFrame

LEMMA RequestAmended ==
  ASSUME RequestInv, Types, Nil, UNCHANGED aside, exec.exists, Amending
  PROVE  RequestInv'
  <1>1. UNCHANGED <<req, made, spec, wire>> BY DEF aside
  <1>2. Amended(exec, exec') BY DEF Amending
  <1>3. /\ exec'.armed = exec.armed /\ (exec'.action = None) = (exec.action = None)
        /\ exec.action # None => Same(exec.action, exec'.action)
    BY <1>2 DEF Amended
  <1>4. ASSUME exec.action # None, NEW r \in Requests, owner(r) PROVE Owned(req[r])'
    <2>1. Owned(req[r]) BY <1>4 DEF RequestInv, Requesting
    <2> QED BY <1>1, <1>3, <1>4, <2>1 DEF Owned, Same, compensated, reorganizes
  <1>5. exec.action # None => exec'.action.request = exec.action.request BY <1>3 DEF Same
  <1> QED BY <1>1, <1>3, <1>4, <1>5, RequestWritten

LEMMA RequestReleased ==
  ASSUME RequestInv, CoreInv, ReplacementInv, Bounds, Nil, Types, UNCHANGED aside, w' = Done, exec.exists,
         Released
  PROVE  RequestInv'
  <1> DEFINE a == exec.action
             q == a.request
  <1>1. UNCHANGED <<req, made, spec, wire>> BY DEF aside
  <1>2. \A m \in Methods : made[q][m] = recorded(a, m) BY CoreReleased
  <1>3. a # None /\ released(a) /\ exec'.action = None BY DEF Released
  <1>4. a \in Reservation /\ q \in Requests BY <1>3, Receipts
  <1>5. made[q]["generate"] = a.blocks BY <1>2 DEF recorded, Methods
  <1>6. Requesting(q) BY <1>4 DEF RequestInv
  <1>7. Owned(req[q]) BY <1>3, <1>6 DEF Requesting, owner
  <1>8. Settles(q, req[q])
    <2>1. CASE acknowledged(a) BY <1>5, <2>1 DEF acknowledged, Settles
    <2>2. CASE ~exists(q)
      <3>1. q # 0 BY <1>4 DEF Bounds
      <3>2. req[q] \in Request BY <1>4, Parts
      <3>3. req[q].state = "gone" BY <1>7, <2>2, <3>1, <3>2, RequestFields DEF exists, Owned
      <3> QED BY <3>3 DEF Settles
    <2> QED BY <1>3, <2>1, <2>2 DEF released
  <1>9. ASSUME NEW r \in Requests PROVE Told(r)'
    <2>1. ~owner(r)' BY <1>3 DEF owner
    <2>2. req[r].adm => Settles(r, req[r])
      <3>1. CASE r = q BY <1>8, <3>1
      <3>2. CASE r # q
        <4>1. ~owner(r) BY <3>2 DEF owner
        <4> QED BY <4>1 DEF RequestInv, Requesting
      <3> QED BY <3>1, <3>2
    <2>3. (req[r].adm => Settles(r, req[r]))' BY <1>1, <2>2 DEF Settles
    <2> QED BY <2>1, <2>3 DEF Told
  <1> QED BY <1>1, <1>9, RequestFrame

LEMMA RequestReserved ==
  ASSUME ActionsInv, Nil, Reserve
  PROVE  RequestInv'
  <1>0. PICK q : q = w.request OBVIOUS
  <1>1. exec.exists /\ exec.action = None BY DEF Reserve
  <1>2. /\ UNCHANGED aside /\ exec'.armed = None /\ exec'.action # None /\ exec'.action.request = q
           /\ q \in Requests
        /\ eligible(q) /\ exec'.action.blocks = 0 /\ ~exec'.action.inval
    BY <1>0, <1>1, CoreReserve
  <1>3. UNCHANGED <<req, made, spec, wire>> BY <1>2 DEF aside
  <1>4. RequestInv BY DEF ActionsInv
  <1>5. Owned(req[q])'
    <2>1. req[q].state = "live" /\ ~req[q].adm /\ ~IsTerminalPhase(req[q].phase) BY <1>2 DEF eligible
    <2>2. req[q].blocks = 0 BY <1>2, <1>4, <2>1 DEF RequestInv, Requesting
    <2>3. ~req[q].nothing BY <1>2, <1>4, <2>1 DEF RequestInv, Requesting
    <2>4. req'[q] = req[q] BY <1>3
    <2>5. req'[q].blocks <= exec'.action.blocks
      <3>1. req'[q].blocks = 0 BY <2>2, <2>4
      <3>2. 0 <= 0 OBVIOUS
      <3> QED BY <1>2, <3>1, <3>2
    <2> QED BY <1>2, <2>1, <2>3, <2>4, <2>5 DEF Owned, IsTerminalPhase
  <1>6. ASSUME NEW r \in Requests PROVE Told(r)'
    <2>1. CASE r = q BY <1>2, <1>5, <2>1 DEF Told, owner
    <2>2. CASE r # q
      <3>1. ~owner(r)' /\ ~owner(r) BY <1>1, <1>2, <2>2 DEF owner
      <3>2. req[r].adm => Settles(r, req[r]) BY <1>1, <1>4, <3>1 DEF RequestInv, Requesting
      <3>3. (req[r].adm => Settles(r, req[r]))' BY <1>3, <3>2 DEF Settles
      <3> QED BY <3>1, <3>3 DEF Told
    <2> QED BY <2>1, <2>2
  <1> QED BY <1>3, <1>4, <1>6, RequestFrame

LEMMA RequestArmed ==
  ASSUME RequestInv, CoreInv, ReplacementInv, Nil, Types, Arm
  PROVE  RequestInv'
  <1> DEFINE a == exec.action
  <1>1. /\ UNCHANGED aside /\ exec.exists /\ a \in Reservation /\ exec.armed = None
        /\ authorizeMutation(a, w.method) /\ exec'.action # None /\ Settled(a, exec'.action)
    BY ArmWrites
  <1>2. UNCHANGED <<req, made, spec, wire>> BY <1>1 DEF aside
  <1>3. a # None BY <1>1 DEF Nil
  <1>4. w.method \in Methods
    <2>1. w \in Working BY Parts
    <2> QED BY <2>1 DEF Working
  <1>5. Sound(a) /\ Counted(a) /\ a.request \in Requests BY <1>3, Receipts
  <1>6. Same(a, exec'.action) BY <1>1 DEF Settled
  <1>7. ASSUME NEW r \in Requests, owner(r) PROVE Owned(req[r])'
    <2>1. r = a.request BY <1>7 DEF owner
    <2>2. Requesting(r) BY DEF RequestInv
    <2>3. Owned(req[r]) BY <1>1, <1>7, <2>2 DEF Requesting
    <2>4. req[r].adm
      <3>1. CASE w.method # "reconsider" BY <1>1, <1>4, <1>5, <2>1, <3>1, Authorized
      <3>2. CASE w.method = "reconsider"
        <4>1. a.inval BY <1>1, <1>4, <1>5, <3>2, Authorized
        <4>2. made[r]["invalidate"] = 1 BY <1>1, <1>5, <2>1, <4>1 DEF Counted, recorded, Methods
        <4> QED BY <2>2, <4>2 DEF Requesting, Methods
      <3> QED BY <3>1, <3>2
    <2>5. req[r].phase \notin {"Completed", "Failed"} /\ ~req[r].nothing
      <3>1. CASE w.method # "reconsider"
        <4>1. ~IsTerminalPhase(req[r].phase) BY <1>1, <1>4, <1>5, <2>1, <3>1, Authorized
        <4> QED BY <2>2, <4>1 DEF Requesting, IsTerminalPhase
      <3>2. CASE w.method = "reconsider"
        <4>1. a.inval /\ ~compensated(a) BY <1>1, <1>4, <1>5, <3>2, Authorized
        <4> QED BY <2>3, <4>1 DEF Owned
      <3> QED BY <3>1, <3>2
    <2>6. exec'.action.blocks = a.blocks BY <1>6 DEF Same
    <2> QED BY <1>2, <2>3, <2>4, <2>5, <2>6 DEF Owned
  <1>8. exec'.action.request = a.request BY <1>6 DEF Same
  <1> QED BY <1>1, <1>2, <1>3, <1>7, <1>8, RequestWritten

LEMMA RequestReceipted ==
  ASSUME RequestInv, CoreInv, Nil, Types, Account \/ Withdraw
  PROVE  RequestInv'
  <1> DEFINE a == exec.action
  <1>1. SlotInv BY DEF CoreInv
  <1>2. /\ UNCHANGED aside /\ exec.exists /\ a \in Reservation /\ a # None /\ exec.armed # None
        /\ exec'.armed = None /\ exec'.action # None /\ exec'.action.request = a.request
        /\ exec'.action.blocks \in {a.blocks, a.blocks + 1}
    <2>1. CASE Account BY <1>1, <2>1, AccountWrites DEF Receipted
    <2>2. CASE Withdraw
      <3>1. exec \in Execution BY Parts
      <3> QED BY <1>1, <2>2, <3>1, Record, WithdrawWrites DEF Settled, Same
    <2> QED BY <2>1, <2>2
  <1>3. UNCHANGED <<req, made, spec, wire>> BY <1>2 DEF aside
  <1>4. a.blocks \in Nat BY <1>2, Fields
  <1>5. ASSUME NEW r \in Requests, owner(r) PROVE Owned(req[r])'
    <2>1. Owned(req[r]) BY <1>2, <1>5 DEF RequestInv, Requesting
    <2>2. /\ req[r].adm /\ req[r].phase \notin {"Completed", "Failed"} /\ ~req[r].nothing
          /\ req[r].state # "absent" /\ req[r].blocks <= a.blocks
      BY <1>2, <2>1 DEF Owned
    <2>3. req[r].blocks \in Nat
      <3>1. req[r] \in Request BY Parts
      <3> QED BY <3>1, RequestFields
    <2>4. req[r].blocks <= exec'.action.blocks
      <3> DEFINE n == a.blocks
                 k == req[r].blocks
                 l == exec'.action.blocks
      <3>1. n \in Nat /\ k \in Nat /\ k <= n /\ l \in {n, n + 1} BY <1>2, <1>4, <2>2, <2>3
      <3> HIDE DEF n, k, l
      <3>2. k <= l BY <3>1
      <3> QED BY <3>2 DEF k, l
    <2> QED BY <1>2, <1>3, <2>2, <2>4 DEF Owned
  <1> QED BY <1>2, <1>3, <1>5, RequestWritten

LEMMA RequestConfirmed ==
  ASSUME ActionsInv, Nil, Confirm
  PROVE  RequestInv' /\ exec.exists
  <1>1. Types /\ ReplacementInv /\ RequestInv BY DEF ActionsInv
  <1>2. /\ UNCHANGED <<chain, exec, req, root, life, clock, made, spec>>
           /\ authorizeMutation(w.exec.action, w.method)
    BY <1>1, ConfirmWrites
  <1>3. exec.exists
    <2>1. root.mode # "Gone" BY <1>2 DEF authorizeMutation
    <2> QED BY <2>1 DEF ActionsInv, GoneInv
  <1>4. CoreInv BY <1>3 DEF ActionsInv, CoreInv
  <1>5. exec.armed # None /\ wire' = {exec.armed} /\ exec.action # None BY <1>1, <1>4, CoreConfirm
  <1>6. exec.armed.request = exec.action.request BY <1>4, <1>5 DEF CoreInv, ArmedInv
  <1>7. ASSUME NEW r \in Requests PROVE Requesting(r)'
    <2>1. Requesting(r) BY <1>1 DEF RequestInv
    <2>2. ~req[r].adm => exec.armed.request # r
      <3>1. CASE owner(r) BY <1>3, <1>5, <2>1, <3>1 DEF Requesting, Owned
      <3>2. CASE ~owner(r) BY <1>5, <1>6, <3>2 DEF owner
      <3> QED BY <3>1, <3>2
    <2>3. ~req[r].adm => \A c \in wire' : c.request # r BY <1>5, <2>2
    <2>4. (exec.exists => IF owner(r) THEN Owned(req[r]) ELSE req[r].adm => Settles(r, req[r]))'
      BY <1>2, <2>1 DEF Requesting, owner, Owned, Settles, compensated, reorganizes
    <2> QED BY <1>2, <2>1, <2>3, <2>4 DEF Requesting
  <1> QED BY <1>3, <1>7 DEF RequestInv

LEMMA RequestExecuted ==
  ASSUME ActionsInv, Nil, NEW call, Execute(call)
  PROVE  RequestInv'
  <1>1. /\ exec.exists /\ exec.action # None /\ call # None /\ call = exec.armed /\ call.method \in Methods
        /\ call.request \in Requests /\ call.request = exec.action.request /\ wire' = {}
    BY ExecuteCall
  <1>2. /\ UNCHANGED <<exec, req, spec>>
        /\ \A r \in Requests, m \in Methods :
             r # call.request \/ m # call.method => made'[r][m] = made[r][m]
    BY ExecuteWrites
  <1>3. ASSUME NEW r \in Requests PROVE Requesting(r)'
    <2>1. Requesting(r) BY DEF ActionsInv, RequestInv
    <2>2. owner(r)' = owner(r) BY <1>2 DEF owner
    <2>3. CASE r = call.request
      <3>1. owner(r) BY <1>1, <2>3 DEF owner
      <3>2. Owned(req[r]) BY <1>1, <2>1, <3>1 DEF Requesting
      <3>3. req[r].adm BY <1>1, <3>2 DEF Owned
      <3>4. Owned(req[r])' BY <1>2, <3>2 DEF Owned, compensated, reorganizes
      <3> QED BY <1>2, <2>1, <2>2, <3>1, <3>3, <3>4 DEF Requesting
    <2>4. CASE r # call.request
      <3>1. ~owner(r) BY <1>1, <2>4 DEF owner
      <3>2. \A m \in Methods : made'[r][m] = made[r][m] BY <1>2, <2>4
      <3>3. (req[r].adm => Settles(r, req[r]))'
        BY <1>1, <1>2, <2>1, <3>1, <3>2 DEF Requesting, Settles, Methods
      <3> QED BY <1>1, <1>2, <2>1, <2>2, <3>1, <3>2, <3>3 DEF Requesting
    <2> QED BY <2>3, <2>4
  <1> QED BY <1>3 DEF RequestInv

\* A request that was not admitted had no call sent: its reservation has no receipt.
LEMMA Untouched ==
  ASSUME ActionsInv, Nil, exec.exists, NEW r \in Requests, owner(r), ~req[r].adm
  PROVE  exec.armed = None /\ ~exec.action.inval /\ compensated(exec.action)
  <1>1. exec.action # None /\ exec.action.request = r BY DEF owner
  <1>2. Requesting(r) BY DEF ActionsInv, RequestInv
  <1>3. Owned(req[r]) BY <1>2 DEF Requesting
  <1>4. exec.armed = None BY <1>3 DEF Owned
  <1>5. Counted(exec.action) BY <1>1 DEF ActionsInv, CountInv
  <1>6. made[r]["invalidate"] = 0 BY <1>2 DEF Requesting, Methods
  <1>7. recorded(exec.action, "invalidate") = 0 BY <1>1, <1>4, <1>5, <1>6 DEF Counted, Methods
  <1>8. ~exec.action.inval BY <1>7 DEF recorded
  <1> QED BY <1>4, <1>8 DEF compensated

LEMMA Resting ==
  ASSUME NEW a, NEW armed, AtRest(a, armed), Sound(a) PROVE armed = None /\ compensated(a)
  BY DEF AtRest, Sound, compensated

LEMMA RequestReported ==
  ASSUME ActionsInv, Nil, ReportAction
  PROVE  RequestInv'
  <1> DEFINE q == life.request
             c == req[q]
             s == req'[q]
             b == life.exec.action
  <1>1. Types /\ RequestInv /\ CopyInv /\ ReplacementInv BY DEF ActionsInv
  <1>2. /\ UNCHANGED apart /\ life.pc = "write" /\ q \in Requests /\ c = life.copy /\ c \in Request
        /\ \A r \in Requests : r # q => req'[r] = req[r]
        /\ \/ ~bound /\ UnboundReport(c, s)
           \/ bound /\ BoundReport(c, s)
           \/ Closing(c, s)
    BY <1>1, ReportWrites
  <1>3. UNCHANGED <<wire, exec, made, spec>> BY <1>2 DEF apart
  <1>4. c.state \in {"live", "deleting"} BY <1>1, <1>2 DEF CopyInv
  <1>5. Requesting(q) BY <1>1, <1>2 DEF RequestInv
  <1>6. exec.exists /\ owner(q) => Owned(c) BY <1>5 DEF Requesting
  <1>7. exec.exists /\ ~owner(q) /\ c.adm => IsTerminalPhase(c.phase) /\ c.blocks = made[q]["generate"]
    BY <1>4, <1>5 DEF Requesting, Settles
  <1>8. /\ ~c.adm => /\ \A m \in Methods : made[q][m] = 0
                     /\ \A d \in wire : d.request # q
                     /\ c.blocks = 0
        /\ c.nothing => IsTerminalPhase(c.phase)
        /\ spec[q] # None
    BY <1>4, <1>5 DEF Requesting
  <1>9. exec.exists /\ owner(q) /\ ~c.adm => exec.armed = None /\ ~exec.action.inval
        /\ compensated(exec.action)
    BY <1>2, Untouched
  <1> HIDE DEF c, s, b
  \* What is shown of each of the three reports.
  <1> DEFINE Fine ==
        /\ s.state # "absent"
        /\ ~s.adm => ~c.adm /\ s.blocks = 0
        /\ s.nothing => IsTerminalPhase(s.phase)
        /\ exec.exists => IF owner(q) THEN Owned(s) ELSE s.adm => Settles(q, s)
  <1>10. ASSUME ~bound /\ UnboundReport(c, s) PROVE Fine
    <2>1. /\ s.state = c.state /\ s.adm = c.adm /\ s.blocks = c.blocks
          /\ IsTerminalPhase(c.phase) => s.phase = c.phase
          /\ s.nothing => c.nothing \/ (~c.adm /\ s.phase = "Failed")
          /\ s.phase = "Completed" => c.phase = "Completed"
          /\ s.phase = "Failed" => c.phase = "Failed" \/ ~c.adm
      BY <1>10 DEF UnboundReport
    <2>2. s.nothing => IsTerminalPhase(s.phase) BY <1>8, <2>1 DEF IsTerminalPhase
    <2>3. ASSUME exec.exists, owner(q) PROVE Owned(s)
      BY <1>4, <1>6, <1>9, <2>1, <2>3 DEF Owned
    <2>4. ASSUME exec.exists, ~owner(q), s.adm PROVE Settles(q, s) BY <1>7, <2>1, <2>4 DEF Settles
    <2> QED BY <1>4, <1>8, <2>1, <2>2, <2>3, <2>4
  <1>11. ASSUME bound /\ BoundReport(c, s) PROVE Fine
    <2>1. /\ s.state = c.state /\ s.adm /\ s.blocks = b.blocks /\ s.nothing = c.nothing
          /\ IsTerminalPhase(c.phase) => s.phase = c.phase
          /\ s.phase = "Completed" => c.phase = "Completed" \/ (life.exec.armed = None /\ Complete(b, q))
          /\ s.phase = "Failed" =>
               c.phase = "Failed" \/ (life.exec.armed = None /\ b.stop # "" /\ compensated(b))
      BY <1>11 DEF BoundReport, b
    <2>2. /\ Sound(b) /\ b.request = q
          /\ exec.exists =>
              \/ /\ owner(q) /\ b.blocks <= exec.action.blocks
                 /\ AtRest(b, life.exec.armed) => AtRest(exec.action, exec.armed)
              \/ c.state = "gone"
              \/ IsTerminalPhase(c.phase) /\ b.blocks = c.blocks
      BY <1>1, <1>2, <1>11 DEF CopyInv, bound, b, c
    <2>3. s.nothing => IsTerminalPhase(s.phase) BY <1>8, <2>1
    <2>4. s.phase \in {"Completed", "Failed"} => s.phase = c.phase \/ AtRest(b, life.exec.armed)
      BY <2>1, <2>2 DEF AtRest, Complete
    <2>5. ASSUME exec.exists, owner(q) PROVE Owned(s)
      <3>1. Owned(c) BY <1>6, <2>5
      <3>2. Sound(exec.action) BY <1>1, <2>5 DEF ReplacementInv, owner
      <3>3. CASE IsTerminalPhase(c.phase) /\ b.blocks = c.blocks BY <1>4, <2>1, <3>1, <3>3 DEF Owned
      <3>4. CASE /\ b.blocks <= exec.action.blocks
                 /\ AtRest(b, life.exec.armed) => AtRest(exec.action, exec.armed)
        <4>1. AtRest(b, life.exec.armed) => exec.armed = None /\ compensated(exec.action)
          BY <3>2, <3>4, Resting
        <4> QED BY <1>4, <2>1, <2>4, <3>1, <3>4, <4>1 DEF Owned
      <3> QED BY <1>4, <2>2, <2>5, <3>3, <3>4
    <2>6. ASSUME exec.exists, ~owner(q) PROVE Settles(q, s)
      <3>1. IsTerminalPhase(c.phase) /\ b.blocks = c.blocks BY <1>4, <2>2, <2>6
      <3>2. c.blocks = made[q]["generate"] BY <1>7, <1>8, <2>6 DEF Methods
      <3> QED BY <2>1, <3>1, <3>2 DEF Settles
    <2> QED BY <1>4, <2>1, <2>3, <2>5, <2>6
  <1>12. ASSUME Closing(c, s) PROVE Fine
    <2>1. /\ s.phase = c.phase /\ s.adm = c.adm /\ s.blocks = c.blocks /\ s.nothing = c.nothing
          /\ s.state \in {c.state, "gone"}
      BY <1>12 DEF Closing
    <2>2. ASSUME exec.exists, owner(q) PROVE Owned(s) BY <1>4, <1>6, <2>1, <2>2 DEF Owned
    <2>3. ASSUME exec.exists, ~owner(q), s.adm PROVE Settles(q, s) BY <1>7, <2>1, <2>3 DEF Settles
    <2> QED BY <1>4, <1>8, <2>1, <2>2, <2>3
  <1>13. Fine BY <1>2, <1>10, <1>11, <1>12
  <1>14. ASSUME NEW r \in Requests PROVE Requesting(r)'
    <2>1. CASE r = q
      <3>1. (exec.exists => IF owner(r) THEN Owned(req[r]) ELSE req[r].adm => Settles(r, req[r]))'
        BY <1>3, <1>13, <2>1 DEF owner, Owned, Settles, compensated, reorganizes, s
      <3> QED BY <1>3, <1>8, <1>13, <2>1, <3>1 DEF Requesting, s
    <2>2. CASE r # q
      <3>1. Requesting(r) /\ req'[r] = req[r] BY <1>1, <1>2, <2>2 DEF RequestInv
      <3>2. (exec.exists => IF owner(r) THEN Owned(req[r]) ELSE req[r].adm => Settles(r, req[r]))'
        BY <1>3, <3>1 DEF Requesting, owner, Owned, Settles, compensated, reorganizes
      <3> QED BY <1>3, <3>1, <3>2 DEF Requesting
    <2> QED BY <2>1, <2>2
  <1> QED BY <1>14 DEF RequestInv

LEMMA RequestMarked ==
  ASSUME ActionsInv, Nil, Remarks
  PROVE  RequestInv'
  <1>1. Types /\ RequestInv BY DEF ActionsInv
  <1>2. PICK q \in Requests : (AddFinalizer /\ q = life.request) \/ Create(q) \/ Delete(q)
    <2>1. AddFinalizer => life.request \in Requests
      <3>1. AddFinalizer => life.pc # "idle" BY DEF AddFinalizer
      <3> QED BY <1>1, <3>1 DEF Types, HeldInv
    <2> QED BY <2>1 DEF Remarks
  <1> DEFINE c == req[q]
             s == req'[q]
  <1>3. /\ UNCHANGED <<chain, wire, exec, root, w, clock, made, spec>>
        /\ \A r \in Requests : r # q => req'[r] = req[r]
        /\ c \in Request /\ Marks(c, s)
        /\ \/ c.state = "absent" /\ spec[q] # None
           \/ c.state = s.state
           \/ c.state = "live" /\ s.state \in {"deleting", "gone"}
    BY <1>1, <1>2, RequestWrites
  <1>4. s.state # "absent" /\ c.state # "gone"
    <2>1. req \in [Requests -> Request] BY <1>1, Parts
    <2>2. CASE AddFinalizer /\ q = life.request
      <3>1. c.state = "live" BY <2>2 DEF AddFinalizer, unguarded
      <3>2. s = [c EXCEPT !.fin = TRUE] BY <2>1, <2>2 DEF AddFinalizer
      <3>3. s.state = c.state BY <1>3, <3>2 DEF Request
      <3> QED BY <3>1, <3>3
    <2>3. CASE Create(q)
      <3>1. s = [c EXCEPT !.state = "live"] BY <2>1, <2>3 DEF Create
      <3>2. s.state = "live" BY <1>3, <3>1 DEF Request
      <3> QED BY <2>3, <3>2 DEF Create
    <2>4. CASE Delete(q)
      <3> DEFINE z == IF c.fin THEN "deleting" ELSE "gone"
      <3>1. s = [c EXCEPT !.state = z] BY <2>1, <2>4 DEF Delete
      <3>2. z # "absent" OBVIOUS
      <3> HIDE DEF z
      <3>3. s.state = z BY <1>3, <3>1 DEF Request
      <3> QED BY <2>4, <3>2, <3>3 DEF Delete
    <2> QED BY <1>2, <2>2, <2>3, <2>4
  <1>5. s.phase = c.phase /\ s.adm = c.adm /\ s.blocks = c.blocks /\ s.nothing = c.nothing BY <1>3 DEF Marks
  <1> HIDE DEF c, s
  <1>6. ASSUME NEW r \in Requests PROVE Requesting(r)'
    <2>1. CASE r = q
      <3>1. Requesting(q) BY <1>1 DEF RequestInv
      <3>2. spec[q] # None BY <1>3, <1>4, <3>1 DEF Requesting, c
      <3>3. (exec.exists => IF owner(q) THEN Owned(req[q]) ELSE req[q].adm => Settles(q, req[q]))'
        <4>1. exec.exists => IF owner(q) THEN Owned(s) ELSE s.adm => Settles(q, s)
          BY <1>4, <1>5, <3>1 DEF Requesting, Owned, Settles, c
        <4> QED BY <1>3, <4>1 DEF owner, Owned, Settles, compensated, reorganizes, s
      <3> QED BY <1>3, <1>4, <1>5, <2>1, <3>1, <3>2, <3>3 DEF Requesting, c, s
    <2>2. CASE r # q
      <3>1. Requesting(r) /\ req'[r] = req[r] BY <1>1, <1>3, <2>2 DEF RequestInv
      <3>2. (exec.exists => IF owner(r) THEN Owned(req[r]) ELSE req[r].adm => Settles(r, req[r]))'
        BY <1>3, <3>1 DEF Requesting, owner, Owned, Settles, compensated, reorganizes
      <3> QED BY <1>3, <3>1, <3>2 DEF Requesting
    <2> QED BY <2>1, <2>2
  <1> QED BY <1>6 DEF RequestInv

LEMMA RequestStep == ASSUME ActionsInv, Bounds, Nil, [Next]_vars PROVE RequestInv'
  <1>1. Types /\ ReplacementInv /\ RequestInv /\ (exec.exists => CoreInv) BY DEF ActionsInv, CoreInv
  <1>2. CASE Elsewhere \/ UNCHANGED vars
    <2>1. UNCHANGED <<req, made, spec, exec, wire>> BY <1>2 DEF Elsewhere, vars
    <2> QED BY <1>1, <2>1, RequestKept
  <1>3. CASE Local
    <2>1. UNCHANGED <<req, made, spec, exec>> /\ wire' \subseteq wire BY <1>3 DEF Local
    <2> QED BY <1>1, <2>1, RequestKept
  <1>4. CASE Written BY <1>1, <1>4, RequestAmended, RequestReleased DEF Written
  <1>5. ASSUME NEW r \in Requests, Candidate(r) PROVE RequestInv'
    <2>1. UNCHANGED <<req, made, spec, exec, wire>> BY <1>5 DEF Candidate, aside
    <2> QED BY <1>1, <2>1, RequestKept
  <1>6. CASE Reserve BY <1>6, RequestReserved
  <1>7. CASE Arm BY <1>1, <1>7, RequestArmed DEF Arm
  <1>8. CASE Account \/ Withdraw BY <1>1, <1>8, RequestReceipted DEF Account, Withdraw
  <1>9. CASE Confirm BY <1>9, RequestConfirmed
  <1>10. ASSUME NEW call, Execute(call) PROVE RequestInv' BY <1>10, RequestExecuted
  <1>11. CASE Peer BY <1>1, <1>11, PeerChain, RequestKept
  <1>12. CASE Dispose
    <2>1. exec \in Execution BY <1>1, Parts
    <2>2. UNCHANGED <<req, made, spec, wire>> /\ ~exec'.exists BY <1>12, <2>1 DEF Dispose, Execution
    <2> QED BY <1>1, <2>2, RequestFrame
  <1>13. CASE ReportAction BY <1>13, RequestReported
  <1>14. CASE Looks
    <2>1. UNCHANGED <<req, made, spec, exec, wire>>
      BY <1>14 DEF Looks, ReadExecution, AbortLife, ReadRequest, apart
    <2> QED BY <1>1, <2>1, RequestKept
  <1>15. CASE Remarks BY <1>15, RequestMarked
  <1> QED BY <1>1, <1>2, <1>3, <1>4, <1>5, <1>6, <1>7, <1>8, <1>9, <1>10, <1>11, <1>12, <1>13, <1>14, <1>15,
      Steps

-----------------------------------------------------------------------------
(* What the operator read *)

Reading == life.pc = "write" /\ bound

\* The reservation that was read is still there, or its request reports all of it.
Present ==
    /\ owner(life.request) /\ life.exec.action.blocks <= exec.action.blocks
    /\ AtRest(life.exec.action, life.exec.armed) => AtRest(exec.action, exec.armed)

Over ==
    \/ req[life.request].state = "gone"
    \/ IsTerminalPhase(req[life.request].phase) /\ life.exec.action.blocks = req[life.request].blocks

LEMMA CopyParts ==
  ASSUME Types, CopyInv, Reading
  PROVE  /\ life.request \in Requests /\ life.exec.action \in Reservation
         /\ life.exec.action.blocks \in Nat /\ req[life.request] \in Request
         /\ req[life.request].blocks <= life.exec.action.blocks
         /\ exec.exists => Present \/ Over
  <1>1. life.pc = "write" /\ bound BY DEF Reading
  <1>2. life.request \in Requests /\ life.exec \in Execution BY <1>1 DEF Types, HeldInv
  <1>3. life.exec.action \in Reservation BY <1>1, <1>2, Record DEF bound
  <1>4. life.exec.action.blocks \in Nat BY <1>3, Fields
  <1>5. req[life.request] \in Request BY <1>2, Parts
  <1>6. /\ req[life.request].blocks <= life.exec.action.blocks
        /\ exec.exists => Present \/ Over
    BY <1>1 DEF CopyInv, Present, Over
  <1> QED BY <1>2, <1>3, <1>4, <1>5, <1>6

LEMMA CopyFrame ==
  ASSUME CopyInv, Types, UNCHANGED <<life, spec>>,
         \A r \in Requests : made[r]["generate"] <= made'[r]["generate"] /\ made'[r]["generate"] \in Nat,
         \A r \in Requests : /\ req'[r].blocks = req[r].blocks /\ req'[r].phase = req[r].phase
                             /\ req[r].state = "gone" => req'[r].state = "gone",
         exec'.exists => exec.exists /\ (Reading /\ Present => Present' \/ Over')
  PROVE  CopyInv'
  <1>1. life.pc # "idle" => life'.copy.state \in {"live", "deleting"} BY DEF CopyInv
  <1>2. ASSUME Reading PROVE
          LET r == life.request
              b == life.exec.action
          IN
          /\ Sound(b)' /\ b.blocks <= made'[r]["generate"] /\ req'[r].blocks <= b.blocks
          /\ exec'.exists => Present' \/ Over'
    <2> DEFINE r == life.request
               b == life.exec.action
    <2>1. life.pc = "write" /\ bound BY <1>2 DEF Reading
    <2>2. r \in Requests /\ b.blocks \in Nat /\ req[r].blocks <= b.blocks /\ (exec.exists => Present \/ Over)
      BY <1>2, CopyParts
    <2>3. Sound(b) /\ b.blocks <= made[r]["generate"] BY <2>1 DEF CopyInv
    <2>4. Sound(b)' BY <2>3 DEF Sound, quota, reorganizes
    <2>5. b.blocks <= made'[r]["generate"]
      <3> DEFINE m == made[r]["generate"]
                 n == made'[r]["generate"]
                 k == b.blocks
      <3>1. made[r] \in [Methods -> Nat] BY <2>2, Parts
      <3>2. m \in Nat /\ n \in Nat /\ m <= n /\ k \in Nat /\ k <= m BY <2>2, <2>3, <3>1 DEF Methods
      <3> HIDE DEF k, m, n
      <3>3. k <= n BY <3>2
      <3> QED BY <3>3 DEF k, n
    <2>6. req'[r].blocks <= b.blocks BY <2>2
    <2>7. Over => Over' BY <2>2 DEF Over
    <2> QED BY <1>2, <2>2, <2>4, <2>5, <2>6, <2>7
  <1>3. Reading' = Reading BY DEF Reading, bound
  <1> QED BY <1>1, <1>2, <1>3 DEF CopyInv, Reading, Present, Over

\* Nothing that the operator read has changed.
LEMMA CopyKept ==
  ASSUME CopyInv, Types, UNCHANGED <<life, spec, made, req>>, exec'.exists => exec' = exec
  PROVE  CopyInv'
  <1>1. made \in [Requests -> [Methods -> Nat]] BY Parts
  <1>2. \A r \in Requests : made[r]["generate"] <= made'[r]["generate"] /\ made'[r]["generate"] \in Nat
    BY <1>1 DEF Methods
  <1>3. exec'.exists => exec.exists /\ (Present => Present') BY DEF Present, owner, AtRest, compensated,
      reorganizes, quota
  <1> QED BY <1>2, <1>3, CopyFrame

\* The record is written.
LEMMA CopyWritten ==
  ASSUME CopyInv, Types, UNCHANGED aside, exec.exists, Reading /\ Present => Present' \/ Over'
  PROVE  CopyInv'
  <1>1. made \in [Requests -> [Methods -> Nat]] BY Parts
  <1>2. UNCHANGED <<life, spec, made, req>> BY DEF aside
  <1>3. \A r \in Requests : made[r]["generate"] <= made'[r]["generate"] /\ made'[r]["generate"] \in Nat
    BY <1>1, <1>2 DEF Methods
  <1> QED BY <1>2, <1>3, CopyFrame

LEMMA CopyAmended ==
  ASSUME CopyInv, Types, Nil, UNCHANGED aside, exec.exists, Amending
  PROVE  CopyInv'
  <1> SUFFICES ASSUME Reading, Present PROVE Present' BY CopyWritten
  <1> DEFINE a == exec.action
             b == exec'.action
  <1>1. a # None /\ a.request = life.request BY DEF Present, owner
  <1>2. b # None /\ Same(a, b) /\ exec'.armed = exec.armed BY <1>1 DEF Amending, Amended
  <1>3. UNCHANGED <<life, spec>> BY DEF aside
  <1>4. owner(life.request)' BY <1>1, <1>2, <1>3 DEF owner, Same
  <1>5. AtRest(a, exec.armed) => AtRest(exec.action, exec.armed)'
    <2>1. a.final # None => b.final # None
      <3>1. a.final # None => Settled(a, b) BY <1>1 DEF Amending
      <3> QED BY <3>1 DEF Settled
    <2>2. compensated(a) => compensated(exec.action)' BY <1>2, <1>3 DEF compensated, Same, reorganizes
    <2>3. a.stop # "" => b.stop # "" BY <1>2 DEF Same
    <2>4. ~reorganizes(a) /\ a.blocks = quota(a.request) =>
            ~reorganizes(exec.action)' /\ b.blocks = quota(exec.action.request)'
      BY <1>2, <1>3 DEF Same, reorganizes, quota
    <2> QED BY <1>2, <2>1, <2>2, <2>3, <2>4 DEF AtRest
  <1>6. AtRest(life.exec.action, life.exec.armed)' = AtRest(life.exec.action, life.exec.armed)
    BY <1>3 DEF AtRest, compensated, reorganizes, quota
  <1>7. b.blocks = a.blocks BY <1>2 DEF Same
  <1> QED BY <1>3, <1>4, <1>5, <1>6, <1>7 DEF Present

LEMMA CopyReleased ==
  ASSUME CopyInv, RequestInv, Bounds, Types, Nil, UNCHANGED aside, exec.exists, Released
  PROVE  CopyInv'
  <1> SUFFICES ASSUME Reading, Present PROVE Over' BY CopyWritten
  <1> DEFINE a == exec.action
             r == life.request
             b == life.exec.action
  <1>1. r \in Requests /\ b.blocks \in Nat /\ req[r] \in Request /\ req[r].blocks <= b.blocks BY CopyParts
  <1>2. a # None /\ a.request = r /\ released(a) BY DEF Present, owner, Released
  <1>3. b.blocks <= a.blocks BY DEF Present
  <1>4. UNCHANGED <<life, req>> BY DEF aside
  <1>5. CASE acknowledged(a)
    <2>1. IsTerminalPhase(req[r].phase) /\ req[r].blocks = a.blocks BY <1>2, <1>5 DEF acknowledged
    <2>2. req[r].blocks \in Nat BY <1>1, RequestFields
    <2> DEFINE k == req[r].blocks
               l == b.blocks
    <2>3. k \in Nat /\ l \in Nat /\ k <= l /\ l <= k BY <1>1, <1>3, <2>1, <2>2
    <2> HIDE DEF k, l
    <2>4. k = l BY <2>3
    <2>5. Over BY <2>1, <2>4 DEF Over, k, l
    <2> QED BY <1>4, <2>5 DEF Over
  <1>6. CASE ~exists(r)
    <2>1. r # 0 BY <1>1 DEF Bounds
    <2>2. Requesting(r) BY <1>1 DEF RequestInv
    <2>3. Owned(req[r]) BY <1>2, <2>2 DEF Requesting, owner
    <2>4. req[r].state # "absent" BY <2>3 DEF Owned
    <2>5. req[r].state = "gone" BY <1>1, <1>6, <2>1, <2>4, RequestFields DEF exists
    <2> QED BY <1>4, <2>5 DEF Over
  <1> QED BY <1>2, <1>5, <1>6 DEF released

LEMMA CopyCalled ==
  ASSUME ActionsInv, Nil, Arm \/ Withdraw \/ Account
  PROVE  CopyInv'
  <1> DEFINE a == exec.action
             b == exec'.action
  <1>1. exec.exists BY DEF Arm, Withdraw, Account
  <1>2. Types /\ CopyInv /\ SlotInv /\ ReplacementInv BY <1>1 DEF ActionsInv
  <1>3. /\ UNCHANGED aside /\ a \in Reservation /\ b # None /\ b.request = a.request
        /\ b.blocks \in {a.blocks, a.blocks + 1} /\ ~AtRest(a, exec.armed)
    <2>1. CASE Arm
      <3>1. /\ UNCHANGED aside /\ a \in Reservation /\ b # None /\ Settled(a, b) /\ exec.armed = None
            /\ authorizeMutation(a, w.method)
        BY <1>2, <2>1, ArmWrites
      <3>2. Sound(a) /\ w.method \in Methods
        <4>1. w \in Working BY <1>2, Parts
        <4> QED BY <1>2, <3>1, <4>1 DEF ReplacementInv, Nil, Working
      <3>3. ~AtRest(a, None) BY <1>2, <3>1, <3>2, Authorized
      <3> QED BY <3>1, <3>3 DEF Settled, Same
    <2>2. CASE Withdraw
      <3>1. /\ UNCHANGED aside /\ a # None /\ b # None /\ Settled(a, b) /\ exec.armed # None
        BY <1>2, <2>2, WithdrawWrites
      <3>2. exec \in Execution BY <1>2, Parts
      <3> QED BY <3>1, <3>2, Record DEF Settled, Same, AtRest
    <2>3. CASE Account
      BY <1>2, <2>3, AccountWrites DEF Receipted, AtRest
    <2> QED BY <2>1, <2>2, <2>3
  <1>4. UNCHANGED <<life, spec>> BY <1>3 DEF aside
  <1>5. ASSUME Reading, Present PROVE Present'
    <2>1. a # None /\ a.request = life.request /\ life.exec.action.blocks <= a.blocks
          /\ ~AtRest(life.exec.action, life.exec.armed)
      BY <1>3, <1>5 DEF Present, owner
    <2>2. life.exec.action.blocks \in Nat BY <1>2, <1>5, CopyParts
    <2>3. a.blocks \in Nat BY <1>3, Fields
    <2>4. life.exec.action.blocks <= b.blocks
      <3> DEFINE k == life.exec.action.blocks
                 m == a.blocks
                 n == b.blocks
      <3>1. k \in Nat /\ m \in Nat /\ k <= m /\ n \in {m, m + 1} BY <1>3, <2>1, <2>2, <2>3
      <3> HIDE DEF k, m, n
      <3>2. k <= n BY <3>1
      <3> QED BY <3>2 DEF k, n
    <2>5. ~AtRest(life.exec.action, life.exec.armed)'
      BY <1>4, <2>1 DEF AtRest, compensated, reorganizes, quota
    <2>6. owner(life.request)' BY <1>3, <1>4, <2>1 DEF owner
    <2> QED BY <1>4, <2>4, <2>5, <2>6 DEF Present
  <1> QED BY <1>1, <1>2, <1>3, <1>5, CopyWritten

LEMMA CopyExecuted ==
  ASSUME ActionsInv, Nil, NEW call, Execute(call)
  PROVE  CopyInv'
  <1>1. CopyInv /\ Types BY DEF ActionsInv
  <1>2. call.method \in Methods /\ call.request \in Requests BY ExecuteCall
  <1>3. /\ UNCHANGED <<exec, req, life, spec>>
        /\ made' \in [Requests -> [Methods -> Nat]]
        /\ made'[call.request][call.method] = made[call.request][call.method] + 1
        /\ \A r \in Requests, m \in Methods :
             r # call.request \/ m # call.method => made'[r][m] = made[r][m]
    BY ExecuteWrites
  <1>4. made \in [Requests -> [Methods -> Nat]] BY <1>1, Parts
  <1>5. ASSUME NEW r \in Requests
        PROVE  made[r]["generate"] <= made'[r]["generate"] /\ made'[r]["generate"] \in Nat
    <2>1. "generate" \in Methods /\ made[r] \in [Methods -> Nat] /\ made'[r] \in [Methods -> Nat]
      BY <1>3, <1>4 DEF Methods
    <2>2. made[r]["generate"] \in Nat /\ made'[r]["generate"] \in Nat BY <2>1
    <2>3. made'[r]["generate"] \in {made[r]["generate"], made[r]["generate"] + 1} BY <1>3, <2>1
    <2> QED BY <2>2, <2>3
  <1>6. Present => Present' BY <1>3 DEF Present, owner, AtRest, compensated, reorganizes, quota
  <1>7. exec.exists BY DEF Execute
  <1> QED BY <1>1, <1>3, <1>5, <1>6, <1>7, CopyFrame

LEMMA CopyRemarked ==
  ASSUME ActionsInv, Nil, Remarks
  PROVE  CopyInv'
  <1>1. Types /\ CopyInv BY DEF ActionsInv
  <1>2. PICK q \in Requests : (AddFinalizer /\ q = life.request) \/ Create(q) \/ Delete(q)
    <2>1. AddFinalizer => life.request \in Requests
      <3>1. AddFinalizer => life.pc # "idle" BY DEF AddFinalizer
      <3> QED BY <1>1, <3>1 DEF Types, HeldInv
    <2> QED BY <2>1 DEF Remarks
  <1>3. /\ UNCHANGED <<chain, wire, exec, root, w, clock, made, spec>>
        /\ (AddFinalizer => life' = NoLife) /\ (~AddFinalizer => life' = life)
        /\ \A r \in Requests : r # q => req'[r] = req[r]
        /\ Marks(req[q], req'[q])
        /\ \/ req[q].state = "absent"
           \/ req[q].state = req'[q].state
           \/ req[q].state = "live"
    BY <1>1, <1>2, RequestWrites
  <1>4. CASE AddFinalizer
    <2>1. life'.pc = "idle" BY <1>3, <1>4 DEF NoLife
    <2> QED BY <2>1 DEF CopyInv
  <1>5. CASE ~AddFinalizer
    <2>1. UNCHANGED <<life, spec>> BY <1>3, <1>5
    <2>2. made \in [Requests -> [Methods -> Nat]] BY <1>1, Parts
    <2>3. \A r \in Requests : made[r]["generate"] <= made'[r]["generate"] /\ made'[r]["generate"] \in Nat
      BY <1>3, <2>2 DEF Methods
    <2>4. \A r \in Requests : /\ req'[r].blocks = req[r].blocks /\ req'[r].phase = req[r].phase
                              /\ req[r].state = "gone" => req'[r].state = "gone"
      BY <1>3 DEF Marks
    <2>5. exec'.exists => exec.exists /\ (Present => Present')
      BY <1>3, <2>1 DEF Present, owner, AtRest, compensated, reorganizes, quota
    <2> QED BY <1>1, <2>1, <2>3, <2>4, <2>5, CopyFrame
  <1> QED BY <1>4, <1>5

LEMMA CopyRead ==
  ASSUME ActionsInv, Nil, ReadExecution
  PROVE  CopyInv'
  <1> DEFINE r == life.request
             a == exec.action
  <1>1. Types /\ CopyInv /\ RequestInv /\ ReplacementInv BY DEF ActionsInv
  <1>2. /\ UNCHANGED <<exec, made, req, spec>> /\ life.pc = "exec" BY DEF ReadExecution, apart
  <1>3. life \in Operating BY <1>1, Parts
  <1>4. life'.pc = "write" /\ life'.request = r /\ life'.copy = life.copy /\ life'.exec = exec
    BY <1>3 DEF ReadExecution, Operating
  <1>5. life.copy.state \in {"live", "deleting"} BY <1>1, <1>2 DEF CopyInv
  <1>6. ASSUME exec.exists, a # None, a.request = r
        PROVE  Sound(a)' /\ a.blocks <= made[r]["generate"] /\ req[r].blocks <= a.blocks /\ owner(r)
    <2>1. owner(r) BY <1>6 DEF owner
    <2>2. Sound(a) BY <1>1, <1>6 DEF ReplacementInv
    <2>3. Sound(a)' BY <1>2, <2>2 DEF Sound, quota, reorganizes
    <2>4. r \in Requests BY <1>1, <1>2 DEF Types, HeldInv
    <2>5. Owned(req[r]) BY <1>1, <1>6, <2>1, <2>4 DEF RequestInv, Requesting
    <2>6. req[r].blocks <= a.blocks BY <2>5 DEF Owned
    <2>7. CoreInv BY <1>6 DEF ActionsInv, CoreInv
    <2>8. /\ a \in Reservation /\ Counted(a)
          /\ recorded(a, "generate") \in Nat /\ made[r]["generate"] \in Nat
      BY <1>1, <1>6, <2>7, Receipts DEF Methods
    <2>9. made[r]["generate"] \in {recorded(a, "generate"), recorded(a, "generate") + 1}
      BY <1>6, <2>8 DEF Counted, Methods
    <2>10. a.blocks <= made[r]["generate"]
      <3>1. recorded(a, "generate") = a.blocks BY DEF recorded
      <3> QED BY <2>8, <2>9, <3>1
    <2> QED BY <2>1, <2>3, <2>6, <2>10
  <1>7. a \in Reservation \cup {None}
    <2>1. exec \in Execution BY <1>1, Parts
    <2> QED BY <2>1, Record
  <1>8. bound' => exec.exists /\ a # None /\ a.request = r BY <1>4 DEF bound
  <1>9. ASSUME exec.exists, a # None, a.request = r
        PROVE (/\ owner(life.request) /\ life.exec.action.blocks <= exec.action.blocks
               /\ AtRest(life.exec.action, life.exec.armed) => AtRest(exec.action, exec.armed))'
    <2>1. life'.exec.action = exec'.action /\ life'.exec.armed = exec'.armed BY <1>2, <1>4
    <2>2. owner(life.request)' BY <1>2, <1>4, <1>9 DEF owner
    <2>3. AtRest(life.exec.action, life.exec.armed)' => AtRest(exec.action, exec.armed)'
      <3>1. PICK x, y : /\ life'.exec.action = x /\ exec'.action = x
                        /\ life'.exec.armed = y /\ exec'.armed = y
        BY <2>1
      <3>2. AtRest(life.exec.action, life.exec.armed)' = AtRest(x, y)'
        BY <3>1 DEF AtRest, compensated, reorganizes, quota
      <3>3. AtRest(exec.action, exec.armed)' = AtRest(x, y)'
        BY <3>1 DEF AtRest, compensated, reorganizes, quota
      <3> QED BY <3>2, <3>3
    <2>4. a \in Reservation BY <1>7, <1>9
    <2>5. a.blocks \in Nat BY <2>4, Fields
    <2>6. life'.exec.action.blocks <= exec'.action.blocks BY <1>2, <1>4, <2>5
    <2> QED BY <2>2, <2>3, <2>6
  <1>10. ASSUME bound' PROVE Sound(life.exec.action)'
    <2>1. Sound(a)' BY <1>6, <1>8, <1>10
    <2>2. life'.exec.action = exec'.action BY <1>2, <1>4
    <2> QED BY <2>1, <2>2 DEF Sound, quota, reorganizes
  <1> QED BY <1>2, <1>4, <1>5, <1>6, <1>8, <1>9, <1>10 DEF CopyInv

LEMMA CopyStep == ASSUME ActionsInv, Bounds, Nil, [Next]_vars PROVE CopyInv'
  <1>1. Types /\ CopyInv /\ RequestInv /\ (exec.exists => CoreInv) BY DEF ActionsInv, CoreInv
  <1>2. CASE Elsewhere \/ UNCHANGED vars
    <2>1. UNCHANGED <<life, spec, made, req, exec>> BY <1>2 DEF Elsewhere, vars
    <2> QED BY <1>1, <2>1, CopyKept
  <1>3. CASE Local
    <2>1. UNCHANGED <<life, spec, made, req, exec>> BY <1>3 DEF Local
    <2> QED BY <1>1, <2>1, CopyKept
  <1>4. CASE Written BY <1>1, <1>4, CopyAmended, CopyReleased DEF Written
  <1>5. ASSUME NEW r \in Requests, Candidate(r) PROVE CopyInv'
    <2>1. UNCHANGED <<life, spec, made, req, exec>> BY <1>5 DEF Candidate, aside
    <2> QED BY <1>1, <2>1, CopyKept
  <1>6. CASE Reserve
    <2>1. exec.exists /\ exec.action = None BY <1>6 DEF Reserve
    <2>2. UNCHANGED aside BY <1>6, <2>1, CoreReserve
    <2>3. ~Present BY <2>1 DEF Present, owner
    <2> QED BY <1>1, <2>1, <2>2, <2>3, CopyWritten
  <1>7. CASE Arm \/ Withdraw \/ Account BY <1>7, CopyCalled
  <1>8. CASE Confirm
    <2>1. UNCHANGED <<life, spec, made, req, exec>> BY <1>8 DEF Confirm
    <2> QED BY <1>1, <2>1, CopyKept
  <1>9. ASSUME NEW call, Execute(call) PROVE CopyInv' BY <1>9, CopyExecuted
  <1>10. CASE Peer BY <1>1, <1>10, PeerChain, CopyKept
  <1>11. CASE Dispose
    <2>1. exec \in Execution BY <1>1, Parts
    <2>2. UNCHANGED <<life, spec, made, req>> /\ ~exec'.exists BY <1>11, <2>1 DEF Dispose, Execution
    <2> QED BY <1>1, <2>2, CopyKept
  <1>12. CASE ReportAction \/ AbortLife
    <2>1. life'.pc = "idle" BY <1>12 DEF ReportAction, AbortLife, NoLife
    <2> QED BY <2>1 DEF CopyInv
  <1>13. ASSUME NEW r \in Requests, ReadRequest(r) PROVE CopyInv'
    <2>1. life'.pc = "exec" /\ life'.copy = req[r] BY <1>13 DEF ReadRequest, NoLife
    <2>2. req[r].state \in {"live", "deleting"} BY <1>13 DEF ReadRequest, exists
    <2> QED BY <2>1, <2>2 DEF CopyInv
  <1>14. CASE ReadExecution BY <1>14, CopyRead
  <1>15. CASE Remarks BY <1>15, CopyRemarked
  <1> QED BY <1>1, <1>2, <1>3, <1>4, <1>5, <1>6, <1>7, <1>8, <1>9, <1>10, <1>11, <1>12, <1>13, <1>14, <1>15,
      Steps
          DEF Looks

-----------------------------------------------------------------------------
(* What was asked for *)

\* A call that the slot holds and that was not executed is one that is left to be made.
LEMMA Left ==
  ASSUME Types, Nil, CoreInv, ReplacementInv, exec.armed # None,
         made[exec.action.request][exec.armed.method] = recorded(exec.action, exec.armed.method)
  PROVE  LET r == exec.action.request
             m == exec.armed.method
         IN
         /\ exec.action # None /\ r \in Requests /\ m \in Methods /\ exec.armed.request = r /\ spec[r] # None
         /\ made[r][m] < limit(r, m)
  <1> DEFINE a == exec.action
             r == a.request
             m == exec.armed.method
  <1>1. a # None BY DEF CoreInv, SlotInv
  <1>2. a \in Reservation /\ r \in Requests /\ Sound(a) /\ recorded(a, m) = made[r][m] BY <1>1, Receipts
  <1>3. Needed(a, m) /\ exec.armed.request = r BY DEF CoreInv, ArmedInv
  <1>4. m \in Methods
    <2>1. exec \in Execution BY Parts
    <2>2. exec.armed \in Call BY <2>1, Record
    <2> QED BY <2>2 DEF Call
  <1>5. ASSUME m = "generate" PROVE made[r][m] < limit(r, m)
    BY <1>2, <1>3, <1>5 DEF limit, recorded, Needed
  <1>6. ASSUME m = "invalidate" PROVE made[r][m] < limit(r, m)
    BY <1>2, <1>3, <1>6 DEF limit, recorded, Needed
  <1>7. ASSUME m = "reconsider" PROVE made[r][m] < limit(r, m)
    BY <1>2, <1>3, <1>7 DEF limit, recorded, Needed
  <1>8. made[r][m] < limit(r, m) BY <1>4, <1>5, <1>6, <1>7 DEF Methods
  <1> QED BY <1>1, <1>2, <1>3, <1>4, <1>8 DEF Sound

\* Calls are lost or withdrawn, and nothing else: what was asked for still bounds them.
LEMMA BoundFrame ==
  ASSUME BoundInv, UNCHANGED <<made, spec>>, wire' \subseteq wire,
         \A r \in Requests : req'[r].phase = req[r].phase /\ req'[r].nothing = req[r].nothing
  PROVE  BoundInv'
  <1>1. \A c, d \in wire' : c = d BY DEF BoundInv
  <1>2. ASSUME NEW r \in Requests, spec[r] # None PROVE Bounded(r)'
    <2>1. Bounded(r) BY <1>2 DEF BoundInv
    <2> QED BY <2>1 DEF Bounded, limit, quota
  <1> QED BY <1>1, <1>2 DEF BoundInv

LEMMA BoundConfirmed ==
  ASSUME ActionsInv, Nil, Confirm
  PROVE  BoundInv'
  <1>1. Types /\ BoundInv /\ ReplacementInv /\ RequestInv BY DEF ActionsInv
  <1>2. exec.exists BY RequestConfirmed
  <1>3. CoreInv BY <1>2 DEF ActionsInv, CoreInv
  <1>4. /\ exec.armed # None /\ wire' = {exec.armed} /\ exec.action # None
        /\ w.pc = "confirm" /\ UNCHANGED <<made, spec, req, exec>>
    BY <1>1, <1>3, CoreConfirm, ConfirmWrites
  <1> DEFINE q == exec.action.request
             m == exec.armed.method
  <1>5. Counted(exec.action) BY <1>3, <1>4 DEF CoreInv, CountInv
  <1>6. made[q][m] = recorded(exec.action, m) BY <1>4, <1>5 DEF Counted
  <1>7. q \in Requests /\ exec.armed.request = q /\ made[q][m] < limit(q, m) BY <1>1, <1>3, <1>4, <1>6, Left
  <1>8. req[q].phase \notin {"Completed", "Failed"} /\ ~req[q].nothing
    <2>1. Owned(req[q]) BY <1>1, <1>2, <1>4, <1>7 DEF RequestInv, Requesting, owner
    <2> QED BY <1>4, <2>1 DEF Owned
  <1>9. ASSUME NEW r \in Requests, spec[r] # None PROVE Bounded(r)'
    <2>1. Bounded(r) BY <1>1, <1>9 DEF BoundInv
    <2>2. /\ \A k \in Methods : made'[r][k] <= limit(r, k)'
          /\ req'[r].phase = "Completed" => made'[r]["generate"] = quota(r)'
          /\ req'[r].nothing => \A k \in Methods : made'[r][k] = 0
      BY <1>4, <2>1 DEF Bounded, limit, quota
    <2>3. r = q => made'[r][m] < limit(r, m)' BY <1>4, <1>7 DEF limit, quota
    <2> QED BY <1>4, <1>7, <1>8, <2>2, <2>3 DEF Bounded
  <1>10. \A c, d \in wire' : c = d BY <1>4
  <1> QED BY <1>4, <1>9, <1>10 DEF BoundInv

LEMMA BoundExecuted ==
  ASSUME ActionsInv, Nil, NEW call, Execute(call)
  PROVE  BoundInv'
  <1> DEFINE q == call.request
             m == call.method
  <1>1. Types /\ BoundInv /\ RequestInv BY DEF ActionsInv
  <1>2. /\ exec.exists /\ call \in wire /\ call # None /\ call = exec.armed /\ exec.action # None
        /\ m \in Methods /\ q \in Requests /\ q = exec.action.request /\ Sound(exec.action) /\ wire' = {}
    BY ExecuteCall
  <1>3. /\ UNCHANGED <<req, spec>> /\ made' \in [Requests -> [Methods -> Nat]]
        /\ made'[q][m] = made[q][m] + 1
        /\ \A r \in Requests, k \in Methods : r # q \/ k # m => made'[r][k] = made[r][k]
    BY ExecuteWrites
  <1>4. req[q].phase \notin {"Completed", "Failed"} /\ ~req[q].nothing
    <2>1. Owned(req[q]) BY <1>1, <1>2 DEF RequestInv, Requesting, owner
    <2> QED BY <1>2, <2>1 DEF Owned
  <1>5. ASSUME NEW r \in Requests, spec[r] # None PROVE Bounded(r)'
    <2>1. Bounded(r) BY <1>1, <1>5 DEF BoundInv
    <2>2. \A k \in Methods : limit(r, k)' = limit(r, k) BY <1>3 DEF limit, quota
    <2>3. quota(r)' = quota(r) BY <1>3 DEF quota
    <2>4. CASE r # q
      <3>1. \A k \in Methods : made'[r][k] = made[r][k] BY <1>3, <2>4
      <3>2. made'[r]["generate"] = made[r]["generate"] BY <3>1 DEF Methods
      <3> QED BY <1>2, <1>3, <2>1, <2>2, <2>3, <3>1, <3>2 DEF Bounded
    <2>5. CASE r = q
      <3>1. made[q][m] < limit(q, m) BY <1>2, <2>1, <2>5 DEF Bounded
      <3>2. made[q][m] \in Nat /\ limit(q, m) \in Nat
        <4>1. made \in [Requests -> [Methods -> Nat]] BY <1>1, Parts
        <4>2. quota(q) \in Nat BY <1>1, <1>2, <1>5, <2>5, Quota
        <4> QED BY <1>2, <4>1, <4>2 DEF limit
      <3>3. made'[q][m] <= limit(q, m)
        <4> DEFINE x == made[q][m]
                   y == limit(q, m)
        <4>1. x < y /\ x \in Nat /\ y \in Nat /\ made'[q][m] = x + 1 BY <1>3, <3>1, <3>2
        <4> HIDE DEF x, y
        <4>2. made'[q][m] <= y BY <4>1
        <4> QED BY <4>2 DEF y
      <3>4. \A k \in Methods : made'[r][k] <= limit(r, k)' BY <1>2, <1>3, <2>1, <2>2, <2>5, <3>3 DEF Bounded
      <3> QED BY <1>2, <1>3, <1>4, <2>5, <3>4 DEF Bounded
    <2> QED BY <2>4, <2>5
  <1> QED BY <1>2, <1>3, <1>5 DEF BoundInv

LEMMA BoundReported ==
  ASSUME ActionsInv, Nil, ReportAction
  PROVE  BoundInv'
  <1> DEFINE q == life.request
             c == req[q]
             s == req'[q]
             b == life.exec.action
             n == made[q]["generate"]
  <1>1. Types /\ BoundInv /\ RequestInv /\ CopyInv /\ ReplacementInv /\ GoneInv BY DEF ActionsInv
  <1>2. /\ UNCHANGED apart /\ life.pc = "write" /\ q \in Requests /\ c = life.copy
        /\ \A r \in Requests : r # q => req'[r] = req[r]
        /\ \/ ~bound /\ UnboundReport(c, s)
           \/ bound /\ BoundReport(c, s)
           \/ Closing(c, s)
    BY <1>1, ReportWrites
  <1>3. UNCHANGED <<wire, made, spec>> BY <1>2 DEF apart
  <1>4. c.state \in {"live", "deleting"} BY <1>1, <1>2 DEF CopyInv
  <1>5. Requesting(q) /\ spec[q] # None BY <1>1, <1>2, <1>4 DEF RequestInv, Requesting
  <1>6. Bounded(q) BY <1>1, <1>2, <1>5 DEF BoundInv
  <1>7. ~c.adm => (\A m \in Methods : made[q][m] = 0) /\ \A d \in wire : d.request # q
    BY <1>5 DEF Requesting
  \* A report that ends the request now finds nothing under way.
  <1>8. ASSUME bound, ~disposed, ~IsTerminalPhase(c.phase), AtRest(b, life.exec.armed) PROVE wire = {}
    <2>1. exec.exists BY <1>1, <1>8 DEF GoneInv, disposed
    <2>2. owner(q) /\ AtRest(exec.action, exec.armed)
      BY <1>1, <1>2, <1>4, <1>8, <2>1 DEF CopyInv
    <2>3. exec.armed = None BY <2>2 DEF AtRest
    <2>4. \A d \in wire : d = None BY <2>1, <2>3 DEF ActionsInv, SlotInv
    <2>5. wire \subseteq Call BY <1>1, Parts
    <2> QED BY <2>4, <2>5 DEF Nil
  <1>9. ASSUME bound, Complete(b, q) PROVE n = quota(q)
    <2>1. Sound(b) /\ b.blocks <= n /\ b.request = q BY <1>1, <1>2, <1>9 DEF CopyInv, bound
    <2>2. b.blocks = quota(q) BY <1>9, <2>1 DEF Complete, Sound
    <2>3. n <= quota(q) BY <1>6 DEF Bounded, limit, Methods
    <2>4. quota(q) \in Nat BY <1>1, <1>2, <1>5, Quota
    <2>5. made \in [Requests -> [Methods -> Nat]] BY <1>1, Parts
    <2>6. n \in Nat BY <1>2, <2>5 DEF Methods
    <2> DEFINE x == quota(q)
    <2>7. x \in Nat /\ x <= n /\ n <= x BY <2>1, <2>2, <2>3, <2>4
    <2> HIDE DEF x, n
    <2>8. n = x BY <2>6, <2>7
    <2> QED BY <2>8 DEF x
  <1>10. AtRest(b, life.exec.armed) <=>
           /\ life.exec.armed = None
           /\ \/ b.stop # "" /\ compensated(b)
              \/ ~reorganizes(b) /\ b.blocks = quota(b.request)
              \/ b.final # None
    BY DEF AtRest
  <1>11. bound => b.request = q BY DEF bound
  <1> HIDE DEF c, s, b
  <1> DEFINE Fine ==
        /\ s.phase = "Completed" => n = quota(q)
        /\ s.phase \in {"Completed", "Failed"} \/ s.nothing => \A d \in wire : d.request # q
        /\ s.nothing => \A m \in Methods : made[q][m] = 0
  <1>12. /\ c.phase = "Completed" => n = quota(q)
         /\ c.phase \in {"Completed", "Failed"} \/ c.nothing => \A d \in wire : d.request # q
         /\ c.nothing => \A m \in Methods : made[q][m] = 0
    BY <1>6 DEF Bounded, c
  <1>13. ASSUME ~bound /\ UnboundReport(c, s) PROVE Fine
    <2>1. /\ IsTerminalPhase(c.phase) => s.phase = c.phase
          /\ s.nothing => c.nothing \/ (~c.adm /\ s.phase = "Failed")
          /\ s.phase = "Completed" => c.phase = "Completed"
          /\ s.phase = "Failed" => c.phase = "Failed" \/ ~c.adm
      BY <1>13 DEF UnboundReport
    <2> HIDE DEF n
    <2> QED BY <1>7, <1>12, <2>1
  <1>14. ASSUME bound /\ BoundReport(c, s) PROVE Fine
    <2>1. /\ s.nothing = c.nothing
          /\ IsTerminalPhase(c.phase) => s.phase = c.phase
          /\ s.phase = "Completed" =>
               c.phase = "Completed" \/ (~disposed /\ life.exec.armed = None /\ Complete(b, q))
          /\ s.phase = "Failed" =>
               c.phase = "Failed" \/ (~disposed /\ life.exec.armed = None /\ b.stop # "" /\ compensated(b))
      BY <1>14 DEF BoundReport, b
    <2> HIDE DEF n
    <2>2. s.phase = "Completed" => n = quota(q) BY <1>9, <1>12, <1>14, <2>1 DEF b
    <2>3. s.phase \in {"Completed", "Failed"} => s.phase = c.phase \/ wire = {}
      <3>1. Complete(b, q) /\ life.exec.armed = None => AtRest(b, life.exec.armed)
        BY <1>10, <1>11, <1>14 DEF Complete, b
      <3> QED BY <1>8, <1>10, <1>14, <2>1, <3>1 DEF b, c
    <2> QED BY <1>12, <2>1, <2>2, <2>3
  <1>15. ASSUME Closing(c, s) PROVE Fine
    <2>1. s.phase = c.phase /\ s.nothing = c.nothing BY <1>15 DEF Closing
    <2> HIDE DEF n
    <2> QED BY <1>12, <2>1
  <1>16. Fine BY <1>2, <1>13, <1>14, <1>15 DEF c, s
  <1>17. ASSUME NEW r \in Requests, spec[r] # None PROVE Bounded(r)'
    <2>1. Bounded(r) BY <1>1, <1>17 DEF BoundInv
    <2>2. CASE r = q
      <3>1. /\ \A m \in Methods : made'[r][m] <= limit(r, m)'
            /\ \A d \in wire' : d.request = r => made'[r][d.method] < limit(r, d.method)'
        BY <1>3, <2>1 DEF Bounded, limit, quota
      <3>2. quota(r)' = quota(r) BY <1>3 DEF quota
      <3> QED BY <1>3, <1>16, <2>2, <3>1, <3>2 DEF Bounded, s
    <2>3. CASE r # q
      <3>1. req'[r] = req[r] BY <1>2, <2>3
      <3> QED BY <1>3, <2>1, <3>1 DEF Bounded, limit, quota
    <2> QED BY <2>2, <2>3
  <1>18. \A d, e \in wire' : d = e BY <1>1, <1>3 DEF BoundInv
  <1> QED BY <1>3, <1>17, <1>18 DEF BoundInv

LEMMA BoundStep == ASSUME ActionsInv, Nil, [Next]_vars PROVE BoundInv'
  <1>1. Types /\ BoundInv /\ (exec.exists => CoreInv) BY DEF ActionsInv, CoreInv
  <1>2. ASSUME UNCHANGED <<made, spec, req>>, wire' \subseteq wire PROVE BoundInv'
    BY <1>1, <1>2, BoundFrame
  <1>3. UNCHANGED aside => BoundInv' BY <1>2 DEF aside
  <1>4. CASE Elsewhere \/ UNCHANGED vars
    <2>1. UNCHANGED <<made, spec, req, wire>> BY <1>4 DEF Elsewhere, vars
    <2> QED BY <1>2, <2>1
  <1>5. CASE Local
    <2>1. UNCHANGED <<made, spec, req>> /\ wire' \subseteq wire BY <1>5 DEF Local
    <2> QED BY <1>2, <2>1
  <1>6. CASE Written \/ Reserve \/ Arm \/ Withdraw \/ Account \/ \E r \in Requests : Candidate(r)
    BY <1>3, <1>6 DEF Written, Reserve, Arm, Withdraw, Account, Candidate
  <1>7. CASE Confirm BY <1>7, BoundConfirmed
  <1>8. ASSUME NEW call, Execute(call) PROVE BoundInv' BY <1>8, BoundExecuted
  <1>9. CASE Peer BY <1>2, <1>9, PeerChain
  <1>10. CASE Dispose BY <1>2, <1>10 DEF Dispose
  <1>11. CASE ReportAction BY <1>11, BoundReported
  <1>12. CASE Looks BY <1>2, <1>12 DEF Looks, ReadExecution, AbortLife, ReadRequest, apart
  <1>13. CASE Remarks
    <2>1. PICK q \in Requests : (AddFinalizer /\ q = life.request) \/ Create(q) \/ Delete(q)
      <3>1. AddFinalizer => life.request \in Requests
        <4>1. AddFinalizer => life.pc # "idle" BY DEF AddFinalizer
        <4> QED BY <1>1, <4>1 DEF Types, HeldInv
      <3> QED BY <1>13, <3>1 DEF Remarks
    <2>2. /\ UNCHANGED <<wire, made, spec>> /\ \A r \in Requests : r # q => req'[r] = req[r]
          /\ Marks(req[q], req'[q])
      BY <1>1, <2>1, RequestWrites
    <2>3. \A r \in Requests : req'[r].phase = req[r].phase /\ req'[r].nothing = req[r].nothing
      BY <2>2 DEF Marks
    <2> QED BY <1>1, <2>2, <2>3, BoundFrame
  <1> QED BY <1>1, <1>4, <1>5, <1>6, <1>7, <1>8, <1>9, <1>10, <1>11, <1>12, <1>13, Steps

-----------------------------------------------------------------------------
(* The theorems *)

LEMMA TypesStep == ASSUME ActionsInv, Nil, [Next]_vars PROVE Types'
  <1>1. Types BY DEF ActionsInv
  <1>2. CASE Worker
    BY <1>1, <1>2, CandidateTypes, ReserveTypes, ReadRecordTypes, StepTypes, CallTypes, AbortTypes, ChainTypes
       DEF Worker
  <1>3. CASE Operator BY <1>1, <1>3, OperatorTypes DEF Operator
  <1>4. CASE \E r \in Requests : Create(r) \/ Delete(r) \/ Expire(r)
    <2>1. CASE \E r \in Requests : Create(r) \/ Delete(r) BY <1>1, <2>1, OperatorTypes
    <2>2. CASE \E r \in Requests : Expire(r) BY <1>1, <2>2, WorldTypes
    <2> QED BY <1>4, <2>1, <2>2
  <1>5. CASE EditRoot \/ Dispose \/ Crash \/ Lose \/ Restart \/ Peer
    BY <1>1, <1>5, WorldTypes, FailureTypes, ChainTypes
  <1>6. CASE UNCHANGED vars BY <1>1, <1>6 DEF vars, Types, TypeOK, HeldInv, bound
  <1> QED BY <1>2, <1>3, <1>4, <1>5, <1>6 DEF Next

\* The invariant is kept by every step.
LEMMA NextStep == ASSUME ActionsInv, Bounds, Nil, [Next]_vars PROVE ActionsInv'
  <1>1. Types' /\ GoneInv' /\ (exec'.exists => CoreInv') BY TypesStep, GoneStep, CoreStep
  <1>2. RequestInv' /\ CopyInv' /\ ReplacementInv' /\ ReserveInv' /\ BoundInv'
    BY RequestStep, CopyStep, ReservationStep, BoundStep
  <1> QED BY <1>1, <1>2 DEF ActionsInv, CoreInv

LEMMA InitialChain ==
  ASSUME Bounds, Nil, chain = [path |-> [i \in 1..Base |-> [j \in 1..i |-> j]], marked |-> {}, tip |-> Base]
  PROVE  GoodChain(chain) /\ chain.marked = {}
  <1> DEFINE p == [i \in 1..Base |-> [j \in 1..i |-> j]]
  <1>1. Base \in Nat BY Numbers
  <1>2. \A i \in 1..Base : [j \in 1..i |-> j] \in Seq(1..Base) /\ [j \in 1..i |-> j] \in Seq(Nat)
    <2> SUFFICES ASSUME NEW i \in 1..Base
                 PROVE  [j \in 1..i |-> j] \in Seq(1..Base) /\ [j \in 1..i |-> j] \in Seq(Nat)
      OBVIOUS
    <2>1. i \in Nat /\ \A j \in 1..i : j \in 1..Base /\ j \in Nat BY <1>1
    <2> QED BY <2>1, IsASeq
  <1>3. p \in Seq(Seq(1..Base)) /\ p \in Seq(Seq(Nat)) BY <1>1, <1>2, IsASeq
  <1>4. Len(p) = Base
    <2>1. DOMAIN p = 1..Base OBVIOUS
    <2> HIDE DEF p
    <2> QED BY <1>1, <1>3, <2>1, LenProperties
  <1>5. chain = [path |-> p, marked |-> {}, tip |-> Base] OBVIOUS
  <1> HIDE DEF p
  <1>6. chain.path = p /\ chain.marked = {} /\ chain.tip = Base BY <1>5
  <1>7. chain \in Chain BY <1>1, <1>3, <1>5 DEF Chain
  <1> QED BY <1>1, <1>3, <1>4, <1>6, <1>7 DEF GoodChain

LEMMA FirstState ==
  ASSUME Bounds, Nil, Init
  PROVE  ActionsInv
  <1>1. GoodChain(chain) /\ chain.marked = {} BY InitialChain DEF Init
  <1>2. PICK c \in Cases : spec = c.spec /\ budget = c.budget BY DEF Init
  <1>3. spec \in [Requests -> Wanted \cup {None}] /\ budget \in [Kinds -> Nat] BY <1>2, Numbers
  <1>4. /\ wire = {} /\ exec \in Execution /\ exec.exists /\ exec.action = None /\ exec.armed = None
    BY DEF Init, Execution
  <1>5. NoRequest \in Request BY DEF NoRequest, Request, Phases
  <1>6. req \in [Requests -> Request] /\ \A r \in Requests : req[r] = NoRequest BY <1>5 DEF Init
  <1>7. made \in [Requests -> [Methods -> Nat]] /\ \A r \in Requests, m \in Methods : made[r][m] = 0
    BY DEF Init
  <1>8. /\ w \in Working /\ w.pc = "idle" /\ w.active = None /\ w.got = None
        /\ w.exec \in Execution \cup {None}
    BY DEF Init, Idle, Working, Methods
  <1>9. life \in Operating /\ life.pc = "idle" /\ life.copy \in Request \cup {None}
    BY DEF Init, NoLife, Operating
  <1>10. /\ root \in [mode : {"Running", "Paused", "Stopped", "Deleting", "Gone"}, actor : Nat,
            enabled : BOOLEAN]
         /\ root.mode = "Running" /\ clock \in [Requests -> 0..2]
    BY DEF Init
  <1>11. TypeOK
    BY <1>1, <1>3, <1>4, <1>6, <1>7, <1>8, <1>9, <1>10 DEF TypeOK, GoodChain, Working, Operating
  <1>12. HeldInv BY <1>1, <1>3, <1>8, <1>9 DEF HeldInv, GoodChain
  <1>13. SlotInv /\ ArmedInv /\ CountInv /\ GoneInv
    BY <1>1, <1>4, <1>8, <1>10 DEF SlotInv, ArmedInv, CountInv, GoneInv
  <1>14. RequestInv
    <2>1. /\ NoRequest.state = "absent" /\ ~NoRequest.adm /\ NoRequest.blocks = 0
          /\ NoRequest.phase = "" /\ ~NoRequest.nothing
      BY DEF NoRequest
    <2> SUFFICES ASSUME NEW r \in Requests PROVE Requesting(r) BY DEF RequestInv
    <2>2. req[r] = NoRequest /\ \A m \in Methods : made[r][m] = 0 BY <1>6, <1>7
    <2>3. ~owner(r) BY <1>4 DEF owner
    <2> QED BY <1>4, <2>1, <2>2, <2>3 DEF Requesting
  <1>15. CopyInv /\ ReplacementInv /\ ReserveInv BY <1>4, <1>8, <1>9 DEF CopyInv, ReplacementInv, ReserveInv
  <1>16. BoundInv
    <2>1. Types BY <1>11, <1>12 DEF Types
    <2>2. ASSUME NEW r \in Requests, spec[r] # None PROVE Bounded(r)
      <3>1. quota(r) \in Nat BY <2>1, <2>2, Quota
      <3>2. \A m \in Methods : made[r][m] <= limit(r, m) BY <1>7, <3>1 DEF limit
      <3>3. req[r].phase = "" /\ ~req[r].nothing
        <4>1. NoRequest.phase = "" /\ ~NoRequest.nothing BY DEF NoRequest
        <4> QED BY <1>6, <2>2, <4>1
      <3> QED BY <1>4, <3>2, <3>3 DEF Bounded
    <2> QED BY <1>4, <2>2 DEF BoundInv
  <1> QED BY <1>11, <1>12, <1>13, <1>14, <1>15, <1>16 DEF ActionsInv, Types

\* Calls on their way and calls that were executed, together.
LEMMA Totals ==
  ASSUME ActionsInv, Nil, NEW r \in Requests, spec[r] # None, NEW m \in Methods
  PROVE  LET sent == {c \in wire : c.request = r}
             total == made[r][m] + Cardinality({c \in sent : c.method = m})
         IN  total <= limit(r, m) /\ (sent = {} => total = made[r][m])
  <1> DEFINE sent == {c \in wire : c.request = r}
             under == {c \in sent : c.method = m}
  <1>1. Types /\ BoundInv BY DEF ActionsInv
  <1>2. Bounded(r) /\ \A c, d \in wire : c = d BY <1>1 DEF BoundInv
  <1>3. made[r][m] \in Nat /\ limit(r, m) \in Nat
    <2>1. made \in [Requests -> [Methods -> Nat]] BY <1>1, Parts
    <2>2. quota(r) \in Nat BY <1>1, Quota
    <2> QED BY <2>1, <2>2 DEF limit
  <1>4. CASE under = {}
    <2>1. Cardinality(under) = 0 BY <1>4, FS_EmptySet
    <2>2. made[r][m] <= limit(r, m) BY <1>2 DEF Bounded
    <2> QED BY <1>3, <2>1, <2>2
  <1>5. ASSUME NEW c \in under PROVE Cardinality(under) = 1 /\ made[r][m] < limit(r, m) /\ sent # {}
    <2>1. under = {c} BY <1>2, <1>5
    <2>2. Cardinality(under) = 1 BY <2>1, FS_Singleton
    <2>3. c \in wire /\ c.request = r /\ c.method = m BY <1>5
    <2> QED BY <1>2, <2>2, <2>3 DEF Bounded
  <1>6. CASE under # {}
    <2>1. Cardinality(under) = 1 /\ made[r][m] < limit(r, m) /\ sent # {} BY <1>5, <1>6
    <2> HIDE DEF under
    <2>2. made[r][m] + Cardinality(under) <= limit(r, m) BY <1>3, <2>1
    <2> QED BY <2>1, <2>2 DEF under
  <1> QED BY <1>4, <1>6

LEMMA Promised ==
  ASSUME ActionsInv, Nil
  PROVE  TypeOK /\ OutcomeTrue /\ MarkerOwned /\ EvidencePublished
  <1>1. Types /\ RequestInv /\ BoundInv /\ ReplacementInv /\ (exec.exists => CoreInv) BY DEF ActionsInv,
      CoreInv
  <1>2. MarkerOwned
    <2> SUFFICES ASSUME exec.exists, chain.marked # {}
                 PROVE  exec.action # None /\ chain.marked = {exec.action.hash}
      BY DEF MarkerOwned
    <2>1. CountInv BY <1>1 DEF CoreInv
    <2> QED BY <2>1 DEF CountInv, Counted
  <1>3. ASSUME exec.exists, NEW r \in Requests, owner(r), req[r].phase \in {"Completed", "Failed"}
        PROVE  chain.marked = {}
    <2> DEFINE a == exec.action
    <2>1. a # None /\ a.request = r BY <1>3 DEF owner
    <2>2. Owned(req[r]) BY <1>1, <1>3 DEF RequestInv, Requesting
    <2>3. exec.armed = None /\ compensated(a) BY <1>3, <2>2 DEF Owned
    <2>4. Counted(a) /\ Sound(a) BY <1>1, <1>3, <2>1 DEF CoreInv, CountInv, ReplacementInv
    <2>5. ~a.inval \/ a.clean BY <2>3, <2>4 DEF compensated, Sound
    <2>6. /\ made[r]["invalidate"] = IF a.inval THEN 1 ELSE 0
          /\ made[r]["reconsider"] = IF a.clean THEN 1 ELSE 0
      BY <2>1, <2>3, <2>4 DEF Counted, recorded, Methods
    <2>7. ~(made[r]["invalidate"] = 1 /\ made[r]["reconsider"] = 0) BY <2>5, <2>6
    <2> QED BY <2>1, <2>4, <2>7 DEF Counted
  <1>4. OutcomeTrue
    <2> SUFFICES
          ASSUME NEW r \in Requests, spec[r] # None
          PROVE  LET sent == {c \in wire : c.request = r}
                     total(m) == made[r][m] + Cardinality({c \in sent : c.method = m})
                     owns == exec.exists /\ exec.action # None /\ exec.action.request = r
                 IN
                 /\ total("generate") <= quota(r) /\ total("invalidate") <= 1 /\ total("reconsider") <= 1
                 /\ req[r].phase = "Completed" => made[r]["generate"] = quota(r)
                 /\ req[r].phase \in {"Completed", "Failed"} => sent = {} /\ (owns => chain.marked = {})
                 /\ req[r].nothing => \A m \in Methods : total(m) = 0
      BY DEF OutcomeTrue
    <2> DEFINE sent == {c \in wire : c.request = r}
               total(m) == made[r][m] + Cardinality({c \in sent : c.method = m})
               owns == exec.exists /\ exec.action # None /\ exec.action.request = r
    <2>1. \A m \in Methods : total(m) <= limit(r, m) /\ (sent = {} => total(m) = made[r][m]) BY Totals
    <2>2. Bounded(r) BY <1>1 DEF BoundInv
    <2>3. owns => owner(r) BY DEF owner
    <2>4. req[r].phase \in {"Completed", "Failed"} => (owns => chain.marked = {}) BY <1>3, <2>3
    <2>5. req[r].phase \in {"Completed", "Failed"} \/ req[r].nothing => sent = {} BY <2>2 DEF Bounded
    <2>6. /\ req[r].phase = "Completed" => made[r]["generate"] = quota(r)
          /\ req[r].nothing => \A m \in Methods : made[r][m] = 0
      BY <2>2 DEF Bounded
    <2> HIDE DEF total, sent, owns
    <2>7. total("generate") <= quota(r) /\ total("invalidate") <= 1 /\ total("reconsider") <= 1
      BY <2>1 DEF Methods, limit
    <2>8. req[r].nothing => \A m \in Methods : total(m) = 0 BY <2>1, <2>5, <2>6
    <2> QED BY <2>4, <2>5, <2>6, <2>7, <2>8 DEF total, sent, owns
  <1>5. ASSUME NEW r \in Requests, exec.exists, exists(r), req[r].adm,
               ~(exec.action # None /\ exec.action.request = r)
        PROVE  IsTerminalPhase(req[r].phase) /\ req[r].blocks = made[r]["generate"]
    <2>1. ~owner(r) BY <1>5 DEF owner
    <2>2. Settles(r, req[r]) BY <1>1, <1>5, <2>1 DEF RequestInv, Requesting
    <2>3. req[r].state # "gone" BY <1>5 DEF exists
    <2> QED BY <2>2, <2>3 DEF Settles
  <1>6. ASSUME exec.action # None, exec.action.final # None
        PROVE  line(chain, exec.action.accepted) = line(chain, exec.action.fork) \o exec.action.replaced
    <2> DEFINE a == exec.action
    <2>1. a \in Reservation
      <3>1. exec \in Execution BY <1>1, Parts
      <3> QED BY <1>6, <3>1, Record
    <2>2. Replacing(chain, a) BY <1>1, <1>6 DEF ReplacementInv
    <2>3. /\ a.accepted # None /\ height(chain, a.accepted) - height(chain, a.fork) = Len(a.replaced)
          /\ Verified(chain, a)
      BY <1>6, <2>2 DEF Replacing
    <2>4. SubSeq(a.replaced, 1, Len(a.replaced)) = a.replaced
      <3>1. a.replaced \in Seq(Nat) BY <2>1, Fields
      <3> QED BY <3>1, SubSeqFull
    <2> QED BY <2>3, <2>4 DEF Verified
  <1>7. EvidencePublished BY <1>5, <1>6 DEF EvidencePublished
  <1> QED BY <1>1, <1>2, <1>4, <1>7 DEF Types
=============================================================================

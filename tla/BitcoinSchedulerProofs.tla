----------------------- MODULE BitcoinSchedulerProofs -----------------------
(***************************************************************************)
(* Theorems about BitcoinScheduler, for any nodes, gates, requests, draws, *)
(* lags, lost writes, restarts and edits.                                  *)
(***************************************************************************)
EXTENDS BitcoinScheduler, FiniteSetTheorems, WellFoundedInduction, TLAPS

-----------------------------------------------------------------------------
(* Types *)

Life == [pc : {"idle", "initial", "status", "finalizer"}, req : Requests \cup {0},
         copy : Request \cup {None}, active : BOOLEAN]

\* Both controllers hold what they read.
HeldInv ==
    /\ op \in [pc : {"idle", "decide"}, root : Root \cup {None}]
    /\ op.pc = "decide" => op.root \in Root
    /\ life \in Life
    /\ life.pc # "idle" => life.req \in Requests /\ life.copy \in Request

Types == TypeOK /\ HeldInv

LEMMA Numbers ==
  ASSUME Bounds
  PROVE  /\ Mature \in Nat /\ BatchLimit \in Nat /\ MaxOffer \in Nat /\ MaxHeight \in Nat
         /\ BatchLimit >= 1 /\ Target \in Nodes /\ Len(Ceilings) \in Nat /\ Len(Ceilings) >= 1
         /\ MinimumHeight \in Nat /\ \A g \in 1..Len(Ceilings) : Ceilings[g] \in Nat
  BY DEF Bounds, MinimumHeight

LEMMA Least ==
  ASSUME NEW S, S \subseteq Nat, S # {}
  PROVE  \E n \in S : \A k \in S : n <= k
  <1>1. PICK n \in S : \A k \in S : ~(<<k, n>> \in OpToRel(<, Nat))
    BY NatLessThanWellFounded, WFMin
  <1>2. \A k \in S : ~(k < n) BY <1>1 DEF OpToRel
  <1> QED BY <1>2

\* The offer, and the counters, that a record shows.
LEMMA Fields ==
  ASSUME NEW i \in Initial
  PROVE  /\ i.next \in {"none", "wait", "due"} /\ i.offer \in Offer \cup {None} /\ i.accounted \in Nat
         /\ i.funded \in Nat /\ i.prepared \in BOOLEAN /\ i.ceilingSeen \in {"no", "seen", "late"}
         /\ i.producer \in Nat /\ i.override \in Activation \cup {None}
         /\ i.baseline \in Baseline \cup {None}
  BY DEF Initial

\* Records that agree in what the properties are about.
Alike(i, j) == /\ j.accounted = i.accounted /\ j.funded = i.funded
               /\ j.override = i.override /\ j.baseline = i.baseline

LEMMA Updates ==
  ASSUME NEW i \in Initial
  PROVE  /\ \A x \in {"none", "wait", "due"} :
              [i EXCEPT !.next = x] \in Initial /\ Alike(i, [i EXCEPT !.next = x])
         /\ \A x \in {"none", "wait", "due"}, o \in Offer \cup {None} :
              /\ [i EXCEPT !.next = x, !.offer = o] \in Initial
              /\ Alike(i, [i EXCEPT !.next = x, !.offer = o])
         /\ \A x \in {"none", "wait", "due"}, b \in BOOLEAN :
              /\ [i EXCEPT !.next = x, !.prepared = b] \in Initial
              /\ Alike(i, [i EXCEPT !.next = x, !.prepared = b])
         /\ \A p \in Nat : /\ [i EXCEPT !.producer = p, !.next = "none"] \in Initial
                           /\ Alike(i, [i EXCEPT !.producer = p, !.next = "none"])
         /\ \A c \in {"no", "seen", "late"} : /\ [i EXCEPT !.ceilingSeen = c] \in Initial
                                              /\ Alike(i, [i EXCEPT !.ceilingSeen = c])
         /\ \A v \in Activation \cup {None} :
              LET j == [i EXCEPT !.override = v] IN
              /\ j \in Initial /\ j.override = v /\ j.accounted = i.accounted
              /\ j.funded = i.funded /\ j.baseline = i.baseline
  BY DEF Initial, Alike

LEMMA Receipts ==
  ASSUME Types, Bounds, NEW i \in Initial
  PROVE  LET j == accountBootstrapReceipt(i) IN
         /\ j \in Initial /\ j.override = i.override /\ j.baseline = i.baseline /\ j.offer = i.offer
         /\ j.prepared = i.prepared /\ j.next = i.next /\ j.producer = i.producer
  <1> DEFINE offer == exec[Target].last
  <1>1. CASE ~bootstrapReceipt(i, offer) BY <1>1 DEF accountBootstrapReceipt
  <1>2. CASE bootstrapReceipt(i, offer)
    <2>1. offer \in Offer BY <1>2, Numbers DEF bootstrapReceipt, Types, TypeOK, Execution
    <2>2. offer.number \in Nat /\ offer.blocks \in Nat BY <2>1, Numbers DEF Offer
    <2> DEFINE f == i.funded + IF offer.wallet = "miner" /\ offer.height < MinimumHeight
                               THEN offerBlocks(offer) ELSE 0
    <2>3. f \in Nat BY <2>2, Fields DEF offerBlocks
    <2>4. accountBootstrapReceipt(i) = [i EXCEPT !.accounted = offer.number, !.funded = f]
      BY <1>2 DEF accountBootstrapReceipt, Initial
    <2> HIDE DEF f, offer
    <2> QED BY <2>2, <2>3, <2>4 DEF Initial
  <1> QED BY <1>1, <1>2

\* What one reconciliation below the last gate leaves alone.
Bootstrapping(i, j) ==
    /\ j.override = i.override /\ j.baseline = i.baseline
    /\ \/ j.accounted = i.accounted /\ j.funded = i.funded
       \/ /\ j.accounted = accountBootstrapReceipt(i).accounted
          /\ j.funded = accountBootstrapReceipt(i).funded

LEMMA Highs ==
  ASSUME NEW S, S \subseteq Nat, S # {}, NEW m \in Nat, \A x \in S : x <= m
  PROVE  Highest(S) \in S /\ \A y \in S : y <= Highest(S)
  <1> DEFINE D == {m - x : x \in S}
  <1>0. \A x \in S : m - x \in Nat OBVIOUS
  <1>1. D \subseteq Nat /\ D # {} BY <1>0
  <1>2. PICK d \in D : \A k \in D : d <= k BY <1>1, Least
  <1>3. PICK x \in S : d = m - x BY <1>2
  <1>4. ASSUME NEW y \in S PROVE y <= x
    <2>1. m - y \in D OBVIOUS
    <2>2. m - x <= m - y BY <2>1, <1>2, <1>3
    <2>3. m \in Nat /\ x \in Nat /\ y \in Nat OBVIOUS
    <2> QED BY <2>2, <2>3
  <1> QED BY <1>4 DEF Highest

LEMMA Batch ==
  ASSUME Bounds, op.root \in Root, gated, NEW h \in Nat, h < ceiling, NEW remaining \in Nat
  PROVE  bootstrapBatch(h, remaining) \in 1..BatchLimit
  <1> DEFINE Fits(b) == b <= ceiling - h /\ (remaining > 0 => b <= remaining)
             Greatest(b) == Fits(b) /\ \A c \in 1..BatchLimit : Fits(c) => c <= b
             left == ceiling - h
             cap == IF remaining > 0 /\ remaining < left THEN remaining ELSE left
             most == IF cap < BatchLimit THEN cap ELSE BatchLimit
  <1>1. op.root.gate \in 1..Len(Ceilings) BY Numbers DEF gated, Root
  <1>2. ceiling \in Nat BY <1>1, Numbers DEF ceiling
  <1>3. left \in Nat /\ left >= 1 /\ BatchLimit \in Nat /\ BatchLimit >= 1 BY <1>2, Numbers
  <1>4. most \in 1..BatchLimit /\ Greatest(most) BY <1>3
  <1>5. (CHOOSE b \in 1..BatchLimit : Greatest(b)) \in 1..BatchLimit BY <1>4
  <1> QED BY <1>3, <1>5 DEF bootstrapBatch

\* The next offer of the bootstrap, when the bound allows it.
LEMMA BootstrapOffer ==
  ASSUME Types, Bounds, op.root \in Root, gated, NEW i \in Initial, NEW h \in Nat, h < ceiling,
         bootstrapOffer(i, h).number <= MaxOffer
  PROVE  bootstrapOffer(i, h) \in Offer
  <1> DEFINE o == bootstrapOffer(i, h)
             remaining == IF i.prepared \/ i.funded >= Mature THEN 0 ELSE Mature - i.funded
             S == numbers(i)
  <1>1. exec[Target] \in Execution BY Numbers DEF Types, TypeOK
  <1>2. exec[Target].completed \in Nat /\ exec[Target].offer \in Offer \cup {None} BY <1>1 DEF Execution
  <1>3. \A p \in {i.offer, exec[Target].offer} \ {None} : p.number \in 1..MaxOffer
    BY <1>2, Fields DEF Offer
  <1>4. S \subseteq Nat /\ S # {} /\ i.accounted \in Nat
    <2>1. {p.number : p \in {i.offer, exec[Target].offer} \ {None}} \subseteq Nat BY <1>3, Numbers
    <2>2. S = {i.accounted, exec[Target].completed}
              \cup {p.number : p \in {i.offer, exec[Target].offer} \ {None}} BY DEF numbers
    <2>3. i.accounted \in Nat BY Fields
    <2> HIDE DEF S
    <2> QED BY <2>1, <2>2, <2>3, <1>2
  <1>5. \A x \in S : x <= i.accounted + exec[Target].completed + MaxOffer
    BY <1>2, <1>3, <1>4, Numbers DEF numbers
  <1>6. Highest(S) \in Nat
    <2>1. i.accounted + exec[Target].completed + MaxOffer \in Nat BY <1>2, <1>4, Numbers
    <2> QED BY <2>1, <1>4, <1>5, Highs
  <1>7. o.number \in 1..MaxOffer BY <1>6, Numbers DEF bootstrapOffer
  <1>8. remaining \in Nat BY Fields, Numbers
  <1>9. bootstrapBatch(h, remaining) \in 1..BatchLimit BY <1>8, Batch
  <1>10. ceiling \in Nat
    <2>1. op.root.gate \in 1..Len(Ceilings) BY Numbers DEF gated, Root
    <2> QED BY <2>1, Numbers DEF ceiling
  <1>11. overrideBinding \in Requests \cup {0}
    BY DEF overrideBinding, Types, TypeOK, Initial, Activation
  <1>12. op.root.producer \in Nat BY DEF Root
  <1> DEFINE w == IF remaining > 0 THEN "miner" ELSE "payout"
  <1>13. w \in {"miner", "payout"} OBVIOUS
  <1>14. o = [number |-> o.number, mode |-> "Bootstrap", target |-> Target, height |-> h,
              blocks |-> bootstrapBatch(h, remaining), ceiling |-> ceiling,
              wallet |-> w, override |-> overrideBinding, producer |-> op.root.producer]
    BY DEF bootstrapOffer
  <1>15. \A n \in 1..MaxOffer, b \in 1..BatchLimit, c \in Nat, v \in {"miner", "payout"},
             r \in Requests \cup {0}, p \in Nat :
           [number |-> n, mode |-> "Bootstrap", target |-> Target, height |-> h, blocks |-> b,
            ceiling |-> c, wallet |-> v, override |-> r, producer |-> p] \in Offer
    BY Numbers DEF Offer
  <1>16. o \in Offer
    <2> HIDE DEF o, remaining, w
    <2> QED BY <1>7, <1>9, <1>10, <1>11, <1>12, <1>13, <1>14, <1>15
  <1> QED BY <1>16

\* What a receipt changes depends on the counters alone.
LEMMA ReceiptAlike ==
  ASSUME NEW i \in Initial, NEW j \in Initial, Alike(i, j)
  PROVE  /\ accountBootstrapReceipt(j).accounted = accountBootstrapReceipt(i).accounted
         /\ accountBootstrapReceipt(j).funded = accountBootstrapReceipt(i).funded
  BY DEF accountBootstrapReceipt, bootstrapReceipt, Alike, Initial

LEMMA Bootstraps ==
  ASSUME Types, Bounds, op.pc = "decide", gated, NEW ready \in BOOLEAN
  PROVE  /\ Bootstrapping(initial, bootstrapped(ready).record)
         /\ (bootstrapped(ready).record.offer # None => bootstrapped(ready).record.offer.number <= MaxOffer)
              => bootstrapped(ready).record \in Initial
         /\ bootstrapped(ready).publish => /\ bootstrapped(ready).record \in Initial
                                           /\ bootstrapped(ready).record.offer \in Offer
  <1> DEFINE Good(r) == r \in Initial /\ Bootstrapping(initial, r)
             i0 == bound(initial)
             i1 == accountBootstrapReceipt(i0)
             i2 == IF exec[Target].armed = None /\ observed(Target) THEN observedCeiling(i1) ELSE i1
             h  == obs[Target].height
             enough == \E n \in Nodes : obs[n].mature >= Mature
             paid == [i2 EXCEPT !.next = "wait", !.offer = bootstrapOffer(i2, h)]
             out == bootstrapped(ready)
  <1>0. initial \in Initial /\ op.root \in Root /\ op.root.producer \in Nat
    BY DEF Types, TypeOK, HeldInv, Root
  <1>1. i0 \in Initial /\ Alike(initial, i0) BY <1>0, Updates DEF bound, Alike
  <1>2. Good(i0) BY <1>1 DEF Alike, Bootstrapping
  <1>3. Good(i1)
    <2>1. i1 \in Initial /\ i1.override = i0.override /\ i1.baseline = i0.baseline BY <1>1, Receipts
    <2> HIDE DEF i0
    <2> QED BY <2>1, <1>0, <1>1, ReceiptAlike DEF Alike, Bootstrapping
  <1>4. \A r : Good(r) => \A x : x \in Initial /\ Alike(r, x) => Good(x)
    BY DEF Alike, Bootstrapping
  <1>5. Good(i2)
    <2> HIDE DEF i1
    <2>1. observedCeiling(i1) \in Initial /\ Alike(i1, observedCeiling(i1))
      BY <1>3, Updates DEF observedCeiling, Alike
    <2>2. Good(observedCeiling(i1)) BY <2>1, <1>3, <1>4
    <2> QED BY <2>2, <1>3
  <1> HIDE DEF i0, i1, i2, enough
  <1>6. \A r \in Initial : Good(r) =>
          /\ Good([r EXCEPT !.next = "none"]) /\ Good([r EXCEPT !.next = "wait"])
          /\ Good([r EXCEPT !.next = "none", !.offer = None])
          /\ Good([r EXCEPT !.next = "none", !.prepared = @ \/ enough])
    <2> SUFFICES ASSUME NEW r \in Initial, Good(r)
                 PROVE  /\ Good([r EXCEPT !.next = "none"]) /\ Good([r EXCEPT !.next = "wait"])
                        /\ Good([r EXCEPT !.next = "none", !.offer = None])
                        /\ Good([r EXCEPT !.next = "none", !.prepared = @ \/ enough])
      OBVIOUS
    <2> DEFINE e == r.prepared \/ enough
    <2>1. e \in BOOLEAN OBVIOUS
    <2>2. [r EXCEPT !.next = "none", !.prepared = @ \/ enough] = [r EXCEPT !.next = "none", !.prepared = e]
      OBVIOUS
    <2> HIDE DEF e
    <2>3. /\ [r EXCEPT !.next = "none"] \in Initial /\ Alike(r, [r EXCEPT !.next = "none"])
          /\ [r EXCEPT !.next = "wait"] \in Initial /\ Alike(r, [r EXCEPT !.next = "wait"])
      BY Updates
    <2>4. /\ [r EXCEPT !.next = "none", !.offer = None] \in Initial
          /\ Alike(r, [r EXCEPT !.next = "none", !.offer = None])
      BY Updates
    <2>5. /\ [r EXCEPT !.next = "none", !.prepared = e] \in Initial
          /\ Alike(r, [r EXCEPT !.next = "none", !.prepared = e])
      BY <2>1, Updates
    <2> QED BY <2>2, <2>3, <2>4, <2>5, <1>4
  <1>7. Good(initial) BY <1>0 DEF Bootstrapping
  <1>8. \/ out = [record |-> paid, publish |-> FALSE] /\ allObserved /\ ~(h > ceiling) /\ ~(h >= ceiling)
        \/ out = [record |-> i2, publish |-> exec[Target].offer # i2.offer] /\ offerStands(i2, h)
        \/ \E r \in {initial, [initial EXCEPT !.next = "none"], [i0 EXCEPT !.next = "none"], i2,
                     [i2 EXCEPT !.next = "none", !.prepared = @ \/ enough], [i2 EXCEPT !.next = "none"],
                     [i2 EXCEPT !.next = "none", !.offer = None], [i2 EXCEPT !.next = "wait"]} :
             out = [record |-> r, publish |-> FALSE]
    BY DEF bootstrapped, Keep, i0, i1, i2, enough
  <1> HIDE DEF out, paid
  <1>9. CASE \E r \in {initial, [initial EXCEPT !.next = "none"], [i0 EXCEPT !.next = "none"], i2,
                     [i2 EXCEPT !.next = "none", !.prepared = @ \/ enough], [i2 EXCEPT !.next = "none"],
                     [i2 EXCEPT !.next = "none", !.offer = None], [i2 EXCEPT !.next = "wait"]} :
             out = [record |-> r, publish |-> FALSE]
    <2>1. \A r \in {initial, [initial EXCEPT !.next = "none"], [i0 EXCEPT !.next = "none"], i2,
                     [i2 EXCEPT !.next = "none", !.prepared = @ \/ enough], [i2 EXCEPT !.next = "none"],
                     [i2 EXCEPT !.next = "none", !.offer = None], [i2 EXCEPT !.next = "wait"]} : Good(r)
      BY <1>2, <1>5, <1>6, <1>7
    <2>2. PICK r : Good(r) /\ out = [record |-> r, publish |-> FALSE] BY <1>9, <2>1
    <2>3. out.record = r /\ out.publish = FALSE BY <2>2
    <2> QED BY <2>2, <2>3 DEF out
  <1>10. CASE out = [record |-> i2, publish |-> exec[Target].offer # i2.offer] /\ offerStands(i2, h)
    <2>1. out.record = i2 /\ i2.offer # None BY <1>10 DEF offerStands
    <2>2. i2.offer \in Offer BY <2>1, <1>5, Fields
    <2> QED BY <2>1, <2>2, <1>5 DEF out
  <1>11. CASE out = [record |-> paid, publish |-> FALSE] /\ allObserved /\ ~(h > ceiling) /\ ~(h >= ceiling)
    <2>1. out.record = paid /\ out.publish = FALSE BY <1>11
    <2>2. h \in Nat
      BY <1>11, Numbers DEF allObserved, observed, Types, TypeOK, Observation
    <2>3. ceiling \in Nat
      <3>1. op.root.gate \in 1..Len(Ceilings) BY <1>0, Numbers DEF gated, Root
      <3> QED BY <3>1, Numbers DEF ceiling
    <2>4. h < ceiling BY <2>2, <2>3, <1>11
    <2>5. paid.offer = bootstrapOffer(i2, h) /\ Alike(i2, paid) BY <1>5 DEF paid, Initial, Alike
    <2>6. Bootstrapping(initial, paid) BY <2>5, <1>5 DEF Alike, Bootstrapping
    <2>7. ASSUME paid.offer # None => paid.offer.number <= MaxOffer PROVE paid \in Initial
      <3> DEFINE o == bootstrapOffer(i2, h)
      <3>1. o \in Offer \cup {None}
        <4>1. CASE o = None BY <4>1
        <4>2. CASE o # None BY <4>2, <2>2, <2>4, <2>5, <2>7, <1>0, <1>5, BootstrapOffer
        <4> QED BY <4>1, <4>2
      <3>2. paid = [i2 EXCEPT !.next = "wait", !.offer = o] BY DEF paid
      <3> HIDE DEF o
      <3> QED BY <3>1, <3>2, <1>5, Updates
    <2> QED BY <2>1, <2>6, <2>7 DEF out
  <1> QED BY <1>8, <1>9, <1>10, <1>11

-----------------------------------------------------------------------------
(* The baseline: every opportunity once *)

Undecided(b) == b.stage \in {"Selected", "Offered"}

\* An opportunity that is not decided yet is the last one, and the others have been.
Conserved(b) ==
    /\ b.opportunities = b.assigned + b.skipped + b.unassigned + IF Undecided(b) THEN 1 ELSE 0
    /\ Undecided(b) => b.sequence >= 1

\* Records with the same receipts on the books.
SameReceipts(i, j) ==
    /\ j.override = i.override /\ j.accounted = i.accounted /\ j.funded = i.funded
    /\ j.baseline \in Baseline
    /\ j.baseline.acknowledged = i.baseline.acknowledged /\ j.baseline.cursor = i.baseline.cursor

Result(i, j) == j \in Initial /\ SameReceipts(i, j) /\ Conserved(j.baseline)

LEMMA BaselineFields ==
  ASSUME NEW b \in Baseline
  PROVE  /\ b.sequence \in Nat /\ b.policy \in Nat /\ b.override \in Requests \cup {0}
         /\ b.stage \in {"", "Selected", "Offered", "Assigned", "Skipped", "Unassigned"}
         /\ b.target \in Nodes \cup {None} /\ b.opportunities \in Nat /\ b.assigned \in Nat
         /\ b.skipped \in Nat /\ b.unassigned \in Nat /\ b.acknowledged \in Nat
         /\ b.cursor \in [Nodes -> Nat]
  BY DEF Baseline

\* A record with another baseline.
Rebuilt(i, x, o, p, b) == [i EXCEPT !.next = x, !.offer = o, !.producer = p, !.baseline = b]

LEMMA Rebased ==
  ASSUME NEW i \in Initial, NEW b \in Baseline, NEW x \in {"none", "wait", "due"},
         NEW o \in Offer \cup {None}, NEW p \in Nat
  PROVE  /\ Rebuilt(i, x, o, p, b) \in Initial /\ Rebuilt(i, x, o, p, b).baseline = b
         /\ Rebuilt(i, x, o, p, b).override = i.override /\ Rebuilt(i, x, o, p, b).offer = o
         /\ Rebuilt(i, x, o, p, b).next = x
         /\ Rebuilt(i, x, o, p, b).accounted = i.accounted /\ Rebuilt(i, x, o, p, b).funded = i.funded
  BY DEF Initial, Rebuilt

\* It is a result when the baseline keeps the receipts and conserves the opportunities.
LEMMA RebasedResult ==
  ASSUME NEW i \in Initial, NEW b \in Baseline, NEW x \in {"none", "wait", "due"},
         NEW o \in Offer \cup {None}, NEW p \in Nat, Conserved(b),
         b.acknowledged = i.baseline.acknowledged, b.cursor = i.baseline.cursor
  PROVE  Result(i, Rebuilt(i, x, o, p, b))
  <1> DEFINE j == Rebuilt(i, x, o, p, b)
  <1>1. /\ j \in Initial /\ j.baseline = b /\ j.override = i.override
        /\ j.accounted = i.accounted /\ j.funded = i.funded
    BY Rebased
  <1> HIDE DEF j
  <1>2. Result(i, j) BY <1>1 DEF Result, SameReceipts
  <1> QED BY <1>2 DEF j

\* The counts add up once the last opportunity is decided.
LEMMA AddsUp ==
  ASSUME NEW c, c.assigned \in Nat, c.skipped \in Nat, c.unassigned \in Nat, ~Undecided(c),
         c.opportunities = c.assigned + c.skipped + c.unassigned
  PROVE  Conserved(c)
  <1>1. c.opportunities = c.assigned + c.skipped + c.unassigned + 0 OBVIOUS
  <1> QED BY <1>1 DEF Conserved

\* A withdrawal leaves the last opportunity unassigned.
LEMMA Leaves ==
  ASSUME NEW b, NEW x, NEW u, b.assigned \in Nat, b.skipped \in Nat, b.unassigned \in Nat,
         x \in {0, 1}, u = b.unassigned + x, b.opportunities = b.assigned + b.skipped + b.unassigned + x
  PROVE  u \in Nat /\ b.opportunities = b.assigned + b.skipped + u
  OBVIOUS

\* A baseline with other counts of what was left unassigned.
LeftWith(b, u, s) == [b EXCEPT !.unassigned = u, !.stage = s]

LEMMA WithdrawnBaseline ==
  ASSUME NEW b \in Baseline, NEW u \in Nat,
         NEW s \in {"", "Selected", "Offered", "Assigned", "Skipped", "Unassigned"},
         s \notin {"Selected", "Offered"}, b.opportunities = b.assigned + b.skipped + u
  PROVE  LET c == LeftWith(b, u, s) IN
         /\ c \in Baseline /\ c.acknowledged = b.acknowledged /\ c.cursor = b.cursor
         /\ Conserved(c) /\ ~Undecided(c)
  <1> DEFINE c == LeftWith(b, u, s)
  <1>1. b.assigned \in Nat /\ b.skipped \in Nat BY BaselineFields
  <1>2. /\ c \in Baseline /\ c.acknowledged = b.acknowledged /\ c.cursor = b.cursor
        /\ c.opportunities = b.opportunities /\ c.assigned = b.assigned /\ c.skipped = b.skipped
        /\ c.unassigned = u /\ c.stage = s
    BY DEF Baseline, LeftWith
  <1> HIDE DEF c
  <1>3. ~Undecided(c) BY <1>2 DEF Undecided
  <1>4. c.opportunities = c.assigned + c.skipped + c.unassigned BY <1>1, <1>2
  <1>5. Conserved(c) BY <1>1, <1>2, <1>3, <1>4, AddsUp
  <1> QED BY <1>2, <1>3, <1>5 DEF c

LEMMA Withdrawn ==
  ASSUME NEW i \in Initial, i.baseline \in Baseline, Conserved(i.baseline)
  PROVE  /\ Result(i, withdrawBaseline(i)) /\ ~Undecided(withdrawBaseline(i).baseline)
         /\ withdrawBaseline(i).next = "none" /\ withdrawBaseline(i).offer = None
  <1> DEFINE b == i.baseline
             x == IF Undecided(b) THEN 1 ELSE 0
             u == b.unassigned + x
             s == IF Undecided(b) THEN "Unassigned" ELSE b.stage
             c == [b EXCEPT !.unassigned = u, !.stage = s]
  <1>1. withdrawBaseline(i) = Rebuilt(i, "none", None, i.producer, c)
    BY DEF withdrawBaseline, Undecided, Initial, Baseline, Rebuilt
  <1>2. c \in Baseline /\ c.acknowledged = b.acknowledged /\ c.cursor = b.cursor /\ Conserved(c)
        /\ ~Undecided(c)
    <2>1. /\ b \in Baseline /\ Conserved(b) /\ b.unassigned \in Nat /\ b.assigned \in Nat /\ b.skipped \in Nat
          /\ b.stage \in {"", "Selected", "Offered", "Assigned", "Skipped", "Unassigned"}
      BY BaselineFields
    <2> HIDE DEF b
    <2>2. CASE Undecided(b)
      <3>1. x = 1 /\ s = "Unassigned" BY <2>2
      <3>2. b.opportunities = b.assigned + b.skipped + b.unassigned + 1 BY <2>1, <2>2 DEF Conserved
      <3> HIDE DEF x, s
      <3>3. u \in Nat /\ b.opportunities = b.assigned + b.skipped + u BY <2>1, <3>1, <3>2, Leaves
      <3>4. /\ s \in {"", "Selected", "Offered", "Assigned", "Skipped", "Unassigned"}
            /\ s \notin {"Selected", "Offered"} BY <3>1
      <3>5. c = LeftWith(b, u, s) BY DEF LeftWith
      <3> HIDE DEF u, c
      <3> QED BY <2>1, <3>3, <3>4, <3>5, WithdrawnBaseline
    <2>3. CASE ~Undecided(b)
      <3>1. x = 0 /\ s = b.stage /\ b.stage \notin {"Selected", "Offered"} BY <2>3 DEF Undecided
      <3>2. b.opportunities = b.assigned + b.skipped + b.unassigned + 0 BY <2>1, <2>3 DEF Conserved
      <3> HIDE DEF x, s
      <3>3. u \in Nat /\ b.opportunities = b.assigned + b.skipped + u BY <2>1, <3>1, <3>2, Leaves
      <3>4. /\ s \in {"", "Selected", "Offered", "Assigned", "Skipped", "Unassigned"}
            /\ s \notin {"Selected", "Offered"} BY <2>1, <3>1
      <3>5. c = LeftWith(b, u, s) BY DEF LeftWith
      <3> HIDE DEF u, c
      <3> QED BY <2>1, <3>3, <3>4, <3>5, WithdrawnBaseline
    <2> QED BY <2>2, <2>3
  <1> HIDE DEF c
  <1>3. i.producer \in Nat BY Fields
  <1> DEFINE w == Rebuilt(i, "none", None, i.producer, c)
  <1>4. w.baseline = c /\ w.next = "none" /\ w.offer = None BY DEF Rebuilt, Initial
  <1>5. Result(i, w) BY <1>2, <1>3, RebasedResult
  <1> HIDE DEF w
  <1> QED BY <1>1, <1>2, <1>4, <1>5 DEF w

LEMMA Adopted ==
  ASSUME NEW i \in Initial, i.baseline \in Baseline, Conserved(i.baseline),
         root.policy \in Nat, op.root.producer \in Nat, overrideBinding \in Requests \cup {0}
  PROVE  Result(i, adopted(i))
  <1> DEFINE w == withdrawBaseline(i)
             c == [w.baseline EXCEPT !.policy = root.policy, !.override = overrideBinding,
                                     !.target = None, !.stage = ""]
  <1>1. Result(i, w) /\ ~Undecided(w.baseline) /\ w.next = "none" /\ w.offer = None BY Withdrawn
  <1> HIDE DEF w
  <1>2. w \in Initial /\ w.baseline \in Baseline /\ Conserved(w.baseline)
    BY <1>1 DEF Result, SameReceipts
  <1>3. adopted(i) = Rebuilt(w, "none", None, op.root.producer, c)
    BY <1>1, <1>2 DEF adopted, w, Initial, Baseline, Rebuilt
  <1>4. /\ c \in Baseline /\ c.acknowledged = w.baseline.acknowledged /\ c.cursor = w.baseline.cursor
        /\ c.opportunities = w.baseline.opportunities /\ c.assigned = w.baseline.assigned
        /\ c.skipped = w.baseline.skipped /\ c.unassigned = w.baseline.unassigned /\ c.stage = ""
    BY <1>2 DEF Baseline
  <1>5. Conserved(c) BY <1>1, <1>2, <1>4 DEF Conserved, Undecided
  <1> HIDE DEF c
  <1>6. Result(w, adopted(i)) BY <1>2, <1>3, <1>4, <1>5, RebasedResult
  <1> QED BY <1>1, <1>6 DEF Result, SameReceipts

LEMMA DecidedBaseline ==
  ASSUME NEW b \in Baseline, Conserved(b), Undecided(b),
         NEW c, \/ c = [b EXCEPT !.unassigned = @ + 1, !.stage = "Unassigned"]
                \/ c = [b EXCEPT !.skipped = @ + 1, !.stage = "Skipped"]
                \/ c = [b EXCEPT !.assigned = @ + 1, !.stage = "Assigned"]
  PROVE  c \in Baseline /\ c.acknowledged = b.acknowledged /\ c.cursor = b.cursor /\ Conserved(c)
  <1> DEFINE u == b.unassigned + 1
             k == b.skipped + 1
             a == b.assigned + 1
  <1>1. /\ b.unassigned \in Nat /\ b.opportunities \in Nat /\ b.assigned \in Nat /\ b.skipped \in Nat
        /\ u \in Nat /\ k \in Nat /\ a \in Nat
    <2>1. b.unassigned \in Nat /\ b.opportunities \in Nat /\ b.assigned \in Nat /\ b.skipped \in Nat
      BY BaselineFields
    <2> QED BY <2>1
  <1>2. b.opportunities = b.assigned + b.skipped + b.unassigned + 1 BY DEF Conserved
  <1>3. /\ b.opportunities = b.assigned + b.skipped + u /\ b.opportunities = b.assigned + k + b.unassigned
        /\ b.opportunities = a + b.skipped + b.unassigned
    BY <1>1, <1>2
  <1>4. CASE c = [b EXCEPT !.unassigned = u, !.stage = "Unassigned"]
    <2> HIDE DEF u
    <2>1. /\ c \in Baseline /\ c.acknowledged = b.acknowledged /\ c.cursor = b.cursor
          /\ c.opportunities = b.opportunities /\ c.assigned = b.assigned /\ c.skipped = b.skipped
          /\ c.unassigned = u /\ c.stage = "Unassigned"
      BY <1>1, <1>4 DEF Baseline
    <2> QED BY <1>1, <1>3, <2>1 DEF Conserved, Undecided
  <1>5. CASE c = [b EXCEPT !.skipped = k, !.stage = "Skipped"]
    <2> HIDE DEF k
    <2>1. /\ c \in Baseline /\ c.acknowledged = b.acknowledged /\ c.cursor = b.cursor
          /\ c.opportunities = b.opportunities /\ c.assigned = b.assigned /\ c.skipped = k
          /\ c.unassigned = b.unassigned /\ c.stage = "Skipped"
      BY <1>1, <1>5 DEF Baseline
    <2> QED BY <1>1, <1>3, <2>1 DEF Conserved, Undecided
  <1>6. CASE c = [b EXCEPT !.assigned = a, !.stage = "Assigned"]
    <2> HIDE DEF a
    <2>1. /\ c \in Baseline /\ c.acknowledged = b.acknowledged /\ c.cursor = b.cursor
          /\ c.opportunities = b.opportunities /\ c.assigned = a /\ c.skipped = b.skipped
          /\ c.unassigned = b.unassigned /\ c.stage = "Assigned"
      BY <1>1, <1>6 DEF Baseline
    <2> QED BY <1>1, <1>3, <2>1 DEF Conserved, Undecided
  <1> QED BY <1>4, <1>5, <1>6

\* An opportunity is decided: assigned, skipped or left unassigned.
LEMMA Decided ==
  ASSUME NEW i \in Initial, i.baseline \in Baseline, Conserved(i.baseline), Undecided(i.baseline)
  PROVE  /\ Result(i, expiredBeforeAssignment(i)) /\ Result(i, skippedTarget(i))
         /\ Result(i, assignedOffer(i)) /\ assignedOffer(i).offer = i.offer
  <1> DEFINE b == i.baseline
             e == [b EXCEPT !.unassigned = @ + 1, !.stage = "Unassigned"]
             s == [b EXCEPT !.skipped = @ + 1, !.stage = "Skipped"]
             a == [b EXCEPT !.assigned = @ + 1, !.stage = "Assigned"]
  <1>1. /\ expiredBeforeAssignment(i) = Rebuilt(i, i.next, None, i.producer, e)
        /\ skippedTarget(i) = Rebuilt(i, i.next, None, i.producer, s)
        /\ assignedOffer(i) = Rebuilt(i, i.next, i.offer, i.producer, a)
    BY DEF expiredBeforeAssignment, skippedTarget, assignedOffer, Initial, Baseline, Rebuilt
  <1>2. \A c \in {e, s, a} :
          c \in Baseline /\ c.acknowledged = b.acknowledged /\ c.cursor = b.cursor /\ Conserved(c)
    <2> HIDE DEF b
    <2>1. b \in Baseline /\ Conserved(b) /\ Undecided(b) BY DEF b
    <2> QED BY <2>1, DecidedBaseline
  <1> HIDE DEF e, s, a
  <1>3. i.next \in {"none", "wait", "due"} /\ i.offer \in Offer \cup {None} /\ i.producer \in Nat BY Fields
  <1>4. \A o \in Offer \cup {None}, c \in {e, s, a} : /\ Result(i, Rebuilt(i, i.next, o, i.producer, c))
                                                      /\ Rebuilt(i, i.next, o, i.producer, c).offer = o
    <2>1. ASSUME NEW o \in Offer \cup {None}, NEW c \in {e, s, a}
          PROVE  /\ Result(i, Rebuilt(i, i.next, o, i.producer, c))
                 /\ Rebuilt(i, i.next, o, i.producer, c).offer = o
      <3>1. c \in Baseline /\ c.acknowledged = b.acknowledged /\ c.cursor = b.cursor /\ Conserved(c)
        BY <1>2
      <3>2. Result(i, Rebuilt(i, i.next, o, i.producer, c)) BY <3>1, <1>3, RebasedResult
      <3>3. Rebuilt(i, i.next, o, i.producer, c).offer = o BY DEF Rebuilt, Initial
      <3> QED BY <3>2, <3>3
    <2> QED BY <2>1
  <1> QED BY <1>1, <1>3, <1>4

LEMMA SelectedBaseline ==
  ASSUME NEW b \in Baseline, Conserved(b), ~Undecided(b), NEW n \in Nodes,
         NEW c, c = [b EXCEPT !.sequence = @ + 1, !.opportunities = @ + 1, !.target = n,
                              !.stage = "Selected"]
  PROVE  c \in Baseline /\ c.acknowledged = b.acknowledged /\ c.cursor = b.cursor /\ Conserved(c)
  <1> DEFINE q == b.sequence + 1
             o == b.opportunities + 1
  <1>1. b.unassigned \in Nat /\ b.opportunities \in Nat /\ b.assigned \in Nat /\ b.skipped \in Nat
        /\ b.sequence \in Nat
    BY BaselineFields
  <1>2. b.opportunities = b.assigned + b.skipped + b.unassigned BY <1>1 DEF Conserved
  <1>3. q \in Nat /\ q >= 1 /\ o \in Nat /\ o = b.assigned + b.skipped + b.unassigned + 1 BY <1>1, <1>2
  <1>4. c = [b EXCEPT !.sequence = q, !.opportunities = o, !.target = n, !.stage = "Selected"] OBVIOUS
  <1> HIDE DEF q, o
  <1>5. /\ c \in Baseline /\ c.acknowledged = b.acknowledged /\ c.cursor = b.cursor
        /\ c.opportunities = o /\ c.assigned = b.assigned /\ c.skipped = b.skipped
        /\ c.unassigned = b.unassigned /\ c.stage = "Selected" /\ c.sequence = q
    BY <1>3, <1>4 DEF Baseline
  <1> QED BY <1>1, <1>3, <1>5 DEF Conserved, Undecided

\* The next opportunity is drawn.
LEMMA Selected ==
  ASSUME NEW i \in Initial, i.baseline \in Baseline, Conserved(i.baseline), ~Undecided(i.baseline),
         NEW n \in Nodes
  PROVE  Result(i, selectBaselineTarget(i, n))
  <1> DEFINE b == i.baseline
             c == [b EXCEPT !.sequence = @ + 1, !.opportunities = @ + 1, !.target = n,
                            !.stage = "Selected"]
  <1>1. selectBaselineTarget(i, n) = Rebuilt(i, "wait", None, i.producer, c)
    BY DEF selectBaselineTarget, Initial, Baseline, Rebuilt
  <1>2. c \in Baseline /\ c.acknowledged = b.acknowledged /\ c.cursor = b.cursor /\ Conserved(c)
    <2> HIDE DEF b, c
    <2>1. b \in Baseline /\ Conserved(b) /\ ~Undecided(b) BY DEF b
    <2> QED BY <2>1, SelectedBaseline DEF c
  <1> HIDE DEF c
  <1>3. i.producer \in Nat BY Fields
  <1> QED BY <1>1, <1>2, <1>3, RebasedResult

LEMMA Offered ==
  ASSUME NEW i \in Initial, i.baseline \in Baseline, Conserved(i.baseline), i.baseline.stage = "Selected",
         NEW o \in Offer
  PROVE  Result(i, [i EXCEPT !.offer = o, !.baseline.stage = "Offered"])
  <1> DEFINE b == i.baseline
             c == [b EXCEPT !.stage = "Offered"]
             k == [i EXCEPT !.offer = o, !.baseline.stage = "Offered"]
  <1>1. k = Rebuilt(i, i.next, o, i.producer, c) BY DEF Initial, Baseline, Rebuilt
  <1>2. c \in Baseline /\ c.acknowledged = b.acknowledged /\ c.cursor = b.cursor /\ Conserved(c)
    BY DEF Baseline, Conserved, Undecided
  <1> HIDE DEF c, k
  <1>3. i.producer \in Nat /\ i.next \in {"none", "wait", "due"} BY Fields
  <1>4. Result(i, k) BY <1>1, <1>2, <1>3, RebasedResult
  <1> QED BY <1>4 DEF k

-----------------------------------------------------------------------------
(* One reconciliation of the baseline *)

\* The numbers of the bootstrap, whose highest the baseline goes on from.
LEMMA BaselinedRecord ==
  ASSUME Nil, Bounds, NEW i \in Initial, i.baseline # None => Conserved(i.baseline)
  PROVE  LET j == baselined(i) IN
         /\ j \in Initial /\ j.baseline \in Baseline /\ Conserved(j.baseline)
         /\ j.override = i.override /\ j.accounted = i.accounted /\ j.funded = i.funded
         /\ j.baseline.acknowledged = IF i.baseline = None THEN 0 ELSE i.baseline.acknowledged
         /\ j.baseline.cursor = IF i.baseline = None THEN [n \in Nodes |-> 0] ELSE i.baseline.cursor
  <1>1. CASE i.baseline # None BY <1>1, Fields DEF baselined
  <1>2. CASE i.baseline = None
    <2> DEFINE S == {i.accounted} \cup {o.number : o \in {i.offer} \ {None}}
               b == [sequence |-> Highest(S), stage |-> "", target |-> None, policy |-> 0,
                     override |-> 0, opportunities |-> 0, assigned |-> 0, skipped |-> 0,
                     unassigned |-> 0, acknowledged |-> 0, cursor |-> [n \in Nodes |-> 0]]
    <2>1. i.accounted \in Nat /\ \A o \in {i.offer} \ {None} : o.number \in Nat
      BY Fields, Numbers DEF Offer
    <2>2. S \subseteq Nat /\ S # {} BY <2>1
    <2>3. \E m \in Nat : \A x \in S : x <= m
      <3>1. CASE i.offer = None BY <3>1, <2>1
      <3>2. CASE i.offer # None
        <4>1. i.offer.number \in Nat BY <3>2, <2>1
        <4>2. \A x \in S : x <= i.accounted + i.offer.number BY <2>1, <4>1
        <4>3. i.accounted + i.offer.number \in Nat BY <2>1, <4>1
        <4> QED BY <4>2, <4>3
      <3> QED BY <3>1, <3>2
    <2>4. Highest(S) \in Nat BY <2>2, <2>3, Highs
    <2>5. baselined(i) = Rebuilt(i, "none", None, i.producer, b)
      BY <1>2 DEF baselined, Rebuilt, Initial
    <2> HIDE DEF S
    <2>6. b \in Baseline BY <2>4 DEF Baseline
    <2>7. Conserved(b) /\ b.acknowledged = 0 /\ b.cursor = [n \in Nodes |-> 0]
      BY DEF Conserved, Undecided
    <2> HIDE DEF b
    <2>8. i.producer \in Nat BY Fields
    <2> DEFINE r == Rebuilt(i, "none", None, i.producer, b)
    <2>9. /\ r \in Initial /\ r.baseline = b /\ r.override = i.override
          /\ r.accounted = i.accounted /\ r.funded = i.funded
      BY <2>6, <2>8, Rebased
    <2> HIDE DEF r
    <2> QED BY <1>2, <2>5, <2>6, <2>7, <2>9 DEF r
  <1> QED BY <1>1, <1>2

\* A baseline with the receipts that are counted.
Receipted(b, q, s, a, k, c) ==
    [b EXCEPT !.sequence = q, !.stage = s, !.assigned = a, !.acknowledged = k, !.cursor = c]

LEMMA Above == ASSUME NEW q \in Nat, NEW s \in Nat, q >= s, s >= 1 PROVE q >= 1
  OBVIOUS

\* A receipt on the books, or the publication of the last offer, keeps the opportunities.
LEMMA StillConserved ==
  ASSUME NEW b \in Baseline, NEW d \in Baseline, Conserved(b), d.sequence >= b.sequence,
         d.opportunities = b.opportunities, d.skipped = b.skipped, d.unassigned = b.unassigned,
         \/ d.stage = b.stage /\ d.assigned = b.assigned
         \/ d.stage = "Assigned" /\ d.assigned = b.assigned + 1 /\ Undecided(b)
  PROVE  Conserved(d)
  <1>1. /\ b.sequence \in Nat /\ b.opportunities \in Nat /\ b.assigned \in Nat /\ b.skipped \in Nat
        /\ b.unassigned \in Nat /\ d.sequence \in Nat /\ d.assigned \in Nat /\ d.skipped \in Nat
        /\ d.unassigned \in Nat
    BY BaselineFields
  <1>2. CASE d.stage = b.stage /\ d.assigned = b.assigned
    <2>1. Undecided(d) <=> Undecided(b) BY <1>2 DEF Undecided
    <2>2. ASSUME Undecided(d) PROVE d.sequence >= 1
      <3>1. b.sequence >= 1 BY <2>1, <2>2 DEF Conserved
      <3> QED BY <1>1, <3>1, Above
    <2>3. d.opportunities = d.assigned + d.skipped + d.unassigned + IF Undecided(d) THEN 1 ELSE 0
      BY <1>2, <2>1 DEF Conserved
    <2> QED BY <2>2, <2>3 DEF Conserved
  <1>3. CASE d.stage = "Assigned" /\ d.assigned = b.assigned + 1 /\ Undecided(b)
    <2>1. ~Undecided(d) BY <1>3 DEF Undecided
    <2>2. b.opportunities = b.assigned + b.skipped + b.unassigned + 1 BY <1>3 DEF Conserved
    <2>3. d.opportunities = d.assigned + d.skipped + d.unassigned BY <1>1, <1>3, <2>2
    <2> QED BY <1>1, <2>1, <2>3, AddsUp
  <1> QED BY <1>2, <1>3

LEMMA Counts ==
  ASSUME NEW m \in Nat PROVE m + 1 \in Nat /\ m + 0 \in Nat /\ m + 0 = m
  OBVIOUS

LEMMA OtherBaseline ==
  ASSUME NEW i \in Initial, NEW b \in Baseline
  PROVE  LET j == [i EXCEPT !.baseline = b] IN
         /\ j \in Initial /\ j.baseline = b /\ j.override = i.override
         /\ j.accounted = i.accounted /\ j.funded = i.funded
  BY DEF Initial

\* The nodes whose last receipt the baseline has yet to count.
Newly(i, current) == {n \in current : baselineReceipt(
    [i.baseline EXCEPT !.sequence = IF i.accounted > @ THEN i.accounted ELSE @], n)}

Booted(i, current) == IF Target \in current THEN accountBootstrapReceipt(i) ELSE i

LEMMA AccountedRecord ==
  ASSUME Types, Bounds, Nil, NEW i \in Initial, i.baseline \in Baseline, Conserved(i.baseline),
         NEW current \in SUBSET Nodes
  PROVE  LET j == accountBaselineReceipts(i, current)
             k == Booted(i, current)
             got == Newly(k, current)
         IN  /\ j \in Initial /\ j.baseline \in Baseline /\ Conserved(j.baseline)
             /\ j.override = i.override /\ k \in Initial /\ k.baseline = i.baseline
             /\ j.accounted = k.accounted /\ j.funded = k.funded
             /\ got \subseteq Nodes
             /\ j.baseline.acknowledged = i.baseline.acknowledged + Cardinality(got)
             /\ j.baseline.cursor = [n \in Nodes |-> IF n \in got THEN exec[n].last.number
                                                     ELSE i.baseline.cursor[n]]
  <1> DEFINE j == accountBaselineReceipts(i, current)
             k == Booted(i, current)
             b == i.baseline
             q == IF k.accounted > k.baseline.sequence THEN k.accounted ELSE k.baseline.sequence
             got == Newly(k, current)
             pub == \E n \in current : published(i, n)
             s == IF pub THEN "Assigned" ELSE b.stage
             a == b.assigned + IF pub THEN 1 ELSE 0
             g == b.acknowledged + Cardinality(got)
             c == [n \in Nodes |-> IF n \in got THEN exec[n].last.number ELSE b.cursor[n]]
             d == Receipted(b, q, s, a, g, c)
  <1>1. /\ k \in Initial /\ k.override = i.override /\ k.baseline = b /\ k.offer = i.offer
        /\ k.next = i.next /\ k.producer = i.producer
    BY Receipts DEF Booted
  <1>2. got = {n \in current : baselineReceipt([k.baseline EXCEPT !.sequence = q], n)}
    BY DEF Newly
  <1>3. j = [k EXCEPT !.baseline = d]
    <2> DEFINE e == [k.baseline EXCEPT !.sequence = q]
    <2>1. j = [k EXCEPT !.baseline = [e EXCEPT !.stage = IF pub THEN "Assigned" ELSE @,
                     !.assigned = @ + IF pub THEN 1 ELSE 0,
                     !.acknowledged = @ + Cardinality(got),
                     !.cursor = [n \in Nodes |-> IF n \in got THEN exec[n].last.number ELSE @[n]]]]
      <3>1. got = {n \in current : baselineReceipt(e, n)} BY <1>2
      <3> HIDE DEF got
      <3> QED BY <3>1 DEF accountBaselineReceipts, Booted
    <2> HIDE DEF j, k, got, pub, q
    <2>2. [e EXCEPT !.stage = IF pub THEN "Assigned" ELSE @,
                     !.assigned = @ + IF pub THEN 1 ELSE 0,
                     !.acknowledged = @ + Cardinality(got),
                     !.cursor = [n \in Nodes |-> IF n \in got THEN exec[n].last.number ELSE @[n]]] = d
      BY <1>1 DEF Receipted, Baseline
    <2> QED BY <2>1, <2>2
  <1>4. /\ b \in Baseline /\ Conserved(b) /\ b.sequence \in Nat /\ b.assigned \in Nat
        /\ b.acknowledged \in Nat /\ b.cursor \in [Nodes -> Nat]
        /\ b.stage \in {"", "Selected", "Offered", "Assigned", "Skipped", "Unassigned"}
    BY BaselineFields
  <1>5. k.accounted \in Nat /\ k.offer \in Offer \cup {None} /\ k.producer \in Nat
        /\ k.next \in {"none", "wait", "due"}
    BY <1>1, Fields
  <1>6. q \in Nat /\ q >= b.sequence
    <2>1. k.baseline = b BY <1>1
    <2> HIDE DEF k, b
    <2>2. b.sequence \in Nat /\ k.accounted \in Nat BY <1>4, <1>5
    <2> QED BY <2>1, <2>2
  <1>7. got \subseteq Nodes BY <1>2
  <1>8. Cardinality(got) \in Nat
    <2> HIDE DEF got
    <2> QED BY <1>7, FS_Subset, FS_CardinalityType DEF Bounds
  <1>9. g \in Nat
    <2> HIDE DEF got, b
    <2>1. b.acknowledged \in Nat /\ Cardinality(got) \in Nat BY <1>4, <1>8
    <2> QED BY <2>1
  <1>10. c \in [Nodes -> Nat]
    <2>1. ASSUME NEW n \in got PROVE exec[n].last.number \in Nat
      <3>1. exec[n].last \in Offer
        BY <2>1, <1>2, <1>7 DEF baselineReceipt, Types, TypeOK, Execution
      <3> QED BY <3>1, Numbers DEF Offer
    <2> HIDE DEF got
    <2> QED BY <2>1, <1>4
  <1>11. pub => Undecided(b) BY <1>1 DEF published, Undecided
  <1>12. /\ s \in {"", "Selected", "Offered", "Assigned", "Skipped", "Unassigned"} /\ a \in Nat
         /\ \/ s = b.stage /\ a = b.assigned
            \/ s = "Assigned" /\ a = b.assigned + 1 /\ Undecided(b)
    <2> HIDE DEF pub, b
    <2>1. b.assigned + 1 \in Nat /\ b.assigned + 0 \in Nat /\ b.assigned + 0 = b.assigned
      BY <1>4, Counts
    <2>2. CASE pub BY <2>1, <2>2, <1>11
    <2>3. CASE ~pub BY <2>1, <2>3, <1>4
    <2> QED BY <2>2, <2>3
  <1> HIDE DEF k, b, q, pub, s, a, g, c, got
  <1>13. /\ d \in Baseline /\ d.acknowledged = g /\ d.cursor = c /\ d.sequence = q /\ d.stage = s
         /\ d.assigned = a /\ d.opportunities = b.opportunities /\ d.skipped = b.skipped
         /\ d.unassigned = b.unassigned
    BY <1>4, <1>6, <1>9, <1>10, <1>12 DEF Receipted, Baseline
  <1> HIDE DEF d, j
  <1>14. Conserved(d) BY <1>4, <1>6, <1>12, <1>13, StillConserved
  <1>15. /\ j \in Initial /\ j.baseline = d /\ j.override = i.override
         /\ j.accounted = k.accounted /\ j.funded = k.funded
    BY <1>1, <1>3, <1>13, OtherBaseline
  <1>16. /\ j \in Initial /\ j.baseline \in Baseline /\ Conserved(j.baseline)
         /\ j.override = i.override /\ k \in Initial /\ k.baseline = b
         /\ j.accounted = k.accounted /\ j.funded = k.funded
         /\ got \subseteq Nodes /\ j.baseline.acknowledged = g /\ j.baseline.cursor = c
    BY <1>1, <1>7, <1>13, <1>14, <1>15
  <1> QED BY <1>16 DEF j, k, b, g, c, got

\* The record that the receipts of a reconciliation lead to.
Counted(current) == accountBaselineReceipts(baselined(initial), current)

\* What a reconciliation makes of it.
LEMMA Stepped ==
  ASSUME Types, Bounds, Nil, op.pc = "decide", initial.baseline # None => Conserved(initial.baseline),
         NEW n \in Nodes, NEW current \in SUBSET Nodes, NEW inputs \in BOOLEAN,
         \/ baselineStep(n, current, inputs).publish
         \/ baselineStep(n, current, inputs).record.baseline.sequence <= MaxOffer
  PROVE  /\ Result(Counted(current), baselineStep(n, current, inputs).record)
         /\ baselineStep(n, current, inputs).publish =>
              baselineStep(n, current, inputs).record.offer \in Offer
  <1> DEFINE i == Counted(current)
             b == i.baseline
             out == baselineStep(n, current, inputs)
             offered == [i EXCEPT !.offer = baselineOffer(i), !.baseline.stage = "Offered"]
  <1>1. i \in Initial /\ b \in Baseline /\ Conserved(b)
    <2>1. /\ baselined(initial) \in Initial /\ baselined(initial).baseline \in Baseline
          /\ Conserved(baselined(initial).baseline)
      BY BaselinedRecord DEF Types, TypeOK
    <2> QED BY <2>1, AccountedRecord DEF Counted
  <1>2. op.root \in Root /\ op.root.producer \in Nat /\ root.policy \in Nat
        /\ overrideBinding \in Requests \cup {0}
    BY DEF Types, HeldInv, TypeOK, Root, overrideBinding, Initial, Activation
  <1>3. Result(i, i) BY <1>1 DEF Result, SameReceipts
  <1>4. \/ out = [record |-> withdrawBaseline(i), publish |-> FALSE]
        \/ out = [record |-> adopted(i), publish |-> FALSE]
        \/ out = [record |-> [i EXCEPT !.next = "wait"], publish |-> FALSE]
        \/ out = [record |-> i, publish |-> FALSE]
        \/ out = [record |-> expiredBeforeAssignment(i), publish |-> FALSE] /\ Undecided(b)
        \/ out = [record |-> skippedTarget(i), publish |-> FALSE] /\ Undecided(b)
        \/ /\ out = [record |-> offered, publish |-> FALSE] /\ b.stage = "Selected"
           /\ b.target \in current /\ targetReady(i, b.target)
        \/ /\ out = [record |-> assignedOffer(i), publish |-> exec[b.target].offer # i.offer]
           /\ Undecided(b) /\ i.offer # None
        \/ out = [record |-> selectBaselineTarget(i, n), publish |-> FALSE] /\ ~Undecided(b)
    <2> HIDE DEF out, offered
    <2> QED BY DEF baselineStep, Keep, Undecided, Counted, out, offered
  <1> HIDE DEF i, out, offered
  <1>5. CASE out = [record |-> withdrawBaseline(i), publish |-> FALSE]
    <2>1. Result(i, withdrawBaseline(i)) BY <1>1, Withdrawn
    <2> QED BY <1>5, <2>1 DEF i, out
  <1>6. CASE out = [record |-> adopted(i), publish |-> FALSE]
    <2>1. Result(i, adopted(i)) BY <1>1, <1>2, Adopted
    <2> QED BY <1>6, <2>1 DEF i, out
  <1>7. CASE out = [record |-> [i EXCEPT !.next = "wait"], publish |-> FALSE]
    <2>1. Result(i, [i EXCEPT !.next = "wait"])
      <3>1. [i EXCEPT !.next = "wait"] \in Initial /\ Alike(i, [i EXCEPT !.next = "wait"])
        BY <1>1, Updates
      <3> QED BY <3>1, <1>3 DEF Result, SameReceipts, Alike
    <2> QED BY <1>7, <2>1 DEF i, out
  <1>8. CASE out = [record |-> i, publish |-> FALSE] BY <1>3, <1>8 DEF i, out
  <1>9. CASE out = [record |-> expiredBeforeAssignment(i), publish |-> FALSE] /\ Undecided(b)
    <2>1. Result(i, expiredBeforeAssignment(i)) BY <1>1, <1>9, Decided
    <2> QED BY <1>9, <2>1 DEF i, out
  <1>10. CASE out = [record |-> skippedTarget(i), publish |-> FALSE] /\ Undecided(b)
    <2>1. Result(i, skippedTarget(i)) BY <1>1, <1>10, Decided
    <2> QED BY <1>10, <2>1 DEF i, out
  <1>11. CASE /\ out = [record |-> offered, publish |-> FALSE] /\ b.stage = "Selected"
              /\ b.target \in current /\ targetReady(i, b.target)
    <2>1. out.record = offered /\ out.publish = FALSE BY <1>11
    <2>2. offered.baseline.sequence = b.sequence BY <1>1 DEF offered, Initial, Baseline
    <2>3. b.sequence \in 1..MaxOffer
      <3>1. b.sequence <= MaxOffer BY <2>1, <2>2 DEF out
      <3>2. b.sequence >= 1 BY <1>1, <1>11 DEF Conserved, Undecided
      <3>3. b.sequence \in Nat BY <1>1, BaselineFields
      <3> QED BY <3>1, <3>2, <3>3, Numbers
    <2>4. b.target \in Nodes BY <1>11
    <2>5. obs[b.target].height \in Nat
      <3>1. obs[b.target] \in Observation
        BY <1>11, <2>4 DEF targetReady, observed, Types, TypeOK
      <3> QED BY <3>1 DEF Observation
    <2>6. baselineOffer(i) \in Offer
      <3> DEFINE h == obs[b.target].height
                 k == b.sequence
                 m == b.target
      <3>1. baselineOffer(i) = [number |-> k, mode |-> "Baseline", target |-> m, height |-> h,
                 blocks |-> 1, ceiling |-> None, wallet |-> "payout", override |-> overrideBinding,
                 producer |-> op.root.producer]
        BY DEF baselineOffer
      <3>2. 1 \in 1..BatchLimit BY Numbers
      <3>3. k \in 1..MaxOffer /\ m \in Nodes /\ h \in Nat BY <2>3, <2>4, <2>5
      <3> HIDE DEF h, k, m
      <3> QED BY <3>1, <3>2, <3>3, <1>2 DEF Offer
    <2>7. Result(i, offered) BY <1>1, <1>11, <2>6, Offered DEF offered
    <2> QED BY <2>1, <2>7 DEF i, out
  <1>12. CASE /\ out = [record |-> assignedOffer(i), publish |-> exec[b.target].offer # i.offer]
              /\ Undecided(b) /\ i.offer # None
    <2>1. Result(i, assignedOffer(i)) /\ assignedOffer(i).offer = i.offer BY <1>1, <1>12, Decided
    <2>2. i.offer \in Offer BY <1>1, <1>12, Fields
    <2> QED BY <1>12, <2>1, <2>2 DEF i, out
  <1>13. CASE out = [record |-> selectBaselineTarget(i, n), publish |-> FALSE] /\ ~Undecided(b)
    <2>1. Result(i, selectBaselineTarget(i, n)) BY <1>1, <1>13, Selected
    <2> QED BY <1>13, <2>1 DEF i, out
  <1> QED BY <1>4, <1>5, <1>6, <1>7, <1>8, <1>9, <1>10, <1>11, <1>12, <1>13

-----------------------------------------------------------------------------
(* Receipts *)

Cursor(i, n) == IF i.baseline = None THEN 0 ELSE i.baseline.cursor[n]
Base(n) == {o \in done[n] : o.mode = "Baseline"}
Boot == {o \in done[Target] : o.mode = "Bootstrap"}
Paid(a) == {o \in Boot : o.number <= a /\ o.wallet = "miner" /\ o.height < MinimumHeight}
BlocksOf(S) == UNION {{<<o.number, k>> : k \in 1..o.blocks} : o \in S}
Acked(i) == UNION {{<<n, o.number>> : o \in {x \in Base(n) : x.number <= Cursor(i, n)}} : n \in Nodes}

\* The receipts of a node come in the order of their numbers, and an armed offer is the next.
HistoryInv ==
    \A n \in Nodes :
      /\ exec[n].last = None => done[n] = {} /\ exec[n].completed = 0
      /\ exec[n].last # None => exec[n].last \in done[n] /\ exec[n].completed = exec[n].last.number
      /\ \A o \in done[n] : o.number <= exec[n].completed /\ (o.mode = "Bootstrap" => n = Target)
      /\ exec[n].armed # None => /\ exec[n].armed.number > exec[n].completed
                                 /\ exec[n].armed.mode = "Bootstrap" => n = Target

\* The counters of a record are exact, and an offer is armed once the one before it is counted.
Books(i) ==
    /\ i.accounted <= exec[Target].completed
    /\ \A n \in Nodes : Cursor(i, n) <= exec[n].completed
    /\ \A n \in Nodes : exec[n].armed # None => generationAccounted(i, n)
    /\ i.funded = Cardinality(BlocksOf(Paid(i.accounted)))
    /\ i.baseline # None => i.baseline.acknowledged = Cardinality(Acked(i))
    /\ \A n \in Nodes : \A o \in Base(n) : o.number > Cursor(i, n) => o = exec[n].last
    /\ \A o \in Boot : o.number > i.accounted => o = exec[Target].last

\* Numbers, in one place.
LEMMA Known ==
  ASSUME Types, Bounds
  PROVE  /\ \A o \in Offer : o.number \in Nat /\ o.number >= 1 /\ o.number \in 1..MaxOffer
                             /\ o.blocks \in Nat /\ o.blocks \in 1..BatchLimit
                             /\ o.mode \in {"Bootstrap", "Baseline"}
         /\ \A n \in Nodes : /\ done[n] \subseteq Offer /\ exec[n].completed \in Nat
                             /\ exec[n].last \in Offer \cup {None}
                             /\ exec[n].armed \in Offer \cup {None}
                             /\ exec[n].offer \in Offer \cup {None}
         /\ Boot \subseteq Offer /\ \A n \in Nodes : Base(n) \subseteq Offer
  <1>1. \A o \in Offer : o.number \in Nat /\ o.number >= 1 /\ o.number \in 1..MaxOffer
                         /\ o.blocks \in Nat /\ o.blocks \in 1..BatchLimit
                         /\ o.mode \in {"Bootstrap", "Baseline"}
    BY Numbers DEF Offer
  <1>2. \A n \in Nodes : /\ done[n] \subseteq Offer /\ exec[n].completed \in Nat
                         /\ exec[n].last \in Offer \cup {None} /\ exec[n].armed \in Offer \cup {None}
                         /\ exec[n].offer \in Offer \cup {None}
    BY DEF Types, TypeOK, Execution
  <1>3. Target \in Nodes BY Numbers
  <1> QED BY <1>1, <1>2, <1>3 DEF Boot, Base

LEMMA CursorType == ASSUME NEW i \in Initial, NEW n \in Nodes PROVE Cursor(i, n) \in Nat
  <1>1. CASE i.baseline = None BY <1>1 DEF Cursor
  <1>2. CASE i.baseline # None
    <2>1. i.baseline \in Baseline BY <1>2, Fields
    <2>2. i.baseline.cursor \in [Nodes -> Nat] BY <2>1, BaselineFields
    <2> QED BY <1>2, <2>2 DEF Cursor
  <1> QED BY <1>1, <1>2

\* The blocks of the offers, one pair each.
LEMMA FiniteBlocks ==
  ASSUME Bounds, NEW S \in SUBSET Offer
  PROVE  IsFiniteSet(BlocksOf(S)) /\ Cardinality(BlocksOf(S)) \in Nat
  <1>1. \A o \in S : o.number \in 1..MaxOffer /\ o.blocks \in 1..BatchLimit BY Numbers DEF Offer
  <1>2. BlocksOf(S) \subseteq (1..MaxOffer) \X (1..BatchLimit) BY <1>1, Numbers DEF BlocksOf
  <1>3. IsFiniteSet((1..MaxOffer) \X (1..BatchLimit))
    <2>1. IsFiniteSet(1..MaxOffer) /\ IsFiniteSet(1..BatchLimit) BY Numbers, FS_Interval
    <2> QED BY <2>1, FS_Product
  <1> QED BY <1>2, <1>3, FS_Subset, FS_CardinalityType

LEMMA MoreBlocks ==
  ASSUME Bounds, NEW S \in SUBSET Offer, NEW p \in Offer, \A o \in S : o.number # p.number
  PROVE  Cardinality(BlocksOf(S \cup {p})) = Cardinality(BlocksOf(S)) + p.blocks
  <1> DEFINE A == BlocksOf(S)
             B == {<<p.number, k>> : k \in 1..p.blocks}
             f == [k \in 1..p.blocks |-> <<p.number, k>>]
  <1>1. BlocksOf(S \cup {p}) = A \cup B BY DEF BlocksOf
  <1>2. A \cap B = {} BY DEF BlocksOf
  <1>3. p.blocks \in Nat BY Numbers DEF Offer
  <1>4. IsFiniteSet(1..p.blocks) /\ Cardinality(1..p.blocks) = p.blocks
    <2>1. 0 \in Int /\ 1 \in Int /\ p.blocks \in Int BY <1>3
    <2>2. Cardinality(1..p.blocks) = IF 1 > p.blocks THEN 0 ELSE p.blocks - 1 + 1
      BY <1>3, <2>1, FS_Interval
    <2>3. IsFiniteSet(1..p.blocks) BY <1>3, <2>1, FS_Interval
    <2> QED BY <1>3, <2>2, <2>3
  <1>5. f \in Bijection(1..p.blocks, B) BY DEF Bijection, Injection, Surjection, IsInjective
  <1>6. IsFiniteSet(B) /\ Cardinality(B) = p.blocks
    <2> HIDE DEF f, B
    <2> QED BY <1>4, <1>5, FS_Bijection DEF ExistsBijection
  <1>7. IsFiniteSet(A) /\ Cardinality(A) \in Nat BY FiniteBlocks
  <1> HIDE DEF A, B
  <1>8. Cardinality(A \cup B) = Cardinality(A) + Cardinality(B) - Cardinality({})
    BY <1>2, <1>6, <1>7, FS_Union
  <1>9. Cardinality({}) = 0 BY FS_EmptySet
  <1>10. Cardinality(A \cup B) = Cardinality(A) + p.blocks
    BY <1>3, <1>6, <1>7, <1>8, <1>9
  <1> QED BY <1>1, <1>10 DEF A

\* Receipts of the baseline, one pair each.
LEMMA FiniteAcked ==
  ASSUME Types, Bounds, NEW i \in Initial
  PROVE  IsFiniteSet(Acked(i)) /\ Cardinality(Acked(i)) \in Nat
  <1>1. \A n \in Nodes : \A o \in Base(n) : o.number \in 1..MaxOffer BY Known
  <1>2. Acked(i) \subseteq Nodes \X (1..MaxOffer) BY <1>1 DEF Acked
  <1>3. IsFiniteSet(Nodes \X (1..MaxOffer))
    <2>1. IsFiniteSet(1..MaxOffer) /\ IsFiniteSet(Nodes) BY Numbers, FS_Interval DEF Bounds
    <2> QED BY <2>1, FS_Product
  <1> QED BY <1>2, <1>3, FS_Subset, FS_CardinalityType

\* One more of each node of a set.
LEMMA MoreAcked ==
  ASSUME NEW A, IsFiniteSet(A), NEW G, IsFiniteSet(G), NEW f, \A n \in G : <<n, f[n]>> \notin A
  PROVE  Cardinality(A \cup {<<n, f[n]>> : n \in G}) = Cardinality(A) + Cardinality(G)
  <1> DEFINE B == {<<n, f[n]>> : n \in G}
             g == [n \in G |-> <<n, f[n]>>]
  <1>1. A \cap B = {} OBVIOUS
  <1>2. g \in Bijection(G, B) BY DEF Bijection, Injection, Surjection, IsInjective
  <1>3. IsFiniteSet(B) /\ Cardinality(B) = Cardinality(G)
    <2> HIDE DEF g, B
    <2> QED BY <1>2, FS_Bijection DEF ExistsBijection
  <1> HIDE DEF B
  <1>4. Cardinality(A) \in Nat /\ Cardinality(B) \in Nat BY <1>3, FS_CardinalityType
  <1>5. Cardinality(A \cup B) = Cardinality(A) + Cardinality(B) - Cardinality({})
    BY <1>1, <1>3, FS_Union
  <1>6. Cardinality({}) = 0 BY FS_EmptySet
  <1>7. Cardinality(A \cup B) = Cardinality(A) + Cardinality(G)
    BY <1>3, <1>4, <1>5, <1>6
  <1> QED BY <1>7 DEF B

\* Records with the same counters.
SameBooks(i, j) ==
    /\ j.accounted = i.accounted /\ j.funded = i.funded
    /\ (j.baseline = None) <=> (i.baseline = None)
    /\ i.baseline # None => /\ j.baseline.acknowledged = i.baseline.acknowledged
                            /\ j.baseline.cursor = i.baseline.cursor

LEMMA BooksAlike ==
  ASSUME NEW i, NEW j, Books(i), SameBooks(i, j)
  PROVE  Books(j)
  <1>1. \A n \in Nodes : Cursor(j, n) = Cursor(i, n) BY DEF SameBooks, Cursor
  <1>2. Acked(j) = Acked(i) BY <1>1 DEF Acked
  <1>3. \A n \in Nodes : generationAccounted(i, n) => generationAccounted(j, n)
    BY DEF generationAccounted, SameBooks
  <1> QED BY <1>1, <1>2, <1>3 DEF Books, SameBooks

\* A receipt of the bootstrap is counted in blocks.
LEMMA BooksBoot ==
  ASSUME Types, Bounds, HistoryInv, NEW i \in Initial, Books(i)
  PROVE  Books(accountBootstrapReceipt(i))
  <1> DEFINE j == accountBootstrapReceipt(i)
             L == exec[Target].last
             P == Paid(i.accounted)
  <1>1. CASE ~bootstrapReceipt(i, L) BY <1>1 DEF accountBootstrapReceipt
  <1>2. CASE bootstrapReceipt(i, L)
    <2>1. /\ L \in Offer /\ L \in Boot /\ L.number > i.accounted /\ L.number = exec[Target].completed
          /\ Target \in Nodes /\ i.accounted \in Nat /\ L.number \in Nat /\ L.blocks \in Nat
      <3>1. Target \in Nodes /\ i.accounted \in Nat BY Numbers, Fields
      <3>2. L \in Offer /\ L.mode = "Bootstrap" BY <1>2, <3>1, Known DEF bootstrapReceipt
      <3>3. L \in Boot BY <1>2, <3>1, <3>2 DEF bootstrapReceipt, HistoryInv, Boot
      <3> QED BY <1>2, <3>1, <3>2, <3>3, Known DEF bootstrapReceipt
    <2> DEFINE miner == L.wallet = "miner" /\ L.height < MinimumHeight
               f == i.funded + IF miner THEN L.blocks ELSE 0
    <2>2. /\ j \in Initial /\ j.baseline = i.baseline /\ j.accounted = L.number
          /\ j.funded = f
      <3>1. j = [i EXCEPT !.accounted = L.number, !.funded = f]
        BY <1>2 DEF accountBootstrapReceipt, offerBlocks
      <3>2. j \in Initial /\ j.baseline = i.baseline BY Receipts
      <3> HIDE DEF L, f
      <3> QED BY <3>1, <3>2 DEF Initial
    <2> HIDE DEF j
    <2>3. \A o \in Boot : o \in Offer /\ o.number \in Nat /\ o.number <= L.number
      <3>1. \A o \in Boot : o.number <= exec[Target].completed BY <2>1 DEF HistoryInv, Boot
      <3> QED BY <2>1, <3>1, Known
    <2>4. \A o \in Boot : o.number > i.accounted => o = L BY DEF Books
    <2>5. \A o \in P : o.number # L.number
      <3>1. \A o \in P : o.number <= i.accounted /\ o.number \in Nat BY <2>3 DEF Paid
      <3> QED BY <2>1, <3>1
    <2>6. Paid(L.number) = IF miner THEN P \cup {L} ELSE P
      <3>1. \A o \in Boot : o.number <= i.accounted \/ o = L BY <2>1, <2>3, <2>4
      <3>2. \A o \in Boot : o.number <= i.accounted => o # L BY <2>1, <2>3
      <3>3. P \subseteq Paid(L.number)
        <4>1. \A o \in P : o \in Boot /\ o.wallet = "miner" /\ o.height < MinimumHeight BY DEF Paid
        <4> QED BY <2>3, <4>1 DEF Paid
      <3>4. Paid(L.number) \subseteq P \cup {L} BY <3>1 DEF Paid
      <3>5. L \in Paid(L.number) <=> miner
        <4>1. L.number <= L.number BY <2>1
        <4> QED BY <2>1, <4>1 DEF Paid
      <3>6. L \notin P BY <2>5
      <3> QED BY <3>3, <3>4, <3>5, <3>6
    <2>7. j.funded = Cardinality(BlocksOf(Paid(j.accounted)))
      <3>1. i.funded = Cardinality(BlocksOf(P)) /\ i.funded \in Nat BY Fields DEF Books
      <3>2. P \subseteq Offer BY <2>3 DEF Paid
      <3>3. CASE miner
        <4>1. Cardinality(BlocksOf(P \cup {L})) = Cardinality(BlocksOf(P)) + L.blocks
          BY <2>1, <2>5, <3>2, MoreBlocks
        <4>2. f = i.funded + L.blocks BY <3>3
        <4> HIDE DEF f, P, L
        <4> QED BY <2>2, <2>6, <3>1, <3>3, <4>1, <4>2
      <3>4. CASE ~miner
        <4>1. f = i.funded + 0 BY <3>4
        <4>2. f = i.funded BY <3>1, <4>1, Counts
        <4> HIDE DEF f, P, L
        <4> QED BY <2>2, <2>6, <3>1, <3>4, <4>2
      <3> QED BY <3>3, <3>4
    <2>8. \A n \in Nodes : Cursor(j, n) = Cursor(i, n) BY <2>2 DEF Cursor
    <2>9. Acked(j) = Acked(i) BY <2>8 DEF Acked
    <2>10. ASSUME NEW n \in Nodes, generationAccounted(i, n) PROVE generationAccounted(j, n)
      <3>1. CASE exec[n].last # None /\ exec[n].last.mode = "Bootstrap"
        <4>1. i.accounted >= exec[n].completed BY <2>10, <3>1 DEF generationAccounted
        <4>2. exec[n].completed \in Nat BY Known
        <4>3. j.accounted >= exec[n].completed BY <2>1, <2>2, <4>1, <4>2
        <4> QED BY <3>1, <4>3 DEF generationAccounted
      <3>2. CASE ~(exec[n].last # None /\ exec[n].last.mode = "Bootstrap")
        BY <2>2, <2>10, <3>2 DEF generationAccounted
      <3> QED BY <3>1, <3>2
    <2>11. \A o \in Boot : ~(o.number > j.accounted) BY <2>1, <2>2, <2>3
    <2>12. j.accounted <= exec[Target].completed BY <2>1, <2>2
    <2>13. Books(j) BY <2>2, <2>7, <2>8, <2>9, <2>10, <2>11, <2>12 DEF Books
    <2> QED BY <2>13 DEF j
  <1> QED BY <1>1, <1>2

\* A baseline that starts counts from nothing.
LEMMA BooksBaselined ==
  ASSUME Types, Bounds, Nil, NEW i \in Initial, i.baseline # None => Conserved(i.baseline), Books(i)
  PROVE  Books(baselined(i))
  <1> DEFINE j == baselined(i)
  <1>1. /\ j \in Initial /\ j.baseline \in Baseline /\ j.accounted = i.accounted /\ j.funded = i.funded
        /\ j.baseline.acknowledged = IF i.baseline = None THEN 0 ELSE i.baseline.acknowledged
        /\ j.baseline.cursor = IF i.baseline = None THEN [n \in Nodes |-> 0] ELSE i.baseline.cursor
    BY BaselinedRecord
  <1> HIDE DEF j
  <1>2. j.baseline # None BY <1>1 DEF Nil
  <1>3. CASE i.baseline # None
    <2>1. SameBooks(i, j) BY <1>1, <1>2, <1>3 DEF SameBooks
    <2>2. Books(j) BY <2>1, BooksAlike
    <2> QED BY <2>2 DEF j
  <1>4. CASE i.baseline = None
    <2>1. \A n \in Nodes : Cursor(j, n) = 0 /\ Cursor(i, n) = 0 BY <1>1, <1>2, <1>4 DEF Cursor
    <2>2. Acked(j) = {}
      <3>1. \A n \in Nodes : \A o \in Base(n) : ~(o.number <= 0) BY Known
      <3>2. \A n \in Nodes : {x \in Base(n) : x.number <= Cursor(j, n)} = {} BY <2>1, <3>1
      <3> QED BY <3>2 DEF Acked
    <2>3. j.baseline.acknowledged = Cardinality(Acked(j)) BY <1>1, <1>4, <2>2, FS_EmptySet
    <2>4. \A n \in Nodes : generationAccounted(i, n) => generationAccounted(j, n)
      BY <1>1, <1>4 DEF generationAccounted
    <2>5. Books(j) BY <1>1, <2>1, <2>3, <2>4 DEF Books
    <2> QED BY <2>5 DEF j
  <1> QED BY <1>3, <1>4

\* The receipts of the baseline are counted with the cursors that they move.
LEMMA BooksAccounted ==
  ASSUME Types, Bounds, Nil, HistoryInv, NEW i \in Initial, i.baseline \in Baseline,
         Conserved(i.baseline), Books(i), NEW current \in SUBSET Nodes
  PROVE  Books(accountBaselineReceipts(i, current))
  <1> DEFINE j == accountBaselineReceipts(i, current)
             k == Booted(i, current)
             got == Newly(k, current)
             f == [n \in got |-> exec[n].last.number]
  <1>1. /\ j \in Initial /\ j.baseline \in Baseline /\ k \in Initial /\ k.baseline = i.baseline
        /\ j.accounted = k.accounted /\ j.funded = k.funded /\ got \subseteq Nodes
        /\ j.baseline.acknowledged = i.baseline.acknowledged + Cardinality(got)
        /\ j.baseline.cursor = [n \in Nodes |-> IF n \in got THEN exec[n].last.number
                                                ELSE i.baseline.cursor[n]]
    BY AccountedRecord
  <1>2. Books(k) BY BooksBoot DEF Booted
  <1>3. /\ j.baseline # None /\ k.baseline # None /\ k.baseline \in Baseline
    BY <1>1 DEF Nil
  <1>4. \A n \in got : /\ exec[n].last # None /\ exec[n].last.mode = "Baseline"
                       /\ exec[n].last.number = exec[n].completed
                       /\ exec[n].last.number > k.baseline.cursor[n]
    BY <1>1, <1>3 DEF Newly, baselineReceipt, Baseline
  <1> HIDE DEF j, k, got
  <1>5. \A n \in Nodes : Cursor(j, n) = IF n \in got THEN exec[n].last.number ELSE Cursor(k, n)
    BY <1>1, <1>3 DEF Cursor
  <1>6. \A n \in got : /\ exec[n].last \in Base(n) /\ exec[n].last.number \in Nat
                       /\ exec[n].last.number = exec[n].completed /\ n \in Nodes
                       /\ exec[n].last.number > Cursor(k, n)
    BY <1>1, <1>3, <1>4, Known DEF HistoryInv, Base, Cursor
  <1>7. \A n \in Nodes : /\ Cursor(k, n) \in Nat /\ exec[n].completed \in Nat
                         /\ \A o \in Base(n) : /\ o.number \in Nat /\ o.number <= exec[n].completed
                                               /\ o.number > Cursor(k, n) => o = exec[n].last
    BY <1>1, <1>2, CursorType, Known DEF Books, HistoryInv, Base
  <1>8. Acked(j) = Acked(k) \cup {<<n, f[n]>> : n \in got}
    <2> DEFINE New(i_, n) == {<<n, o.number>> : o \in {x \in Base(n) : x.number <= Cursor(i_, n)}}
    <2>1. ASSUME NEW n \in got PROVE New(j, n) = New(k, n) \cup {<<n, f[n]>>}
      <3>1. \A x \in Base(n) : x.number <= Cursor(j, n) <=> (x.number <= Cursor(k, n) \/ x = exec[n].last)
        <4>1. Cursor(j, n) = exec[n].completed BY <1>5, <1>6
        <4> QED BY <1>6, <1>7, <4>1
      <3>2. f[n] = exec[n].last.number /\ exec[n].last \in Base(n) BY <1>6
      <3> HIDE DEF f
      <3> QED BY <3>1, <3>2
    <2>2. ASSUME NEW n \in Nodes \ got PROVE New(j, n) = New(k, n)
      <3>1. Cursor(j, n) = Cursor(k, n) BY <1>5
      <3> QED BY <3>1
    <2>3. Acked(j) = UNION {New(j, n) : n \in Nodes} /\ Acked(k) = UNION {New(k, n) : n \in Nodes}
      BY DEF Acked
    <2> HIDE DEF New, f
    <2> QED BY <1>1, <2>1, <2>2, <2>3
  <1>9. \A n \in got : <<n, f[n]>> \notin Acked(k)
    <2>1. \A n \in Nodes : <<n, f[n]>> \in Acked(k) => f[n] <= Cursor(k, n) BY DEF Acked
    <2>2. \A n \in got : ~(f[n] <= Cursor(k, n)) /\ n \in Nodes BY <1>6, <1>7
    <2> QED BY <2>1, <2>2
  <1>10. IsFiniteSet(got) BY <1>1, FS_Subset DEF Bounds
  <1>11. IsFiniteSet(Acked(k)) BY <1>1, FiniteAcked
  <1>12. j.baseline.acknowledged = Cardinality(Acked(j))
    <2>1. k.baseline.acknowledged = Cardinality(Acked(k)) BY <1>2, <1>3 DEF Books
    <2> HIDE DEF f
    <2>2. Cardinality(Acked(j)) = Cardinality(Acked(k)) + Cardinality(got)
      BY <1>8, <1>9, <1>10, <1>11, MoreAcked
    <2> QED BY <1>1, <2>1, <2>2
  <1>13. \A n \in Nodes : Cursor(j, n) <= exec[n].completed
    BY <1>2, <1>5, <1>6, <1>7 DEF Books
  <1>14. ASSUME NEW n \in Nodes, NEW o \in Base(n), o.number > Cursor(j, n) PROVE o = exec[n].last
    <2>1. n \notin got
      <3>1. ASSUME n \in got PROVE FALSE
        <4>1. Cursor(j, n) = exec[n].completed BY <1>5, <1>6, <3>1
        <4> QED BY <1>7, <1>14, <4>1
      <3> QED BY <3>1
    <2>2. Cursor(j, n) = Cursor(k, n) BY <1>5, <2>1
    <2> QED BY <1>7, <1>14, <2>2
  <1>15. ASSUME NEW n \in Nodes, generationAccounted(k, n) PROVE generationAccounted(j, n)
    <2>1. CASE exec[n].last # None /\ exec[n].last.mode # "Bootstrap"
      <3>1. k.baseline.cursor[n] >= exec[n].completed BY <1>15, <2>1 DEF generationAccounted
      <3>2. j.baseline.cursor[n] >= exec[n].completed
        <4>1. CASE n \in got
          <5>1. j.baseline.cursor[n] = exec[n].completed BY <1>1, <1>6, <4>1
          <5> QED BY <1>7, <5>1
        <4>2. CASE n \notin got BY <1>1, <3>1, <4>2
        <4> QED BY <4>1, <4>2
      <3> QED BY <1>3, <2>1, <3>2 DEF generationAccounted
    <2>2. CASE ~(exec[n].last # None /\ exec[n].last.mode # "Bootstrap")
      BY <1>1, <1>15, <2>2 DEF generationAccounted
    <2> QED BY <2>1, <2>2
  <1>16. Books(j)
    <2> HIDE DEF f
    <2> QED BY <1>1, <1>2, <1>12, <1>13, <1>14, <1>15 DEF Books
  <1> QED BY <1>16 DEF j

-----------------------------------------------------------------------------
(* The inductive invariant *)

LedgerInv ==
    /\ initial.baseline # None => Conserved(initial.baseline)
    /\ HistoryInv /\ Books(initial)

\* A request that was admitted shows what became of it, and one that was activated exists or
\* has existed.
OutcomeInv ==
    /\ \A r \in Requests : /\ req[r].adm => req[r].phase \in {"Active", "Completed", "Cancelled"}
                           /\ active[r] = 1 => req[r].state # "absent"
    /\ OverrideOutcomeRetained

SchedulerInv == Types /\ LedgerInv /\ OutcomeInv

LEMMA IdleTypes ==
  /\ Idle \in [pc : {"idle", "decide"}, root : Root \cup {None}] /\ Idle.pc = "idle"
  /\ NoLife \in Life /\ NoLife.pc = "idle"
  BY DEF Idle, NoLife, Life

LEMMA Taken ==
  ASSUME Types, NEW k \in Kinds, Take(k)
  PROVE  budget' \in [Kinds -> Nat]
  BY DEF Types, TypeOK, Take

\* The parts of TypeOK and HeldInv, to put together again.
LEMMA Parts ==
  /\ Types => /\ root \in Root /\ initial \in Initial /\ exec \in [Nodes -> Execution]
              /\ obs \in [Nodes -> Observation \cup {None}] /\ height \in 0..MaxHeight
              /\ req \in [Requests -> Request]
              /\ timed \in [offers : SUBSET (1..MaxOffer), ended : SUBSET Requests,
                            overdue : SUBSET Requests]
              /\ done \in [Nodes -> SUBSET Offer] /\ active \in [Requests -> Nat]
              /\ budget \in [Kinds -> Nat] /\ op \in [pc : {"idle", "decide"}, root : Root \cup {None}]
              /\ op.pc = "decide" => op.root \in Root
              /\ life \in Life /\ (life.pc # "idle" => life.req \in Requests /\ life.copy \in Request)
  BY DEF Types, TypeOK, HeldInv

LEMMA TypesNext ==
  ASSUME root' \in Root, initial' \in Initial, exec' \in [Nodes -> Execution],
         obs' \in [Nodes -> Observation \cup {None}], height' \in 0..MaxHeight,
         req' \in [Requests -> Request],
         timed' \in [offers : SUBSET (1..MaxOffer), ended : SUBSET Requests, overdue : SUBSET Requests],
         done' \in [Nodes -> SUBSET Offer], active' \in [Requests -> Nat], budget' \in [Kinds -> Nat],
         op' \in [pc : {"idle", "decide"}, root : Root \cup {None}],
         op'.pc = "decide" => op'.root \in Root,
         life' \in Life, life'.pc # "idle" => life'.req \in Requests /\ life'.copy \in Request
  PROVE  Types'
  BY DEF Types, TypeOK, HeldInv, Life

\* An offer that is published leaves what the workers did.
LEMMA Publishing ==
  ASSUME Types, NEW m \in Nodes, NEW o \in Offer, exec' = [exec EXCEPT ![m].offer = o]
  PROVE  /\ exec' \in [Nodes -> Execution]
         /\ \A n \in Nodes : /\ exec'[n].last = exec[n].last /\ exec'[n].armed = exec[n].armed
                             /\ exec'[n].completed = exec[n].completed
  BY DEF Types, TypeOK, Execution

\* The ledger is about the counters, the receipts and what is armed.
LEMMA Steady ==
  ASSUME Bounds, initial'.baseline # None => Conserved(initial'.baseline), Books(initial'),
         HistoryInv, done' = done,
         \A n \in Nodes : /\ exec'[n].last = exec[n].last /\ exec'[n].armed = exec[n].armed
                          /\ exec'[n].completed = exec[n].completed
  PROVE  LedgerInv'
  <1>1. Target \in Nodes BY Numbers
  <1>2. HistoryInv' BY DEF HistoryInv
  <1>3. Boot' = Boot /\ \A n \in Nodes : Base(n)' = Base(n) BY <1>1 DEF Boot, Base
  <1>4. \A n \in Nodes : Cursor(initial, n)' = Cursor(initial', n) BY DEF Cursor
  <1>5. Acked(initial)' = Acked(initial') BY <1>3, <1>4 DEF Acked
  <1>6. Paid(initial.accounted)' = Paid(initial'.accounted) BY <1>3 DEF Paid
  <1>7. BlocksOf(Paid(initial.accounted))' = BlocksOf(Paid(initial'.accounted)) BY <1>6 DEF BlocksOf
  <1>8. \A n \in Nodes : generationAccounted(initial, n)' <=> generationAccounted(initial', n)
    BY DEF generationAccounted
  <1>9. Books(initial)' BY <1>1, <1>3, <1>4, <1>5, <1>7, <1>8 DEF Books
  <1>10. (initial.baseline # None => Conserved(initial.baseline))' BY DEF Conserved, Undecided
  <1> QED BY <1>2, <1>9, <1>10 DEF LedgerInv

LEMMA LedgerKept ==
  ASSUME Bounds, LedgerInv, UNCHANGED <<exec, done>>, initial'.baseline = initial.baseline,
         initial'.accounted = initial.accounted, initial'.funded = initial.funded
  PROVE  LedgerInv'
  <1>1. SameBooks(initial, initial') BY DEF SameBooks
  <1>2. Books(initial') BY <1>1, BooksAlike DEF LedgerInv
  <1> QED BY <1>2, Steady DEF LedgerInv

LEMMA OutcomeKept ==
  ASSUME OutcomeInv, UNCHANGED <<req, active>>, initial'.override = initial.override
  PROVE  OutcomeInv'
  BY DEF OutcomeInv, OverrideOutcomeRetained, exists

-----------------------------------------------------------------------------
(* The scheduler's steps *)

LEMMA SettledStep ==
  ASSUME SchedulerInv, Bounds, ReadRoot \/ AwaitOutcome \/ Abort
  PROVE  SchedulerInv'
  <1>1. Types'
    <2>1. op' \in [pc : {"idle", "decide"}, root : Root \cup {None}]
          /\ (op'.pc = "decide" => op'.root \in Root)
      BY IdleTypes, Parts DEF SchedulerInv, ReadRoot, AwaitOutcome, Abort
    <2> QED BY <2>1, Parts, TypesNext DEF SchedulerInv, ReadRoot, AwaitOutcome, Abort, quiet
  <1>2. UNCHANGED <<initial, exec, done, req, active>>
    BY DEF ReadRoot, AwaitOutcome, Abort, quiet
  <1>3. LedgerInv' BY <1>2, LedgerKept DEF SchedulerInv
  <1>4. OutcomeInv' BY <1>2, OutcomeKept DEF SchedulerInv
  <1> QED BY <1>1, <1>3, <1>4 DEF SchedulerInv

\* Timing is withdrawn from a record, and its activation goes or comes.
Retimed(i, v) == [withdrawTiming(i) EXCEPT !.override = v]

LEMMA RetimedRecord ==
  ASSUME Nil, NEW i \in Initial, i.baseline # None => Conserved(i.baseline),
         NEW v \in Activation \cup {None}
  PROVE  /\ Retimed(i, v) \in Initial /\ Retimed(i, v).override = v /\ SameBooks(i, Retimed(i, v))
         /\ Retimed(i, v).baseline # None => Conserved(Retimed(i, v).baseline)
  <1> DEFINE w == withdrawTiming(i)
             j == Retimed(i, v)
  <1>1. /\ w \in Initial /\ SameBooks(i, w) /\ (w.baseline # None => Conserved(w.baseline))
    <2>1. CASE i.baseline = None
      <3>1. w = [i EXCEPT !.next = "none", !.offer = None] BY <2>1 DEF withdrawTiming
      <3>2. /\ [i EXCEPT !.next = "none", !.offer = None] \in Initial
            /\ Alike(i, [i EXCEPT !.next = "none", !.offer = None])
        BY Updates
      <3>3. w \in Initial /\ Alike(i, w) BY <3>1, <3>2
      <3> QED BY <2>1, <3>3 DEF SameBooks, Alike
    <2>2. CASE i.baseline # None
      <3>1. i.baseline \in Baseline /\ Conserved(i.baseline) BY <2>2, Fields
      <3>2. w = withdrawBaseline(i) BY <2>2 DEF withdrawTiming
      <3>3. Result(i, w) BY <3>1, <3>2, Withdrawn
      <3>4. w.baseline # None BY <3>3 DEF Result, SameReceipts, Nil
      <3> QED BY <2>2, <3>3, <3>4 DEF Result, SameReceipts, SameBooks
    <2> QED BY <2>1, <2>2
  <1> HIDE DEF w
  <1>2. j = [w EXCEPT !.override = v] BY DEF Retimed, w
  <1> HIDE DEF j
  <1>3. /\ j \in Initial /\ j.override = v /\ j.accounted = w.accounted /\ j.funded = w.funded
        /\ j.baseline = w.baseline
    BY <1>1, <1>2, Updates
  <1>4. SameBooks(i, j) BY <1>1, <1>3 DEF SameBooks
  <1>5. j.baseline # None => Conserved(j.baseline) BY <1>1, <1>3
  <1> QED BY <1>3, <1>4, <1>5 DEF j

LEMMA WithdrawStep ==
  ASSUME SchedulerInv, Bounds, Nil, WithdrawOverride
  PROVE  SchedulerInv'
  <1>1. initial' = Retimed(initial, None) /\ op' = Idle /\ UNCHANGED quiet
    BY DEF WithdrawOverride, Report, Retimed
  <1>2. initial \in Initial /\ (initial.baseline # None => Conserved(initial.baseline))
    BY Parts DEF SchedulerInv, LedgerInv
  <1>3. /\ initial' \in Initial /\ initial'.override = None /\ SameBooks(initial, initial')
        /\ initial'.baseline # None => Conserved(initial'.baseline)
    BY <1>1, <1>2, RetimedRecord
  <1>4. Types' BY <1>1, <1>3, IdleTypes, Parts, TypesNext DEF SchedulerInv, quiet
  <1>5. Books(initial') BY <1>3, BooksAlike DEF SchedulerInv, LedgerInv
  <1>6. LedgerInv' BY <1>1, <1>3, <1>5, Steady DEF SchedulerInv, LedgerInv, quiet
  <1>7. OutcomeInv'
    <2>1. UNCHANGED <<req, active>> BY <1>1 DEF quiet
    <2>2. initial.override # None /\ ~outcomePending BY DEF WithdrawOverride
    <2>3. ASSUME NEW r \in Requests, active[r] = 1, exists(r)
          PROVE  req[r].adm /\ req[r].phase \notin {"", "Pending", "Expired"}
      <3>1. req[r].adm => req[r].phase \in {"Active", "Completed", "Cancelled"}
        BY DEF SchedulerInv, OutcomeInv
      <3>2. req[r].adm
        <4>1. CASE initial.override.request = r BY <2>2, <2>3, <4>1 DEF outcomePending
        <4>2. CASE initial.override.request # r
          BY <2>3, <4>2 DEF SchedulerInv, OutcomeInv, OverrideOutcomeRetained
        <4> QED BY <4>1, <4>2
      <3> QED BY <3>1, <3>2
    <2>4. \A r \in Requests : active[r] <= 1 BY DEF SchedulerInv, OutcomeInv, OverrideOutcomeRetained
    <2>5. OverrideOutcomeRetained' BY <2>1, <2>3, <2>4 DEF OverrideOutcomeRetained, exists
    <2> QED BY <2>1, <2>5 DEF SchedulerInv, OutcomeInv
  <1> QED BY <1>4, <1>6, <1>7 DEF SchedulerInv

LEMMA ActivateStep ==
  ASSUME SchedulerInv, Bounds, Nil, ActivateOverride
  PROVE  SchedulerInv'
  <1> DEFINE r == CHOOSE r \in candidates : \A q \in candidates : r <= q
             v == [request |-> r, producer |-> op.root.producer]
             rest == <<root, exec, obs, height, req, timed, life, done, budget>>
  <1>1. /\ initial' = Retimed(initial, v) /\ op' = Idle /\ active' = [active EXCEPT ![r] = @ + 1]
        /\ UNCHANGED rest /\ activatable /\ op.pc = "decide"
    BY DEF ActivateOverride, Report, Retimed
  <1>2. r \in candidates
    <2>1. candidates \subseteq Nat /\ candidates # {} BY <1>1 DEF activatable, candidates, Bounds
    <2> QED BY <2>1, Least
  <1>3. /\ r \in Requests /\ initial.override = None /\ req[r].state = "live" /\ ~req[r].adm
    BY <1>1, <1>2 DEF candidates, activatable
  <1> HIDE DEF r
  <1>4. v \in Activation
    <2>1. op.root \in Root BY <1>1, Parts DEF SchedulerInv
    <2>2. op.root.producer \in Nat BY <2>1 DEF Root
    <2> QED BY <1>3, <2>2 DEF Activation
  <1>5. v.request = r /\ v # None BY <1>4 DEF Nil
  <1> HIDE DEF v
  <1>6. initial \in Initial /\ (initial.baseline # None => Conserved(initial.baseline))
    BY Parts DEF SchedulerInv, LedgerInv
  <1>7. /\ initial' \in Initial /\ initial'.override = v /\ SameBooks(initial, initial')
        /\ initial'.baseline # None => Conserved(initial'.baseline)
    BY <1>1, <1>4, <1>6, RetimedRecord
  <1>8. active' \in [Requests -> Nat] BY <1>1, <1>3, Parts DEF SchedulerInv
  <1>9. Types' BY <1>1, <1>7, <1>8, IdleTypes, Parts, TypesNext DEF SchedulerInv
  <1>10. Books(initial') BY <1>7, BooksAlike DEF SchedulerInv, LedgerInv
  <1>11. LedgerInv' BY <1>1, <1>7, <1>10, Steady DEF SchedulerInv, LedgerInv
  <1>12. OutcomeInv'
    <2>1. active \in [Requests -> Nat] BY Parts DEF SchedulerInv
    <2>2. active[r] = 0
      <3>1. active[r] # 1
        BY <1>3 DEF SchedulerInv, OutcomeInv, OverrideOutcomeRetained, exists
      <3>2. active[r] <= 1 BY <1>3 DEF SchedulerInv, OutcomeInv, OverrideOutcomeRetained
      <3> QED BY <1>3, <2>1, <3>1, <3>2
    <2>3. \A q \in Requests : active'[q] = IF q = r THEN 1 ELSE active[q] BY <1>1, <1>3, <2>1, <2>2
    <2>4. \A q \in Requests : active'[q] = 1 => req'[q].state # "absent"
      BY <1>1, <1>3, <2>3 DEF SchedulerInv, OutcomeInv
    <2>5. \A q \in Requests : active'[q] <= 1
      <3>1. \A q \in Requests : active[q] <= 1 BY DEF SchedulerInv, OutcomeInv, OverrideOutcomeRetained
      <3> QED BY <2>3, <3>1
    <2>6. ASSUME NEW q \in Requests, active'[q] = 1, exists(q),
                 initial'.override = None \/ initial'.override.request # q
          PROVE  req[q].adm /\ req[q].phase \notin {"", "Pending", "Expired"}
      <3>1. q # r BY <1>5, <1>7, <2>6
      <3>2. active[q] = 1 BY <2>3, <2>6, <3>1
      <3> QED BY <1>3, <2>6, <3>2 DEF SchedulerInv, OutcomeInv, OverrideOutcomeRetained
    <2>7. OverrideOutcomeRetained' BY <1>1, <2>5, <2>6 DEF OverrideOutcomeRetained, exists
    <2> QED BY <1>1, <2>4, <2>7 DEF SchedulerInv, OutcomeInv
  <1> QED BY <1>9, <1>11, <1>12 DEF SchedulerInv

LEMMA BootstrapStep ==
  ASSUME SchedulerInv, Bounds, Nil, NEW ready \in BOOLEAN, Bootstrap(ready)
  PROVE  SchedulerInv'
  <1> DEFINE out == bootstrapped(ready)
             rest == <<root, obs, height, req, timed, life, done, active, budget>>
  <1>1. /\ op.pc = "decide" /\ gated /\ (out.record.offer # None => out.record.offer.number <= MaxOffer)
        /\ initial' = out.record /\ op' = Idle /\ UNCHANGED rest
        /\ exec' = IF out.publish THEN [exec EXCEPT ![Target].offer = out.record.offer] ELSE exec
    BY DEF Bootstrap, Report
  <1>2. Types /\ LedgerInv /\ OutcomeInv /\ initial \in Initial BY Parts DEF SchedulerInv
  <1>3. /\ Bootstrapping(initial, out.record) /\ out.record \in Initial
        /\ (out.publish => out.record.offer \in Offer)
    BY <1>1, <1>2, Bootstraps
  <1> HIDE DEF out
  <1>4. /\ exec' \in [Nodes -> Execution]
        /\ \A n \in Nodes : /\ exec'[n].last = exec[n].last /\ exec'[n].armed = exec[n].armed
                            /\ exec'[n].completed = exec[n].completed
    <2>1. CASE out.publish BY <1>1, <1>2, <1>3, <2>1, Publishing, Numbers
    <2>2. CASE ~out.publish BY <1>1, <1>2, <2>2, Parts
    <2> QED BY <2>1, <2>2
  <1>5. Types' BY <1>1, <1>2, <1>3, <1>4, IdleTypes, Parts, TypesNext
  <1>6. Books(initial')
    <2>1. CASE initial'.accounted = initial.accounted /\ initial'.funded = initial.funded
      <3>1. SameBooks(initial, initial') BY <1>1, <1>3, <2>1 DEF Bootstrapping, SameBooks
      <3> QED BY <1>2, <3>1, BooksAlike DEF LedgerInv
    <2>2. CASE /\ initial'.accounted = accountBootstrapReceipt(initial).accounted
               /\ initial'.funded = accountBootstrapReceipt(initial).funded
      <3> DEFINE k == accountBootstrapReceipt(initial)
      <3>1. Books(k) BY <1>2, BooksBoot DEF LedgerInv
      <3>2. k.baseline = initial.baseline BY <1>2, Receipts
      <3> HIDE DEF k
      <3>3. SameBooks(k, initial') BY <1>1, <1>3, <2>2, <3>2 DEF Bootstrapping, SameBooks, k
      <3> QED BY <3>1, <3>3, BooksAlike
    <2> QED BY <1>1, <1>3, <2>1, <2>2 DEF Bootstrapping
  <1>7. initial'.baseline # None => Conserved(initial'.baseline)
    BY <1>1, <1>2, <1>3 DEF LedgerInv, Bootstrapping
  <1>8. LedgerInv' BY <1>1, <1>2, <1>4, <1>6, <1>7, Steady DEF LedgerInv
  <1>9. OutcomeInv' BY <1>1, <1>2, <1>3, OutcomeKept DEF Bootstrapping
  <1> QED BY <1>5, <1>8, <1>9 DEF SchedulerInv

LEMMA BaselineNext ==
  ASSUME SchedulerInv, Bounds, Nil, NEW n \in Nodes, NEW current \in SUBSET Nodes,
         NEW inputs \in BOOLEAN, BaselineStep(n, current, inputs)
  PROVE  SchedulerInv'
  <1> DEFINE out == baselineStep(n, current, inputs)
             i == Counted(current)
             rest == <<root, obs, height, req, timed, life, done, active, budget>>
  <1>1. /\ op.pc = "decide" /\ out.record.baseline.sequence <= MaxOffer
        /\ initial' = out.record /\ op' = Idle /\ UNCHANGED rest
        /\ exec' = IF out.publish
                   THEN [exec EXCEPT ![out.record.offer.target].offer = out.record.offer] ELSE exec
    BY DEF BaselineStep, Report
  <1>2. /\ Types /\ LedgerInv /\ HistoryInv /\ OutcomeInv /\ initial \in Initial /\ Books(initial)
        /\ initial.baseline # None => Conserved(initial.baseline)
    BY Parts DEF SchedulerInv, LedgerInv
  <1>3. /\ Result(i, out.record) /\ (out.publish => out.record.offer \in Offer)
    BY <1>1, <1>2, Stepped
  <1>4. Books(i) /\ i.baseline \in Baseline /\ i.override = initial.override
    <2> DEFINE k == baselined(initial)
    <2>1. k \in Initial /\ k.baseline \in Baseline /\ Conserved(k.baseline) /\ k.override = initial.override
      BY <1>2, BaselinedRecord
    <2>2. Books(k) BY <1>2, BooksBaselined
    <2>3. i = accountBaselineReceipts(k, current) BY DEF Counted
    <2> HIDE DEF k, i
    <2>4. Books(i) BY <1>2, <2>1, <2>2, <2>3, BooksAccounted
    <2>5. i.baseline \in Baseline /\ i.override = k.override BY <1>2, <2>1, <2>3, AccountedRecord
    <2> QED BY <2>1, <2>4, <2>5
  <1> HIDE DEF out, i
  <1>5. /\ exec' \in [Nodes -> Execution]
        /\ \A m \in Nodes : /\ exec'[m].last = exec[m].last /\ exec'[m].armed = exec[m].armed
                            /\ exec'[m].completed = exec[m].completed
    <2>1. CASE out.publish
      <3>1. out.record.offer.target \in Nodes BY <1>3, <2>1 DEF Offer
      <3> QED BY <1>1, <1>2, <1>3, <2>1, <3>1, Publishing
    <2>2. CASE ~out.publish BY <1>1, <1>2, <2>2, Parts
    <2> QED BY <2>1, <2>2
  <1>6. initial' \in Initial /\ initial'.override = initial.override
    BY <1>1, <1>3, <1>4 DEF Result, SameReceipts
  <1>7. Types' BY <1>1, <1>2, <1>5, <1>6, IdleTypes, Parts, TypesNext
  <1>8. Books(initial')
    <2>1. i.baseline # None /\ initial'.baseline # None
      BY <1>1, <1>3, <1>4 DEF Result, SameReceipts, Nil
    <2>2. SameBooks(i, initial') BY <1>1, <1>3, <2>1 DEF Result, SameReceipts, SameBooks
    <2> QED BY <1>4, <2>2, BooksAlike
  <1>9. Conserved(initial'.baseline) BY <1>1, <1>3 DEF Result
  <1>10. LedgerInv' BY <1>1, <1>2, <1>5, <1>8, <1>9, Steady
  <1>11. OutcomeInv' BY <1>1, <1>2, <1>6, OutcomeKept
  <1> QED BY <1>7, <1>10, <1>11 DEF SchedulerInv

LEMMA UnreportedStep ==
  ASSUME SchedulerInv, Bounds, Nil, PublishUnreported
  PROVE  SchedulerInv'
  <1> DEFINE rest == <<root, initial, obs, height, req, timed, life, done, active>>
  <1>1. /\ Types /\ LedgerInv /\ OutcomeInv /\ initial \in Initial
        /\ initial.baseline # None => Conserved(initial.baseline)
    BY Parts DEF SchedulerInv, LedgerInv
  <1>2. op.pc = "decide" /\ Take("Crash") /\ op' = Idle /\ UNCHANGED rest BY DEF PublishUnreported
  <1>3. \E o \in Offer : exec' = [exec EXCEPT ![o.target].offer = o]
    <2>1. CASE gated
      <3>1. bootstrapped(TRUE).publish => bootstrapped(TRUE).record.offer \in Offer
        BY <1>1, <1>2, <2>1, Bootstraps
      <3> QED BY <2>1, <3>1 DEF PublishUnreported
    <2>2. CASE ~gated
      <3>1. Target \in Nodes BY Numbers
      <3>2. baselineStep(Target, Nodes, TRUE).publish =>
              baselineStep(Target, Nodes, TRUE).record.offer \in Offer
        BY <1>1, <1>2, <3>1, Stepped
      <3> QED BY <2>2, <3>2 DEF PublishUnreported
    <2> QED BY <2>1, <2>2
  <1>4. PICK o \in Offer : exec' = [exec EXCEPT ![o.target].offer = o] BY <1>3
  <1>5. o.target \in Nodes BY DEF Offer
  <1>6. /\ exec' \in [Nodes -> Execution]
        /\ \A m \in Nodes : /\ exec'[m].last = exec[m].last /\ exec'[m].armed = exec[m].armed
                            /\ exec'[m].completed = exec[m].completed
    BY <1>1, <1>4, <1>5, Publishing
  <1>7. budget' \in [Kinds -> Nat] BY <1>1, <1>2, Taken DEF Kinds
  <1>8. Types' BY <1>1, <1>2, <1>6, <1>7, IdleTypes, Parts, TypesNext
  <1>9. LedgerInv' BY <1>1, <1>2, <1>6, Steady DEF LedgerInv
  <1>10. OutcomeInv' BY <1>1, <1>2, OutcomeKept
  <1> QED BY <1>8, <1>9, <1>10 DEF SchedulerInv

-----------------------------------------------------------------------------
(* The steps of the override controller, of the workers, of users and of time *)

LEMMA RequestFields ==
  ASSUME Types, NEW r \in Requests
  PROVE  /\ req[r] \in Request /\ req[r].adm \in BOOLEAN
         /\ req[r].phase \in {"", "Pending", "Active", "Completed", "Expired", "Cancelled"}
         /\ req[r].state \in {"absent", "live", "deleting", "gone"}
  BY DEF Types, TypeOK, Request

\* A request keeps what became of it while it exists, and does not come back.
LEMMA RequestStep ==
  ASSUME SchedulerInv, Bounds, UNCHANGED <<initial, exec, done, active>>, Types',
         \A r \in Requests :
           /\ req[r].adm /\ req[r].state # "absent" => req'[r].adm
           /\ req'[r].adm => req'[r].phase \in {"Active", "Completed", "Cancelled"}
           /\ req[r].state # "absent" => req'[r].state # "absent"
           /\ req'[r].state \in {"live", "deleting"} =>
                req[r].state \in {"live", "deleting"} \/ req[r].state = "absent"
  PROVE  SchedulerInv'
  <1>1. LedgerInv' BY LedgerKept DEF SchedulerInv
  <1>2. \A r \in Requests : /\ active[r] = 1 => req[r].state # "absent" /\ req'[r].state # "absent"
                            /\ active[r] <= 1
    BY DEF SchedulerInv, OutcomeInv, OverrideOutcomeRetained
  <1>3. ASSUME NEW r \in Requests, active[r] = 1, exists(r)',
               initial.override = None \/ initial.override.request # r
        PROVE  req'[r].adm /\ req'[r].phase \notin {"", "Pending", "Expired"}
    <2>1. exists(r) BY <1>2, <1>3 DEF exists
    <2>2. req[r].adm BY <1>3, <2>1 DEF SchedulerInv, OutcomeInv, OverrideOutcomeRetained
    <2> QED BY <1>2, <1>3, <2>2
  <1>4. OverrideOutcomeRetained' BY <1>2, <1>3 DEF OverrideOutcomeRetained
  <1>5. OutcomeInv' BY <1>2, <1>4 DEF OutcomeInv
  <1> QED BY <1>1, <1>5 DEF SchedulerInv

LEMMA OverridePhases ==
  ASSUME life.copy \in Request
  PROVE  /\ overridePhase \in {"", "Pending", "Active", "Completed", "Expired", "Cancelled"}
         /\ life.active => overridePhase \in {"Active", "Completed", "Cancelled"}
         /\ life.copy.adm /\ life.copy.phase \in {"Active", "Completed", "Cancelled"} =>
              overridePhase \in {"Active", "Completed", "Cancelled"}
  BY DEF overridePhase, overrideTerminal, Request

LEMMA ControllerStep ==
  ASSUME SchedulerInv, Bounds, OverrideController
  PROVE  SchedulerInv'
  <1>1. Types BY DEF SchedulerInv
  <1>2. UNCHANGED others
    BY DEF OverrideController, ReadRequest, ReadInitial, ApplyStatus, SetFinalizer, AbortLife
  <1>3. ASSUME req' \in [Requests -> Request], life' \in Life,
               life'.pc # "idle" => life'.req \in Requests /\ life'.copy \in Request
        PROVE  Types'
    BY <1>1, <1>2, <1>3, Parts, TypesNext DEF others
  <1>4. \A r \in Requests : req[r].adm => req[r].phase \in {"Active", "Completed", "Cancelled"}
    BY DEF SchedulerInv, OutcomeInv
  <1>5. CASE UNCHANGED req
    <2>1. life' \in Life /\ (life'.pc # "idle" => life'.req \in Requests /\ life'.copy \in Request)
      <3>1. CASE \E r \in Requests : ReadRequest(r)
        <4>1. PICK r \in Requests : ReadRequest(r) BY <3>1
        <4>2. req[r] \in Request BY <1>1, RequestFields
        <4> QED BY <4>1, <4>2 DEF ReadRequest, NoLife, Life
      <3>2. CASE ReadInitial
        <4> DEFINE a == initial.override # None /\ initial.override.request = life.req
        <4>1. life' = [life EXCEPT !.pc = "status", !.active = a] BY <3>2 DEF ReadInitial
        <4>2. a \in BOOLEAN OBVIOUS
        <4>3. life.pc # "idle" /\ life \in Life BY <1>1, <3>2, Parts DEF ReadInitial
        <4> HIDE DEF a
        <4>4. life' \in Life /\ life'.req = life.req /\ life'.copy = life.copy
          BY <4>1, <4>2, <4>3 DEF Life
        <4> QED BY <1>1, <4>3, <4>4, Parts
      <3>3. CASE ApplyStatus
        <4>1. life' = [life EXCEPT !.pc = "finalizer", !.copy = req[life.req]] /\ life.pc = "status"
          BY <1>5, <3>3 DEF ApplyStatus
        <4>2. life \in Life /\ life.req \in Requests BY <1>1, <4>1, Parts
        <4>3. req[life.req] \in Request BY <1>1, <4>2, RequestFields
        <4>4. life' \in Life /\ life'.req = life.req /\ life'.copy = req[life.req]
          BY <4>1, <4>2, <4>3 DEF Life
        <4> QED BY <4>2, <4>3, <4>4
      <3>4. CASE SetFinalizer \/ AbortLife BY <3>4, IdleTypes DEF SetFinalizer, AbortLife
      <3> QED BY <3>1, <3>2, <3>3, <3>4 DEF OverrideController
    <2>2. Types' BY <1>1, <1>3, <1>5, <2>1, Parts
    <2> QED BY <1>2, <1>4, <1>5, <2>2, RequestStep DEF others
  <1>6. CASE ApplyStatus
    <2> DEFINE q == life.req
               p == overridePhase
               a == req[q].adm \/ life.active
               v == [req[q] EXCEPT !.phase = p, !.adm = a]
    <2>1. life.pc = "status" /\ req[q] = life.copy BY <1>6 DEF ApplyStatus
    <2>2. life \in Life /\ q \in Requests /\ life.copy \in Request BY <1>1, <2>1, Parts
    <2>3. life.active \in BOOLEAN BY <2>2 DEF Life
    <2>4. /\ req[q] \in Request /\ req[q].adm \in BOOLEAN /\ a \in BOOLEAN
      BY <1>1, <2>2, <2>3, RequestFields
    <2>5. /\ p \in {"", "Pending", "Active", "Completed", "Expired", "Cancelled"}
          /\ a => p \in {"Active", "Completed", "Cancelled"}
      BY <1>4, <2>1, <2>2, OverridePhases
    <2>6. req' = [req EXCEPT ![q] = v]
      <3>1. req' = [req EXCEPT ![q].phase = p, ![q].adm = @ \/ life.active] BY <1>6 DEF ApplyStatus
      <3>2. req \in [Requests -> Request] BY <1>1, Parts
      <3> HIDE DEF q, p
      <3> QED BY <2>2, <3>1, <3>2 DEF Request
    <2> HIDE DEF p, a
    <2>7. v \in Request /\ v.phase = p /\ v.adm = a /\ v.state = req[q].state
      BY <2>4, <2>5 DEF Request
    <2> HIDE DEF v, q
    <2>8. req' \in [Requests -> Request] /\ req'[q] = v /\ \A r \in Requests : r # q => req'[r] = req[r]
      <3>1. req \in [Requests -> Request] BY <1>1, Parts
      <3> QED BY <2>2, <2>6, <2>7, <3>1
    <2>9. life' = [life EXCEPT !.pc = "finalizer", !.copy = v]
      BY <1>6, <2>8 DEF ApplyStatus, q
    <2>10. life' \in Life /\ life'.req = q /\ life'.copy = v
      BY <2>2, <2>7, <2>9 DEF Life, q
    <2>11. Types' BY <1>3, <2>2, <2>7, <2>8, <2>10
    <2>12. ASSUME NEW r \in Requests
           PROVE  /\ req[r].adm => req'[r].adm
                  /\ req'[r].adm => req'[r].phase \in {"Active", "Completed", "Cancelled"}
                  /\ req'[r].state = req[r].state
      <3>1. CASE r = q
        <4>1. req[q].adm => a BY DEF a, q
        <4> QED BY <2>5, <2>7, <2>8, <3>1, <4>1
      <3>2. CASE r # q BY <1>4, <2>8, <3>2
      <3> QED BY <3>1, <3>2
    <2> QED BY <1>2, <2>11, <2>12, RequestStep DEF others
  <1>7. CASE SetFinalizer
    <2> DEFINE q == life.req
               closed == ~life.active /\ overrideTerminal(life.copy.phase)
               x == req[q]
               s == IF x.state = "deleting" THEN "gone" ELSE x.state
               f == x.fin \/ x.state = "live"
               v == IF closed THEN [x EXCEPT !.fin = FALSE, !.state = s] ELSE [x EXCEPT !.fin = f]
    <2>1. life.pc = "finalizer" /\ life' = NoLife /\ req' = [req EXCEPT ![q] = v]
      <3>1. life.copy = x BY <1>7 DEF SetFinalizer
      <3> QED BY <1>7, <3>1 DEF SetFinalizer
    <2>2. q \in Requests /\ req \in [Requests -> Request] BY <1>1, <2>1, Parts
    <2>3. /\ x \in Request /\ s \in {"absent", "live", "gone"} /\ (s = "absent" => x.state = "absent")
          /\ s = "live" => x.state = "live"
          /\ f \in BOOLEAN
      BY <1>1, <2>2, RequestFields DEF Request
    <2> HIDE DEF s, f, x
    <2>4. /\ v \in Request /\ v.adm = x.adm /\ v.phase = x.phase /\ v.state \in {s, x.state}
      <3> HIDE DEF closed
      <3>1. CASE closed BY <2>3, <3>1 DEF Request
      <3>2. CASE ~closed BY <2>3, <3>2 DEF Request
      <3> QED BY <3>1, <3>2
    <2> HIDE DEF closed, v
    <2>5. /\ req' \in [Requests -> Request] /\ req'[q] = v /\ req[q] = x
          /\ \A r \in Requests : r # q => req'[r] = req[r]
      BY <2>1, <2>2, <2>4 DEF x
    <2> HIDE DEF q
    <2>6. Types' BY <1>3, <2>1, <2>5, IdleTypes
    <2>7. ASSUME NEW r \in Requests
          PROVE  /\ req[r].adm => req'[r].adm
                 /\ req'[r].adm => req'[r].phase \in {"Active", "Completed", "Cancelled"}
                 /\ req[r].state # "absent" => req'[r].state # "absent"
                 /\ req'[r].state \in {"live", "deleting"} => req[r].state \in {"live", "deleting"}
      <3>1. CASE r = q BY <1>4, <2>2, <2>3, <2>4, <2>5, <3>1
      <3>2. CASE r # q BY <1>4, <2>5, <3>2
      <3> QED BY <3>1, <3>2
    <2> QED BY <1>2, <2>6, <2>7, RequestStep DEF others
  <1> QED BY <1>5, <1>6, <1>7 DEF OverrideController, ReadRequest, ReadInitial, AbortLife

LEMMA UserStep ==
  ASSUME SchedulerInv, Bounds, NEW q \in Requests,
         CreateOverride(q) \/ DeleteOverride(q) \/ EditSchedule(q)
  PROVE  SchedulerInv'
  <1> DEFINE x == req[q]
             v == req'[q]
  <1>1. Types /\ req \in [Requests -> Request] /\ x \in Request BY Parts, RequestFields DEF SchedulerInv
  <1>2. \A r \in Requests : req[r].adm => req[r].phase \in {"Active", "Completed", "Cancelled"}
    BY DEF SchedulerInv, OutcomeInv
  <1>3. /\ UNCHANGED <<initial, exec, done, active, root, obs, height, op, life, timed>>
        /\ budget' \in [Kinds -> Nat] /\ req' = [req EXCEPT ![q] = v]
        /\ \/ x.state = "absent" /\ v = [NoRequest EXCEPT !.state = "live"]
           \/ x.state = "live" /\ v = [x EXCEPT !.state = IF x.fin THEN "deleting" ELSE "gone"]
           \/ x.state = "live" /\ v = [x EXCEPT !.source = FALSE]
    <2>1. CASE CreateOverride(q)
      <3>1. budget' \in [Kinds -> Nat] BY <1>1, <2>1, Parts DEF CreateOverride
      <3> QED BY <1>1, <2>1, <3>1 DEF CreateOverride, state
    <2>2. CASE DeleteOverride(q)
      <3>1. budget' \in [Kinds -> Nat] BY <1>1, <2>2, Taken DEF DeleteOverride, Kinds
      <3> QED BY <1>1, <2>2, <3>1 DEF DeleteOverride, state
    <2>3. CASE EditSchedule(q)
      <3>1. budget' \in [Kinds -> Nat] BY <1>1, <2>3, Taken DEF EditSchedule, Kinds
      <3> QED BY <1>1, <2>3, <3>1 DEF EditSchedule, state
    <2> QED BY <2>1, <2>2, <2>3
  <1>4. /\ v \in Request /\ v.state # "absent" /\ (v.adm => x.adm /\ v.phase = x.phase)
        /\ v.state \in {"live", "deleting"} => x.state \in {"live", "deleting", "absent"}
        /\ x.adm /\ x.state # "absent" => v.adm
    <2> HIDE DEF v, x
    <2> QED BY <1>1, <1>3 DEF Request, NoRequest
  <1>5. req' \in [Requests -> Request] /\ \A r \in Requests : r # q => req'[r] = req[r]
    <2> HIDE DEF v
    <2> QED BY <1>1, <1>3, <1>4
  <1>6. Types' BY <1>1, <1>3, <1>5, Parts, TypesNext
  <1>7. ASSUME NEW r \in Requests
        PROVE  /\ req[r].adm /\ req[r].state # "absent" => req'[r].adm
               /\ req'[r].adm => req'[r].phase \in {"Active", "Completed", "Cancelled"}
               /\ req[r].state # "absent" => req'[r].state # "absent"
               /\ req'[r].state \in {"live", "deleting"} =>
                    req[r].state \in {"live", "deleting"} \/ req[r].state = "absent"
    <2>1. CASE r = q BY <1>2, <1>4, <2>1
    <2>2. CASE r # q BY <1>2, <1>5, <2>2
    <2> QED BY <2>1, <2>2
  <1> QED BY <1>3, <1>6, <1>7, RequestStep

\* Time, observations and edits of the network leave the counters and the receipts.
LEMMA TimeStep ==
  ASSUME SchedulerInv, Bounds,
         \/ Due \/ CeilingDeadline \/ Expire \/ AdvanceGate \/ EditRoot
         \/ \E n \in Nodes : Observe(n) \/ GrowOld(n)
  PROVE  SchedulerInv'
  <1>1. Types /\ initial \in Initial BY Parts DEF SchedulerInv
  <1>2. UNCHANGED <<exec, height, op, life, done, active, req>>
    BY DEF Due, CeilingDeadline, Expire, AdvanceGate, EditRoot, Observe, GrowOld, state, fixed
  <1>3. initial' \in Initial /\ Alike(initial, initial')
    <2>1. CASE UNCHANGED initial BY <1>1, <2>1 DEF Alike
    <2>2. CASE Due BY <1>1, <2>2, Updates DEF Due
    <2>3. CASE CeilingDeadline BY <1>1, <2>3, Updates DEF CeilingDeadline
    <2> QED BY <2>1, <2>2, <2>3 DEF Expire, AdvanceGate, EditRoot, Observe, GrowOld, fixed
  <1>4. root' \in Root
    <2>1. CASE UNCHANGED root BY <1>1, <2>1, Parts
    <2>2. CASE AdvanceGate
      <3> DEFINE g == root.gate + 1
      <3>1. root \in Root /\ root' = [root EXCEPT !.gate = g] /\ root.gate <= Len(Ceilings)
        BY <1>1, <2>2, Parts DEF AdvanceGate
      <3>2. root.gate \in Nat /\ root.gate >= 1 BY <3>1, Numbers DEF Root
      <3>3. g \in 1..Len(Ceilings) + 1 BY <3>1, <3>2, Numbers
      <3> HIDE DEF g
      <3> QED BY <3>1, <3>3 DEF Root
    <2>3. CASE EditRoot
      <3>1. root \in Root BY <1>1, Parts
      <3>2. /\ root.policy + 1 \in Nat /\ (IF root.producer = 0 THEN 2 ELSE 0) \in Nat
            /\ (~root.ready) \in BOOLEAN
        BY <3>1, Counts DEF Root
      <3>3. \/ \E m \in {"Running", "Paused", "Stopped", "Failed"} : root' = [root EXCEPT !.mode = m]
            \/ \E p \in Nat : root' = [root EXCEPT !.policy = p]
            \/ \E p \in Nat, q \in Nat : root' = [root EXCEPT !.producer = q, !.policy = p]
            \/ \E b \in BOOLEAN : root' = [root EXCEPT !.ready = b]
        BY <2>3, <3>2 DEF EditRoot
      <3> QED BY <3>1, <3>3 DEF Root
    <2> QED BY <2>1, <2>2, <2>3 DEF Due, CeilingDeadline, Expire, Observe, GrowOld, state, fixed
  <1>5. budget' \in [Kinds -> Nat]
    <2>1. CASE UNCHANGED budget BY <1>1, <2>1, Parts
    <2>2. CASE \E k \in Kinds : Take(k) BY <1>1, <2>2, Taken
    <2>3. UNCHANGED budget \/ \E k \in Kinds : Take(k)
      BY DEF Due, CeilingDeadline, Expire, AdvanceGate, EditRoot, Observe, GrowOld, Kinds
    <2> QED BY <2>1, <2>2, <2>3
  <1>6. obs' \in [Nodes -> Observation \cup {None}]
    <2>0. obs \in [Nodes -> Observation \cup {None}] BY <1>1, Parts
    <2>1. CASE UNCHANGED obs BY <2>0, <2>1
    <2>2. CASE \E n \in Nodes : Observe(n)
      <3>1. MinerBlocks \in Nat
        <4> DEFINE S == {o \in done[Target] : o.wallet = "miner"}
        <4>1. S \in SUBSET Offer BY <1>1, Known, Numbers
        <4>2. MinerBlocks = Cardinality(BlocksOf(S)) BY DEF MinerBlocks, BlocksOf
        <4> HIDE DEF S
        <4> QED BY <4>1, <4>2, FiniteBlocks
      <3>2. height \in Nat BY <1>1, Parts, Numbers
      <3>3. PICK n \in Nodes, m \in {0, MinerBlocks} :
              obs' = [obs EXCEPT ![n] = [height |-> height, mature |-> m, fresh |-> TRUE, later |-> TRUE]]
        BY <2>2 DEF Observe
      <3>4. m \in Nat BY <3>1
      <3>5. [height |-> height, mature |-> m, fresh |-> TRUE, later |-> TRUE] \in Observation
        BY <3>2, <3>4 DEF Observation
      <3> QED BY <2>0, <3>3, <3>5
    <2>3. CASE \E n \in Nodes : GrowOld(n)
      <3>1. PICK n \in Nodes : obs[n] # None /\ obs' = [obs EXCEPT ![n].fresh = FALSE]
        BY <2>3 DEF GrowOld, observed
      <3>2. obs[n] \in Observation BY <2>0, <3>1
      <3> QED BY <2>0, <3>1, <3>2 DEF Observation
    <2> QED BY <2>1, <2>2, <2>3 DEF Due, CeilingDeadline, Expire, AdvanceGate, EditRoot
  <1>7. timed' \in [offers : SUBSET (1..MaxOffer), ended : SUBSET Requests, overdue : SUBSET Requests]
    <2>0. timed \in [offers : SUBSET (1..MaxOffer), ended : SUBSET Requests, overdue : SUBSET Requests]
      BY <1>1, Parts
    <2>1. CASE UNCHANGED timed BY <2>0, <2>1
    <2>2. CASE Expire BY <2>0, <2>2 DEF Expire
    <2> QED BY <2>1, <2>2 DEF Due, CeilingDeadline, AdvanceGate, EditRoot, Observe, GrowOld, fixed
  <1>8. Types' BY <1>1, <1>2, <1>3, <1>4, <1>5, <1>6, <1>7, Parts, TypesNext
  <1>9. LedgerInv' BY <1>2, <1>3, LedgerKept DEF SchedulerInv, Alike
  <1>10. OutcomeInv' BY <1>2, <1>3, OutcomeKept DEF SchedulerInv, Alike
  <1> QED BY <1>8, <1>9, <1>10 DEF SchedulerInv

\* A worker arms the next offer once the last one is counted.
LEMMA ArmStep ==
  ASSUME SchedulerInv, Bounds, NEW m \in Nodes, Arm(m)
  PROVE  SchedulerInv'
  <1> DEFINE o == exec[m].offer
  <1>1. /\ o # None /\ o.number > exec[m].completed /\ generationAccounted(initial, m)
        /\ exec' = [exec EXCEPT ![m].armed = o] /\ UNCHANGED <<fixed, obs, height, done, budget>>
        /\ o.mode = "Bootstrap" => m = Target
    BY DEF Arm, offerAuthorized
  <1>2. Types /\ HistoryInv /\ Books(initial) BY DEF SchedulerInv, LedgerInv
  <1>3. o \in Offer BY <1>1, <1>2, Known
  <1>4. exec \in [Nodes -> Execution] /\ exec[m] \in Execution BY <1>2, Parts
  <1> HIDE DEF o
  <1>5. /\ exec' \in [Nodes -> Execution]
        /\ \A n \in Nodes : /\ exec'[n].last = exec[n].last /\ exec'[n].completed = exec[n].completed
                            /\ exec'[n].armed = IF n = m THEN o ELSE exec[n].armed
    BY <1>1, <1>3, <1>4 DEF Execution
  <1>6. Types' BY <1>1, <1>2, <1>5, Parts, TypesNext DEF fixed
  <1>7. HistoryInv' BY <1>1, <1>2, <1>5 DEF HistoryInv
  <1>8. Books(initial)'
    <2>1. Target \in Nodes BY Numbers
    <2>2. UNCHANGED <<done, initial>> BY <1>1 DEF fixed
    <2>3. Boot' = Boot /\ \A n \in Nodes : Base(n)' = Base(n) BY <2>1, <2>2 DEF Boot, Base
    <2>4. \A n \in Nodes : Cursor(initial, n)' = Cursor(initial, n) BY <2>2 DEF Cursor
    <2>5. Acked(initial)' = Acked(initial) BY <2>3, <2>4 DEF Acked
    <2>6. BlocksOf(Paid(initial.accounted))' = BlocksOf(Paid(initial.accounted))
      BY <2>2, <2>3 DEF Paid, BlocksOf
    <2>7. \A n \in Nodes : generationAccounted(initial, n)' <=> generationAccounted(initial, n)
      BY <1>5, <2>2 DEF generationAccounted
    <2> QED BY <1>1, <1>2, <1>5, <2>1, <2>2, <2>3, <2>4, <2>5, <2>6, <2>7 DEF Books
  <1>9. LedgerInv' BY <1>1, <1>7, <1>8 DEF SchedulerInv, LedgerInv, fixed, Conserved, Undecided
  <1>10. OutcomeInv' BY <1>1, OutcomeKept DEF SchedulerInv, fixed
  <1> QED BY <1>6, <1>9, <1>10 DEF SchedulerInv

\* A receipt replaces the last one, which was counted.
LEMMA ReceiptStep ==
  ASSUME SchedulerInv, Bounds, NEW m \in Nodes, Receipt(m)
  PROVE  SchedulerInv'
  <1> DEFINE o == exec[m].armed
             h == IF height + o.blocks <= MaxHeight THEN height + o.blocks ELSE height
             d == IF obs[m] = None THEN None ELSE [obs[m] EXCEPT !.later = FALSE]
  <1>1. /\ o # None /\ height' = h /\ UNCHANGED <<fixed, budget>>
        /\ exec' = [exec EXCEPT ![m].armed = None, ![m].last = o, ![m].completed = o.number]
        /\ done' = [done EXCEPT ![m] = @ \cup {o}]
        /\ obs' = [obs EXCEPT ![m] = d]
    BY DEF Receipt
  <1>2. Types /\ HistoryInv /\ Books(initial) /\ initial \in Initial BY Parts DEF SchedulerInv, LedgerInv
  <1>3. o \in Offer /\ o.number \in Nat /\ o.blocks \in Nat /\ o.mode \in {"Bootstrap", "Baseline"}
    BY <1>1, <1>2, Known
  <1>4. exec \in [Nodes -> Execution] /\ done \in [Nodes -> SUBSET Offer] BY <1>2, Parts
  <1>5. h \in 0..MaxHeight
    <2>1. height \in 0..MaxHeight BY <1>2, Parts
    <2> HIDE DEF o
    <2> QED BY <1>3, <2>1, Numbers
  <1>6. d \in Observation \cup {None}
    <2>1. obs[m] \in Observation \cup {None} BY <1>2, Parts
    <2> QED BY <2>1 DEF Observation
  <1>7. /\ o.number > exec[m].completed /\ (o.mode = "Bootstrap" => m = Target)
        /\ generationAccounted(initial, m)
    BY <1>1, <1>2 DEF HistoryInv, Books
  <1> HIDE DEF o, h, d
  <1>8. /\ exec' \in [Nodes -> Execution]
        /\ exec'[m].last = o /\ exec'[m].completed = o.number /\ exec'[m].armed = None
        /\ \A n \in Nodes : n # m => exec'[n] = exec[n]
    BY <1>1, <1>3, <1>4 DEF Execution
  <1>9. /\ done' \in [Nodes -> SUBSET Offer] /\ done'[m] = done[m] \cup {o}
        /\ \A n \in Nodes : n # m => done'[n] = done[n]
    BY <1>1, <1>3, <1>4
  <1>10. obs' \in [Nodes -> Observation \cup {None}] BY <1>1, <1>2, <1>6, Parts
  <1>11. Types' BY <1>1, <1>2, <1>5, <1>8, <1>9, <1>10, Parts, TypesNext DEF fixed
  <1>12. UNCHANGED initial /\ \A n \in Nodes : Cursor(initial, n)' = Cursor(initial, n)
    BY <1>1 DEF fixed, Cursor
  <1>13. o \notin done[m] /\ \A p \in done[m] : p.number < o.number
    <2>1. \A p \in done[m] : p.number <= exec[m].completed BY <1>2 DEF HistoryInv
    <2>2. \A p \in done[m] : p.number \in Nat BY <1>2, Known
    <2>3. exec[m].completed \in Nat BY <1>2, Known
    <2>4. \A p \in done[m] : p.number < o.number BY <1>3, <1>7, <2>1, <2>2, <2>3
    <2> QED BY <1>3, <2>4
  <1>14. HistoryInv'
    <2>1. ASSUME NEW p \in done'[m] PROVE p.number <= o.number /\ (p.mode = "Bootstrap" => m = Target)
      <3>1. CASE p = o BY <1>3, <1>7, <3>1
      <3>2. CASE p \in done[m]
        <4>1. p.number \in Nat BY <1>2, <3>2, Known
        <4> QED BY <1>2, <1>3, <1>13, <3>2, <4>1 DEF HistoryInv
      <3> QED BY <1>9, <3>1, <3>2
    <2>2. o \in done'[m] BY <1>9
    <2>3. o # None BY <1>1
    <2> QED BY <1>2, <1>8, <1>9, <2>1, <2>2, <2>3 DEF HistoryInv
  \* What was done before is counted.
  <1>15. \A p \in done[m] : /\ p.mode = "Baseline" => p.number <= Cursor(initial, m)
                            /\ p.mode = "Bootstrap" => p.number <= initial.accounted
    <2> SUFFICES ASSUME NEW p \in done[m]
                 PROVE  /\ p.mode = "Baseline" => p.number <= Cursor(initial, m)
                        /\ p.mode = "Bootstrap" => p.number <= initial.accounted
      OBVIOUS
    <2> DEFINE l == exec[m].last
    <2>1. /\ p.number \in Nat /\ exec[m].completed \in Nat /\ initial.accounted \in Nat
          /\ Cursor(initial, m) \in Nat /\ p.number <= exec[m].completed
          /\ (p.mode = "Bootstrap" => m = Target)
      BY <1>2, Known, Fields, CursorType DEF HistoryInv
    <2>2. l # None BY <1>2 DEF HistoryInv
    <2>3. /\ p.mode = "Baseline" /\ p.number > Cursor(initial, m) => p = l
          /\ p.mode = "Bootstrap" /\ p.number > initial.accounted => p = l
      BY <1>2, <2>1 DEF Books, Base, Boot
    <2>4. CASE l.mode = "Bootstrap"
      <3>1. initial.accounted >= exec[m].completed BY <1>7, <2>2, <2>4 DEF generationAccounted
      <3> HIDE DEF l
      <3>2. p.number <= initial.accounted BY <2>1, <3>1
      <3>3. p.mode = "Baseline" => p # l BY <2>4
      <3> QED BY <2>1, <2>3, <3>2, <3>3
    <2>5. CASE l.mode # "Bootstrap"
      <3>1. initial.baseline # None /\ initial.baseline.cursor[m] >= exec[m].completed
        BY <1>7, <2>2, <2>5 DEF generationAccounted
      <3>2. Cursor(initial, m) >= exec[m].completed BY <3>1 DEF Cursor
      <3> HIDE DEF l
      <3>3. p.number <= Cursor(initial, m) BY <2>1, <3>2
      <3>4. p.mode = "Bootstrap" => p # l BY <2>5
      <3> QED BY <2>1, <2>3, <3>3, <3>4
    <2> QED BY <2>4, <2>5
  <1>16. Target \in Nodes BY Numbers
  \* The new receipt is beyond the counters.
  <1>17. /\ initial.accounted \in Nat /\ \A n \in Nodes : Cursor(initial, n) \in Nat
         /\ \A n \in Nodes : exec[n].completed \in Nat /\ Cursor(initial, n) <= exec[n].completed
         /\ initial.accounted <= exec[Target].completed
    BY <1>2, <1>16, Fields, CursorType, Known DEF Books
  <1>18. o.number > Cursor(initial, m) /\ (m = Target => o.number > initial.accounted)
    <2>1. Cursor(initial, m) <= exec[m].completed /\ Cursor(initial, m) \in Nat
          /\ exec[m].completed \in Nat
      BY <1>17
    <2>2. m = Target => initial.accounted <= exec[m].completed BY <1>17
    <2> QED BY <1>3, <1>7, <1>17, <2>1, <2>2
  <1>19. Books(initial)'
    <2>1. initial'.accounted <= exec'[Target].completed
      <3>1. CASE m = Target
        <4>1. exec'[Target].completed = o.number BY <1>8, <3>1
        <4>2. initial.accounted <= o.number BY <1>3, <1>17, <1>18, <3>1
        <4> QED BY <1>12, <4>1, <4>2
      <3>2. CASE m # Target BY <1>8, <1>12, <1>16, <1>17, <3>2
      <3> QED BY <3>1, <3>2
    <2>2. \A n \in Nodes : Cursor(initial, n)' <= exec'[n].completed
      <3> SUFFICES ASSUME NEW n \in Nodes PROVE Cursor(initial, n) <= exec'[n].completed BY <1>12
      <3>1. CASE n = m
        <4>1. exec'[n].completed = o.number BY <1>8, <3>1
        <4>2. Cursor(initial, n) <= o.number BY <1>3, <1>17, <1>18, <3>1
        <4> QED BY <4>1, <4>2
      <3>2. CASE n # m BY <1>8, <1>17, <3>2
      <3> QED BY <3>1, <3>2
    <2>3. \A n \in Nodes : exec'[n].armed # None => generationAccounted(initial, n)'
      <3> SUFFICES ASSUME NEW n \in Nodes, exec'[n].armed # None PROVE generationAccounted(initial, n)'
        OBVIOUS
      <3>1. n # m BY <1>8
      <3>2. exec'[n] = exec[n] BY <1>8, <3>1
      <3> QED BY <1>2, <1>12, <3>2 DEF Books, generationAccounted
    <2>4. Paid(initial.accounted)' = Paid(initial.accounted)
      <3>1. CASE m = Target
        <4>1. ~(o.number <= initial.accounted) BY <1>3, <1>17, <1>18, <3>1
        <4>2. Boot' = {p \in done[m] \cup {o} : p.mode = "Bootstrap"} BY <1>9, <3>1 DEF Boot
        <4> QED BY <1>12, <3>1, <4>1, <4>2 DEF Paid, Boot
      <3>2. CASE m # Target
        <4>1. Boot' = Boot BY <1>9, <1>16, <3>2 DEF Boot
        <4> QED BY <1>12, <4>1 DEF Paid
      <3> QED BY <3>1, <3>2
    <2>5. initial'.funded = Cardinality(BlocksOf(Paid(initial.accounted))')
      <3>1. BlocksOf(Paid(initial.accounted))' = BlocksOf(Paid(initial.accounted))
        BY <2>4 DEF BlocksOf
      <3> QED BY <1>2, <1>12, <3>1 DEF Books
    <2>6. Acked(initial)' = Acked(initial)
      <3>1. ASSUME NEW n \in Nodes
            PROVE  {x \in Base(n) : x.number <= Cursor(initial, n)}'
                   = {x \in Base(n) : x.number <= Cursor(initial, n)}
        <4>1. CASE n = m
          <5>1. ~(o.number <= Cursor(initial, n)) BY <1>3, <1>17, <1>18, <4>1
          <5>2. Base(n)' = {p \in done[m] \cup {o} : p.mode = "Baseline"} BY <1>9, <4>1 DEF Base
          <5> QED BY <1>12, <4>1, <5>1, <5>2 DEF Base
        <4>2. CASE n # m
          <5>1. Base(n)' = Base(n) BY <1>9, <4>2 DEF Base
          <5> QED BY <1>12, <5>1
        <4> QED BY <4>1, <4>2
      <3> QED BY <3>1 DEF Acked
    <2>7. initial'.baseline # None => initial'.baseline.acknowledged = Cardinality(Acked(initial)')
      BY <1>2, <1>12, <2>6 DEF Books
    <2>8. ASSUME NEW n \in Nodes, NEW p \in Base(n)', p.number > Cursor(initial, n)
          PROVE  p = exec'[n].last
      <3>1. CASE n = m
        <4>1. p = o \/ p \in Base(m) BY <1>9, <3>1 DEF Base
        <4>2. p \in Base(m) => p.number <= Cursor(initial, m) /\ p.number \in Nat
          BY <1>2, <1>15, Known DEF Base
        <4>3. p = o BY <1>17, <2>8, <3>1, <4>1, <4>2
        <4> QED BY <1>8, <3>1, <4>3
      <3>2. CASE n # m
        <4>1. p \in Base(n) /\ exec'[n] = exec[n] BY <1>8, <1>9, <3>2 DEF Base
        <4> QED BY <1>2, <2>8, <4>1 DEF Books
      <3> QED BY <3>1, <3>2
    <2>9. ASSUME NEW p \in Boot', p.number > initial.accounted PROVE p = exec'[Target].last
      <3>1. CASE m = Target
        <4>1. p = o \/ p \in Boot BY <1>9, <3>1 DEF Boot
        <4>2. p \in Boot => p.number <= initial.accounted /\ p.number \in Nat
          BY <1>2, <1>15, <3>1, Known DEF Boot
        <4>3. p = o BY <1>17, <2>9, <4>1, <4>2
        <4> QED BY <1>8, <3>1, <4>3
      <3>2. CASE m # Target
        <4>1. p \in Boot /\ exec'[Target] = exec[Target] BY <1>8, <1>9, <1>16, <3>2 DEF Boot
        <4> QED BY <1>2, <2>9, <4>1 DEF Books
      <3> QED BY <3>1, <3>2
    <2> QED BY <1>12, <2>1, <2>2, <2>3, <2>5, <2>7, <2>8, <2>9 DEF Books
  <1>20. LedgerInv' BY <1>12, <1>14, <1>19 DEF SchedulerInv, LedgerInv, Conserved, Undecided
  <1>21. OutcomeInv' BY <1>1, OutcomeKept DEF SchedulerInv, fixed
  <1> QED BY <1>11, <1>20, <1>21 DEF SchedulerInv

-----------------------------------------------------------------------------
(* The invariant is inductive, and says what is promised *)

LEMMA FirstState ==
  ASSUME Bounds, Nil, Init
  PROVE  SchedulerInv
  <1>1. Types
    <2>1. initial \in Initial BY DEF Init, Initial
    <2>2. root \in Root BY Numbers DEF Init, Root
    <2>3. exec \in [Nodes -> Execution] BY DEF Init, Execution
    <2>4. req \in [Requests -> Request] BY DEF Init, NoRequest, Request
    <2>5. height \in 0..MaxHeight BY Numbers DEF Init
    <2>6. budget \in [Kinds -> Nat] BY DEF Init, Bounds
    <2>7. op \in [pc : {"idle", "decide"}, root : Root \cup {None}] /\ op.pc = "idle"
          /\ life \in Life /\ life.pc = "idle"
      BY IdleTypes DEF Init
    <2>8. TypeOK BY <2>1, <2>2, <2>3, <2>4, <2>5, <2>6, <2>7 DEF Init, TypeOK, Life
    <2> QED BY <2>7, <2>8 DEF Types, HeldInv
  <1>2. Target \in Nodes BY Numbers
  <1>3. Books(initial)
    <2>1. Acked(initial) = {} /\ Boot = {} /\ \A n \in Nodes : Base(n) = {}
      BY <1>2 DEF Init, Acked, Boot, Base
    <2>2. BlocksOf(Paid(initial.accounted)) = {} BY <2>1 DEF Paid, BlocksOf
    <2>3. Cardinality(BlocksOf(Paid(initial.accounted))) = 0 BY <2>2, FS_EmptySet
    <2> QED BY <1>2, <2>1, <2>3 DEF Books, Init, Cursor, generationAccounted
  <1>4. HistoryInv BY DEF HistoryInv, Init
  <1>5. LedgerInv BY <1>3, <1>4 DEF LedgerInv, Init
  <1>6. \A r \in Requests : active[r] = 0 /\ req[r].adm = FALSE BY DEF Init, NoRequest
  <1>7. OverrideOutcomeRetained
    <2>1. \A r \in Requests : active[r] <= 1 /\ active[r] # 1 BY <1>6
    <2> QED BY <2>1 DEF OverrideOutcomeRetained
  <1>8. OutcomeInv BY <1>6, <1>7 DEF OutcomeInv
  <1> QED BY <1>1, <1>5, <1>8 DEF SchedulerInv

LEMMA EveryStep ==
  ASSUME SchedulerInv, Bounds, Nil, Next
  PROVE  SchedulerInv'
  <1>1. CASE Scheduler
    BY <1>1, SettledStep, WithdrawStep, ActivateStep, BootstrapStep, BaselineNext, UnreportedStep
    DEF Scheduler
  <1>2. CASE OverrideController BY <1>2, ControllerStep
  <1>3. CASE \E n \in Nodes : Arm(n) \/ Receipt(n) BY <1>3, ArmStep, ReceiptStep
  <1>4. CASE \/ Due \/ CeilingDeadline \/ Expire \/ AdvanceGate \/ EditRoot
             \/ \E n \in Nodes : Observe(n) \/ GrowOld(n)
    BY <1>4, TimeStep
  <1>5. CASE \E r \in Requests : CreateOverride(r) \/ DeleteOverride(r) \/ EditSchedule(r)
    BY <1>5, UserStep
  <1> QED BY <1>1, <1>2, <1>3, <1>4, <1>5 DEF Next

LEMMA NextStep ==
  ASSUME SchedulerInv, Bounds, Nil, [Next]_vars
  PROVE  SchedulerInv'
  <1>1. CASE Next BY <1>1, EveryStep
  <1>2. CASE UNCHANGED vars
    <2>1. UNCHANGED <<root, initial, exec, obs, height, req, timed, op, life, done, active, budget>>
      BY <1>2 DEF vars
    <2>2. Types' BY <2>1 DEF SchedulerInv, Types, TypeOK, HeldInv
    <2>3. LedgerInv' BY <2>1, LedgerKept DEF SchedulerInv
    <2>4. OutcomeInv' BY <2>1, OutcomeKept DEF SchedulerInv
    <2> QED BY <2>2, <2>3, <2>4 DEF SchedulerInv
  <1> QED BY <1>1, <1>2

\* The counters are exact when the books are.
LEMMA Promised ==
  ASSUME SchedulerInv, Bounds
  PROVE  TypeOK /\ OpportunitiesConserved /\ ReceiptsCountedOnce /\ OverrideOutcomeRetained
  <1>1. TypeOK /\ OverrideOutcomeRetained BY DEF SchedulerInv, Types, OutcomeInv
  <1>2. OpportunitiesConserved
    BY DEF SchedulerInv, LedgerInv, OpportunitiesConserved, Conserved, Undecided
  <1>3. ReceiptsCountedOnce
    <2>1. Books(initial) BY DEF SchedulerInv, LedgerInv
    <2> QED BY <2>1 DEF Books, ReceiptsCountedOnce, Cursor, Base, Boot, Paid, BlocksOf, Acked
  <1> QED BY <1>1, <1>2, <1>3
=============================================================================

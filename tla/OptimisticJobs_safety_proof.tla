---------------------- MODULE OptimisticJobs_safety_proof ----------------------
(***************************************************************************)
(* What happens to the retention of a job, for any set of jobs and miners, *)
(* any validated parameters, any refusals and any interleaving: an         *)
(* instance will always decide it, it is settled once and at finality, a   *)
(* resolution stays, the bond that answers for it stays, and a slash       *)
(* serves the client.                                                      *)
(*                                                                         *)
(* The invariant of OptimisticJobs_proof (types and conservation) is       *)
(* strengthened, job by job, with the stage of the job, its money at that  *)
(* stage, the instance ahead of it and the state of the lottery; and with  *)
(* what a batch collected at the start of a phase still is when served.    *)
(***************************************************************************)
EXTENDS OptimisticJobs_proof, FiniteSetTheorems

-----------------------------------------------------------------------------
(* The invariant, job by job.                                               *)
paid(j)     == jobIsPaid(job[j].st)
disputed(j) == jobIsDisputed(job[j].st)
resolved(j) == jobIsResolved(job[j].st)
passed(j)   == job[j].drawn = "passed"
selected(j) == job[j].drawn = "selected"

(* Markers come in order, and only a resolution names its instance.         *)
Staged(j) ==
  /\ resolved(j) => paid(j)
  /\ disputed(j) => paid(j)
  /\ paid(j) => job[j].miner \in Miners
  /\ job[j].drawn # "none" => paid(j)
  /\ ~resolved(j) => job[j].by \in {"none", "expiry"} /\ ~job[j].against

(* Before settlement only the escrow exists.                                *)
Unpaid(j) ==
  ~paid(j) =>
    /\ acct[j].held = 0 /\ acct[j].val = 0 /\ acct[j].team = 0 /\ acct[j].treas = 0
    /\ acct[j].right = 0 /\ acct[j].credit = 0 /\ acct[j].toVal = 0 /\ acct[j].toTeam = 0
    /\ acct[j].toTeamPool = 0 /\ acct[j].toTreasury = 0
    /\ j \notin pendingRelease

(* Until the resolution no bond has moved and no stake has paid.            *)
Undecided0(a) == a.comp = 0 /\ a.bondBack = 0 /\ a.bondForfeit = 0 /\ a.bond <= a.bondIn

Unresolved(j) ==
  /\ ~resolved(j) => Undecided0(acct[j])
  /\ paid(j) /\ ~resolved(j) => acct[j].toClient = 0

(* Nothing beyond the fee, nothing beyond the bond.                         *)
Bounded(a) == a.toClient + a.comp <= a.fee /\ a.bondBack + a.bondForfeit <= a.bondIn

(* The instance ahead.                                                      *)
HasPart(a) == a.held > 0 \/ a.val > 0 \/ a.team > 0 \/ a.treas > 0 \/ a.right > 0

Ahead(j) ==
  /\ acct[j].escrow > 0 => job[j].st = {"open"} /\ Queued("expiry", j)
  /\ disputed(j) /\ ~resolved(j) => Queued("resolve", j) \/ Queued("appeal", j)
  /\ paid(j) /\ ~resolved(j) /\ ~passed(j) => Queued("audit", j) \/ disputed(j)
  /\ (resolved(j) \/ passed(j)) /\ HasPart(acct[j]) => j \in pendingRelease

(* One entry of the lottery, for a settled job it has not let go.           *)
OneDraw(j) ==
  /\ Queued("audit", j) => paid(j) /\ ~passed(j)
  /\ \A e, f \in q["audit"] : e[2] = j /\ f[2] = j => e = f

(* What was undone leaves nothing to pay.                                   *)
Stripped(j) == Undone(j) => acct[j].held = 0 /\ acct[j].right = 0

Final(j) ==
  paid(j) /\ ~resolved(j) /\ ~passed(j) =>
    /\ acct[j].toVal = 0 /\ acct[j].toTeam = 0 /\ acct[j].toTeamPool = 0
    /\ acct[j].toTreasury = 0 /\ acct[j].toClient = 0 /\ acct[j].credit = 0
    /\ j \notin pendingRelease

(* The lottery never forgets a selection: a jury sits, or the draw goes on. *)
Drawn(j) ==
  /\ selected(j) => job[j].by \notin {"silent", "unfounded"}
  /\ selected(j) /\ ~resolved(j) =>
       \/ seat[j].selected
       \/ seat[j].jury # {} /\ disputed(j)
  /\ seat[j].selected => selected(j)
  /\ seat[j].jury # {} => disputed(j)

Bonded(j) == acct[j].held > 0 => Registered(job[j].miner)

JobSafe(j) ==
  /\ Staged(j) /\ Unpaid(j) /\ Unresolved(j) /\ Bounded(acct[j]) /\ Ahead(j) /\ OneDraw(j)
  /\ Stripped(j) /\ Final(j) /\ Drawn(j) /\ Bonded(j)

(* The batch: its entries are still queued, its releases still final, its   *)
(* victims still free of debts.                                             *)
BatchSafe ==
  /\ phase \in Queues => todo \subseteq q[phase]
  /\ phase = "release" => \A e \in todo : resolved(e[2]) \/ passed(e[2])
  /\ phase = "prune" => \A e \in todo, j \in Jobs : acct[j].held > 0 => job[j].miner # e[2]

(* AuditsOpened counts the jobs that are in an audit or a dispute.          *)
Audited == {j \in Jobs : disputed(j) \/ selected(j)}
Counted == IsFiniteSet(Audited) /\ opened = Cardinality(Audited)

Safe == IInv /\ (\A j \in Jobs : JobSafe(j)) /\ BatchSafe /\ Counted

-----------------------------------------------------------------------------
(* What stays of a job a step is not about.                                 *)
SameRecord(k) ==
  /\ job'[k].st = job[k].st /\ job'[k].miner = job[k].miner /\ job'[k].by = job[k].by
  /\ job'[k].against = job[k].against /\ job'[k].drawn = job[k].drawn

SameQueue(n, k) == \A e \in Nat \X Jobs : e[2] = k => (e \in q'[n] <=> e \in q[n])

SameQueues(k) == \A n \in Queues : SameQueue(n, k)

SameMark(k) == k \in pendingRelease' <=> k \in pendingRelease

(* A registered debtor stays registered.                                    *)
StillBonded(k) ==
  acct[k].held > 0 /\ Registered(job[k].miner) => Registered(job[k].miner)'

Apart(k) ==
  /\ SameRecord(k) /\ acct'[k] = acct[k] /\ seat'[k] = seat[k]
  /\ SameQueues(k) /\ SameMark(k) /\ StillBonded(k)

(* A queue that keeps its entries keeps its appointments.                   *)
LEMMA SameQueued ==
  ASSUME NEW n \in Queues, NEW k, q \in [Queues -> SUBSET (Nat \X Jobs)],
         q' \in [Queues -> SUBSET (Nat \X Jobs)], SameQueue(n, k)
  PROVE  Queued(n, k)' <=> Queued(n, k)
BY DEF Queued, SameQueue

(* What a step leaves alone stays safe.                                     *)
LEMMA ApartSafe ==
  ASSUME IInv, q' \in [Queues -> SUBSET (Nat \X Jobs)], NEW k \in Jobs, JobSafe(k), Apart(k)
  PROVE  JobSafe(k)'
<1>1. \A n \in Queues : Queued(n, k)' <=> Queued(n, k)
  BY SameQueued DEF IInv, Apart, SameQueues
<1>2. /\ paid(k)' = paid(k) /\ disputed(k)' = disputed(k) /\ resolved(k)' = resolved(k)
      /\ passed(k)' = passed(k) /\ selected(k)' = selected(k)
  BY DEF Apart, SameRecord, paid, disputed, resolved, passed, selected
<1>3. Staged(k)'
  BY <1>2 DEF JobSafe, Staged, Apart, SameRecord
<1>4. Unpaid(k)' /\ Unresolved(k)' /\ Bounded(acct[k])'
  BY <1>2 DEF JobSafe, Unpaid, Unresolved, Bounded, Undecided0, Apart, SameMark
<1>5. Ahead(k)'
  BY <1>1, <1>2 DEF JobSafe, Ahead, HasPart, Apart, SameMark, SameRecord, Queues
<1>6. OneDraw(k)'
  <2>1. Queued("audit", k)' => paid(k)' /\ ~passed(k)'
    BY <1>1, <1>2 DEF JobSafe, OneDraw, Queues
  <2>2. \A e, f \in q'["audit"] : e[2] = k /\ f[2] = k => e = f
    BY DEF JobSafe, OneDraw, Apart, SameQueues, SameQueue, Queues, IInv
  <2> QED BY <2>1, <2>2 DEF OneDraw
<1>7. Stripped(k)' /\ Final(k)' /\ Drawn(k)'
  BY <1>2 DEF JobSafe, Stripped, Undone, Final, Drawn, Apart, SameRecord, SameMark
<1>8. Bonded(k)'
  BY DEF JobSafe, Bonded, Apart, SameRecord, StillBonded, Registered
<1> QED BY <1>3, <1>4, <1>5, <1>6, <1>7, <1>8 DEF JobSafe

(* The step is about job j.                                                 *)
LEMMA Elsewhere ==
  ASSUME Safe, IInv', NEW j \in Jobs, JobSafe(j)', \A k \in Jobs \ {j} : Apart(k)
  PROVE  \A k \in Jobs : JobSafe(k)'
<1> SUFFICES ASSUME NEW k \in Jobs, k # j PROVE JobSafe(k)'
  OBVIOUS
<1>1. q' \in [Queues -> SUBSET (Nat \X Jobs)]
  BY DEF IInv
<1> QED BY <1>1, ApartSafe DEF Safe

(* The step is about no job.                                                *)
LEMMA Everywhere ==
  ASSUME Safe, IInv', \A k \in Jobs : Apart(k)
  PROVE  \A k \in Jobs : JobSafe(k)'
<1>1. q' \in [Queues -> SUBSET (Nat \X Jobs)]
  BY DEF IInv
<1> QED BY <1>1, ApartSafe DEF Safe

-----------------------------------------------------------------------------
(* The audits.                                                              *)
LEMMA CountedSame ==
  ASSUME Counted, opened' = opened,
         \A k \in Jobs : (disputed(k) \/ selected(k))' <=> (disputed(k) \/ selected(k))
  PROVE  Counted'
<1>1. Audited' = Audited
  BY DEF Audited
<1> QED BY <1>1 DEF Counted

LEMMA CountedOne ==
  ASSUME Counted, NEW j \in Jobs, (disputed(j) \/ selected(j))',
         \A k \in Jobs \ {j} : (disputed(k) \/ selected(k))' <=> (disputed(k) \/ selected(k)),
         opened' = IF disputed(j) \/ selected(j) THEN opened ELSE opened + 1
  PROVE  Counted'
<1>1. Audited' = Audited \union {j}
  BY DEF Audited
<1>2. /\ IsFiniteSet(Audited \union {j})
      /\ Cardinality(Audited \union {j}) = IF j \in Audited THEN Cardinality(Audited)
                                                          ELSE Cardinality(Audited) + 1
  BY FS_AddElement DEF Counted
<1>3. j \in Audited <=> disputed(j) \/ selected(j)
  BY DEF Audited
<1> QED BY <1>1, <1>2, <1>3 DEF Counted

-----------------------------------------------------------------------------
(* The batch.                                                               *)
LEMMA BatchInTx ==
  ASSUME phase' = "tx"
  PROVE  BatchSafe'
BY DEF BatchSafe, Queues

(* Serving an entry of a queue leaves the rest of the batch queued.         *)
LEMMA BatchServed ==
  ASSUME IInv, BatchSafe, NEW e, Serve(e), phase \in Queues, NEW n, NEW again,
         Rebook(e, n, again)
  PROVE  BatchSafe'
<1>1. phase' = phase /\ todo' = todo \ {e} /\ phase # "release" /\ phase # "prune"
  BY DEF Serve, Queues
<1>2. todo' \subseteq q'[phase]
  BY <1>1 DEF BatchSafe, Rebook
<1> QED BY <1>1, <1>2 DEF BatchSafe

-----------------------------------------------------------------------------
(* What a release and a refund do to the fields the invariant reads.        *)
SameBond(a, b) ==
  b.bond = a.bond /\ b.bondIn = a.bondIn /\ b.bondBack = a.bondBack
    /\ b.bondForfeit = a.bondForfeit

Paying(a, b) ==
  /\ Onward(a, b)
  /\ b.toClient = a.toClient /\ b.comp = a.comp /\ b.treas = 0
  /\ b.held > 0 => a.held > 0
  /\ a.held = 0 => b.held = 0 /\ b.toMiner = a.toMiner
  /\ a.right = 0 => b.right = 0 /\ b.credit = a.credit

Refunding(a, b) ==
  /\ Onward(a, b)
  /\ b.held = 0 /\ b.val = 0 /\ b.team = 0 /\ b.treas = 0 /\ b.right = 0

(* releaseHeld pays, and leaves the client and the bond alone.              *)
LEMMA ReleasePays ==
  ASSUME NEW a \in Account, FeeConserved(a), NEW p, NEW no, NEW reg \in BOOLEAN
  PROVE  Paying(a, releaseHeld(a, p, no, reg)) /\ SameBond(a, releaseHeld(a, p, no, reg))
<1> DEFINE b == releaseHeld(a, p, no, reg)
<1>1. Onward(a, b)
  BY ReleaseOnward
<1>2. /\ b.toClient = a.toClient /\ b.comp = a.comp /\ b.treas = 0
      /\ b.bond = a.bond /\ b.bondIn = a.bondIn
      /\ b.bondBack = a.bondBack /\ b.bondForfeit = a.bondForfeit
  BY DEF releaseHeld, payRetainedCut, Account
<1>3. /\ b.held = IF reg /\ "operator" \notin no THEN 0 ELSE a.held
      /\ b.toMiner = a.toMiner + (IF reg /\ "operator" \notin no THEN a.held ELSE 0)
      /\ b.right = IF reg THEN 0 ELSE a.right
      /\ b.credit = a.credit + (IF reg THEN a.right ELSE 0)
  BY DEF releaseHeld, payRetainedCut, Account
<1>4. b.held > 0 => a.held > 0
  BY <1>3
<1>5. a.held = 0 => b.held = 0 /\ b.toMiner = a.toMiner
  <2>1. a.toMiner \in Nat
    BY DEF Account
  <2> QED BY <1>3, <2>1
<1>6. a.right = 0 => b.right = 0 /\ b.credit = a.credit
  <2>1. a.credit \in Nat
    BY DEF Account
  <2> QED BY <1>3, <2>1
<1> HIDE DEF b
<1>7. Paying(a, b)
  BY <1>1, <1>2, <1>4, <1>5, <1>6 DEF Paying
<1>8. SameBond(a, b)
  BY <1>2 DEF SameBond
<1> QED BY <1>7, <1>8 DEF b

(* refundRetained leaves nothing, and the bond alone.                       *)
LEMMA RefundStrips ==
  ASSUME NEW a \in Account, FeeConserved(a), NEW no
  PROVE  /\ Refunding(a, refundRetained(a, no)) /\ SameBond(a, refundRetained(a, no))
         /\ refundRetained(a, no).comp = a.comp
         /\ refundRetained(a, no).toClient = a.toClient + Sent(retainedTotal(a), "client", no)
         /\ refundRetained(a, no).toTreasury = a.toTreasury + Kept(retainedTotal(a), "client", no)
<1> DEFINE b == refundRetained(a, no)
<1>1. Onward(a, b)
  BY RefundOnward
<1>2. /\ b.held = 0 /\ b.val = 0 /\ b.team = 0 /\ b.treas = 0 /\ b.right = 0 /\ b.comp = a.comp
      /\ b.toClient = a.toClient + Sent(retainedTotal(a), "client", no)
      /\ b.toTreasury = a.toTreasury + Kept(retainedTotal(a), "client", no)
      /\ b.bond = a.bond /\ b.bondIn = a.bondIn
      /\ b.bondBack = a.bondBack /\ b.bondForfeit = a.bondForfeit
  BY DEF refundRetained, Account
<1> HIDE DEF b
<1>3. Refunding(a, b) /\ SameBond(a, b)
  BY <1>1, <1>2 DEF Refunding, SameBond
<1> QED BY <1>2, <1>3 DEF b

(* The client's refund is within the fee.                                   *)
LEMMA ClientWithinFee ==
  ASSUME NEW a \in Account, FeeConserved(a)
  PROVE  a.toClient <= a.fee
BY DEF Account, FeeConserved, retainedTotal, FeeOut

(* What the three ways of settling a bond leave of an account.              *)
BondSettled(a, b) ==
  /\ b.bondIn = a.bondIn
  /\ \/ b.bondBack = a.bondBack + a.bond /\ b.bondForfeit = a.bondForfeit
     \/ b.bondBack = a.bondBack /\ b.bondForfeit = a.bondForfeit + a.bond
     \/ b.bondBack = a.bondBack /\ b.bondForfeit = a.bondForfeit

(* b is c, its bond aside.                                                  *)
ButBond(b, c) ==
  /\ b.held = c.held /\ b.val = c.val /\ b.team = c.team /\ b.treas = c.treas
  /\ b.right = c.right /\ b.toClient = c.toClient /\ b.comp = c.comp
  /\ b.toMiner = c.toMiner /\ b.credit = c.credit /\ b.toTreasury = c.toTreasury

LEMMA BondMoves ==
  ASSUME NEW a \in Account, FeeConserved(a), NEW no, NEW b,
         \/ b = refundDisputeBond(a, no)
         \/ b = forfeitBond(a)
         \/ b = [a EXCEPT !.bondForfeit = a.bondForfeit + a.bond]
         \/ b = [a EXCEPT !.bondBack = a.bondBack + a.bond]
         \/ b = [a EXCEPT !.bondBack = a.bondBack + a.bond, !.bond = 0]
  PROVE  Onward(a, b) /\ BondSettled(a, b) /\ ButBond(b, a)
<1>1. Onward(a, b)
  BY BondMovesOnward
<1>2. PICK x \in Nat, y \in Nat, z \in Nat :
        /\ b = [a EXCEPT !.bond = x, !.bondBack = y, !.bondForfeit = z]
        /\ \/ y = a.bondBack + a.bond /\ z = a.bondForfeit
           \/ y = a.bondBack /\ z = a.bondForfeit + a.bond
           \/ y = a.bondBack /\ z = a.bondForfeit
  <2> DEFINE bd == a.bond
             bb == a.bondBack
             bf == a.bondForfeit
  <2>0. bd \in Nat /\ bb \in Nat /\ bf \in Nat /\ bb + bd \in Nat /\ bf + bd \in Nat
        /\ 0 \in Nat
    BY DEF Account
  <2>1. CASE b = refundDisputeBond(a, no)
    <3>1. PICK x \in Nat, s \in Nat : x = Kept(bd, "disputer", no) /\ s = Sent(bd, "disputer", no)
                                      /\ (s = bd \/ s = 0)
      BY <2>0 DEF Kept, Sent
    <3>2. PICK y \in Nat : y = bb + s
      BY <2>0
    <3>3. b = [a EXCEPT !.bond = x, !.bondBack = y, !.bondForfeit = bf]
      BY <2>1, <3>1, <3>2 DEF refundDisputeBond, Account
    <3>4. y = bb + bd \/ y = bb
      BY <2>0, <3>1, <3>2
    <3> QED BY <2>0, <3>3, <3>4, Zenon
  <2>2. CASE b = forfeitBond(a)
    <3>1. b = [a EXCEPT !.bond = 0, !.bondBack = bb, !.bondForfeit = bf + bd]
      BY <2>2 DEF forfeitBond, Account
    <3> QED BY <2>0, <3>1, Zenon
  <2>3. CASE b = [a EXCEPT !.bondForfeit = a.bondForfeit + a.bond]
    <3>1. b = [a EXCEPT !.bond = bd, !.bondBack = bb, !.bondForfeit = bf + bd]
      BY <2>3 DEF Account
    <3> QED BY <2>0, <3>1, Zenon
  <2>4. CASE b = [a EXCEPT !.bondBack = a.bondBack + a.bond]
    <3>1. b = [a EXCEPT !.bond = bd, !.bondBack = bb + bd, !.bondForfeit = bf]
      BY <2>4 DEF Account
    <3> QED BY <2>0, <3>1, Zenon
  <2>5. CASE b = [a EXCEPT !.bondBack = a.bondBack + a.bond, !.bond = 0]
    <3>1. b = [a EXCEPT !.bond = 0, !.bondBack = bb + bd, !.bondForfeit = bf]
      BY <2>5 DEF Account
    <3> QED BY <2>0, <3>1, Zenon
  <2> QED BY <2>1, <2>2, <2>3, <2>4, <2>5
<1>3. BondSettled(a, b)
  BY <1>2 DEF Account, BondSettled
<1>4. ButBond(b, a)
  BY <1>2 DEF Account, ButBond
<1> QED BY <1>1, <1>3, <1>4

(* The bond that settled after a move that left it alone.                   *)
LEMMA SettledAfter ==
  ASSUME NEW a, NEW c, NEW b, SameBond(a, c), BondSettled(c, b)
  PROVE  BondSettled(a, b)
BY DEF SameBond, BondSettled

(* An unresolved job's bond settles within what was posted.                 *)
LEMMA BondWithin ==
  ASSUME NEW a \in Account, Undecided0(a), NEW b, BondSettled(a, b)
  PROVE  b.bondBack + b.bondForfeit <= b.bondIn
BY DEF Undecided0, BondSettled, Account

-----------------------------------------------------------------------------
(* The registry through a step about a job.                                 *)
SameRegistry == \A m \in Miners : miner'[m].reg = miner[m].reg

LEMMA ReversalKeepsRegistry ==
  ASSUME IInv, NEW j \in Jobs, miner' = DemandReversed(j)
  PROVE  SameRegistry
BY DEF IInv, MinerRecord, DemandReversed, SameRegistry, Registered

LEMMA SlashKeepsRegistry ==
  ASSUME IInv, NEW j \in Jobs, NEW amt, miner' = TakeStake(DemandReversed(j), j, amt)
  PROVE  SameRegistry
<1>1. PICK f \in [Miners -> MinerRecord] : f = DemandReversed(j)
  BY DemandReversedOK
<1>2. \A m \in Miners : f[m].reg = miner[m].reg
  BY <1>1 DEF IInv, MinerRecord, DemandReversed, Registered
<1>3. \A m \in Miners : miner'[m].reg = f[m].reg
  BY <1>1 DEF TakeStake, MinerRecord, Registered
<1> QED BY <1>2, <1>3 DEF SameRegistry

LEMMA ReleaseKeepsRegistry ==
  ASSUME IInv, NEW j \in Jobs, NEW b, Release(j, b)
  PROVE  SameRegistry
BY DEF IInv, MinerRecord, Release, SameRegistry, Registered

LEMMA RegisteredStays ==
  ASSUME SameRegistry, NEW m, Registered(m)
  PROVE  Registered(m)'
BY DEF SameRegistry, Registered

(* A job the step leaves alone, but for the queues.                         *)
LEMMA ApartByEquality ==
  ASSUME NEW k \in Jobs, job'[k] = job[k], acct'[k] = acct[k], seat'[k] = seat[k],
         SameQueues(k), SameMark(k), SameRegistry
  PROVE  Apart(k)
<1>1. SameRecord(k)
  BY DEF SameRecord
<1>2. StillBonded(k)
  BY RegisteredStays DEF StillBonded, Registered, SameRegistry
<1> QED BY <1>1, <1>2 DEF Apart

(* Rebooking an entry of j changes the appointments of j only.              *)
LEMMA RebookedQueues ==
  ASSUME IInv, NEW e, NEW n, NEW again, Rebook(e, n, again), NEW k,
         e[2] # k, \A f \in again : f[2] # k
  PROVE  SameQueues(k)
BY DEF IInv, Rebook, SameQueues, SameQueue

LEMMA Rebooked ==
  ASSUME IInv, NEW e, NEW n, NEW again, Rebook(e, n, again), NEW x \in Queues
  PROVE  q'[x] = (IF x = phase THEN q[x] \ {e} ELSE q[x]) \union (IF x = n THEN again ELSE {})
BY DEF IInv, Rebook

(* What Close writes.                                                       *)
LEMMA ClosedRecord ==
  ASSUME IInv, NEW j \in Jobs, NEW marks, NEW by, NEW against, Close(j, marks, by, against)
  PROVE  /\ job'[j].st = job[j].st \union {"resolved"} \union marks
         /\ job'[j].by = by /\ job'[j].against = against
         /\ job'[j].miner = job[j].miner /\ job'[j].drawn = job[j].drawn
         /\ seat'[j] = NoSeat
         /\ \A k \in Jobs \ {j} : job'[k] = job[k] /\ seat'[k] = seat[k]
BY DEF IInv, JobRecord, Close

-----------------------------------------------------------------------------
(* A job closed with its retention refunded.                                *)
LEMMA UndoneSafe ==
  ASSUME Safe, NEW j \in Jobs, NEW b, paid(j),
         acct'[j] = b, Refunding(acct[j], b), Bounded(b),
         job[j].st \union {"resolved"} \subseteq job'[j].st,
         job'[j].miner = job[j].miner, job'[j].by \notin {"silent", "unfounded"},
         job'[j].drawn = job[j].drawn \/ job'[j].drawn = "selected",
         seat'[j] = NoSeat, q'["audit"] \subseteq q["audit"]
  PROVE  JobSafe(j)'
<1>0. JobSafe(j)
  BY DEF Safe
<1>1. paid(j)' /\ resolved(j)' /\ (disputed(j) => disputed(j)')
  BY DEF paid, resolved, disputed, jobIsPaid, jobIsResolved, jobIsDisputed
<1>2. Staged(j)'
  BY <1>0, <1>1 DEF JobSafe, Staged
<1>3. Unpaid(j)' /\ Unresolved(j)' /\ Bounded(acct[j])' /\ Final(j)'
  BY <1>1 DEF Unpaid, Unresolved, Final, Bounded
<1>4. Ahead(j)'
  <2>1. acct[j].escrow = 0
    BY <1>0, AccountOf DEF JobSafe, Ahead, paid, jobIsPaid, Account, Safe
  <2>2. b.escrow = 0 /\ ~HasPart(b)
    BY <2>1 DEF Refunding, Onward, HasPart
  <2> QED BY <1>1, <2>2 DEF Ahead
<1>5. OneDraw(j)'
  <2>1. Queued("audit", j)' => Queued("audit", j)
    BY DEF Queued
  <2>2. Queued("audit", j)' => ~passed(j)'
    BY <1>0, <2>1 DEF JobSafe, OneDraw, passed
  <2>3. \A e, f \in q'["audit"] : e[2] = j /\ f[2] = j => e = f
    BY <1>0 DEF JobSafe, OneDraw
  <2> QED BY <1>1, <2>2, <2>3 DEF OneDraw
<1>6. Stripped(j)' /\ Bonded(j)'
  BY DEF Stripped, Bonded, Refunding
<1>7. Drawn(j)'
  BY <1>1 DEF Drawn, NoSeat
<1> QED BY <1>2, <1>3, <1>4, <1>5, <1>6, <1>7 DEF JobSafe

(* A job closed with its retention released.                                *)
LEMMA ReleasedSafe ==
  ASSUME Safe, NEW j \in Jobs, NEW b, OpenDispute(j),
         acct'[j] = b, Paying(acct[j], b), Bounded(b),
         ReleasePending(b) => j \in pendingRelease',
         job[j].st \union {"resolved"} \subseteq job'[j].st,
         job'[j].miner = job[j].miner, job'[j].drawn = job[j].drawn,
         job'[j].by # "unwind", job'[j].against = FALSE,
         job'[j].by \in {"silent", "unfounded"} => ~selected(j),
         seat'[j] = NoSeat, q'["audit"] \subseteq q["audit"], SameRegistry
  PROVE  JobSafe(j)'
<1>0. JobSafe(j) /\ disputed(j) /\ paid(j)
  BY DEF Safe, JobSafe, Staged, OpenDispute, disputed
<1>1. paid(j)' /\ resolved(j)' /\ disputed(j)'
  BY <1>0 DEF paid, resolved, disputed, jobIsPaid, jobIsResolved, jobIsDisputed
<1>2. Staged(j)'
  BY <1>0, <1>1 DEF JobSafe, Staged
<1>3. Unpaid(j)' /\ Unresolved(j)' /\ Bounded(acct[j])' /\ Final(j)'
  BY <1>1 DEF Unpaid, Unresolved, Final, Bounded
<1>4. Ahead(j)'
  <2>1. acct[j].escrow = 0
    BY <1>0, AccountOf DEF JobSafe, Ahead, paid, jobIsPaid, Account, Safe
  <2>2. b.escrow = 0 /\ (HasPart(b) => ReleasePending(b))
    BY <2>1 DEF Paying, Onward, HasPart, ReleasePending
  <2> QED BY <1>1, <2>2 DEF Ahead
<1>5. OneDraw(j)'
  <2>1. Queued("audit", j)' => Queued("audit", j)
    BY DEF Queued
  <2>2. Queued("audit", j)' => ~passed(j)'
    BY <1>0, <2>1 DEF JobSafe, OneDraw, passed
  <2>3. \A e, f \in q'["audit"] : e[2] = j /\ f[2] = j => e = f
    BY <1>0 DEF JobSafe, OneDraw
  <2> QED BY <1>1, <2>2, <2>3 DEF OneDraw
<1>6. Stripped(j)'
  BY DEF Stripped, Undone
<1>7. Bonded(j)'
  <2>1. acct'[j].held > 0 => Registered(job[j].miner)
    BY <1>0 DEF JobSafe, Bonded, Paying
  <2>2. Registered(job[j].miner) => Registered(job[j].miner)'
    BY DEF SameRegistry, Registered
  <2> QED BY <2>1, <2>2 DEF Bonded
<1>8. Drawn(j)'
  BY <1>0, <1>1 DEF Drawn, NoSeat, selected
<1> QED BY <1>2, <1>3, <1>4, <1>5, <1>6, <1>7, <1>8 DEF JobSafe

-----------------------------------------------------------------------------
(* The account a decision leaves.                                           *)

(* Its bond settled last.                                                   *)
LEMMA PayingThenBond ==
  ASSUME NEW a \in Account, NEW c, NEW b, Paying(a, c), Onward(c, b), ButBond(b, c)
  PROVE  Paying(a, b)
<1>1. Onward(a, b)
  BY OnwardTransitive DEF Paying
<1> QED BY <1>1 DEF Paying, ButBond

LEMMA RefundingThenBond ==
  ASSUME NEW a \in Account, NEW c, NEW b, Refunding(a, c), Onward(c, b), ButBond(b, c)
  PROVE  Refunding(a, b)
<1>1. Onward(a, b)
  BY OnwardTransitive DEF Refunding
<1> QED BY <1>1 DEF Refunding, ButBond

(* A release of an unresolved job, the bond settled.                        *)
LEMMA ReleasedAccount ==
  ASSUME Safe, NEW j \in Jobs, ~resolved(j), NEW no, NEW b,
         \/ b = refundDisputeBond(Released(j, no), no)
         \/ b = forfeitBond(Released(j, no))
         \/ b = [Released(j, no) EXCEPT
                   !.bondForfeit = Released(j, no).bondForfeit + Released(j, no).bond]
  PROVE  Paying(acct[j], b) /\ Bounded(b)
<1>1. acct[j] \in Account /\ FeeConserved(acct[j])
  BY AccountOf DEF Safe
<1>2. Undecided0(acct[j])
  BY DEF Safe, JobSafe, Unresolved
<1>3. PICK c : c = Released(j, no)
  OBVIOUS
<1>4. Paying(acct[j], c) /\ SameBond(acct[j], c)
  <2>1. Registered(job[j].miner) \in BOOLEAN
    BY DEF Registered, Safe, IInv, MinerRecord
  <2> QED BY <1>1, <1>3, <2>1, ReleasePays DEF Released
<1>5. c \in Account /\ FeeConserved(c)
  BY <1>4 DEF Paying, Onward
<1>6. Onward(c, b) /\ BondSettled(c, b) /\ ButBond(b, c)
  BY <1>3, <1>5, BondMoves
<1>7. Paying(acct[j], b)
  BY <1>1, <1>4, <1>6, PayingThenBond
<1>8. b.bondBack + b.bondForfeit <= b.bondIn
  BY <1>1, <1>2, <1>4, <1>6, SettledAfter, BondWithin
<1>9. b.toClient + b.comp <= b.fee
  <2>1. b.comp = 0 /\ b \in Account /\ FeeConserved(b)
    BY <1>2, <1>7 DEF Undecided0, Paying, Onward
  <2>2. b.toClient <= b.fee
    BY <2>1, ClientWithinFee
  <2> QED BY <2>1, <2>2 DEF Account
<1> QED BY <1>7, <1>8, <1>9 DEF Bounded

(* A release with the bond left alone.                                      *)
LEMMA ReleasedAlone ==
  ASSUME Safe, NEW j \in Jobs, NEW no, NEW b, b = Released(j, no)
  PROVE  Paying(acct[j], b) /\ SameBond(acct[j], b) /\ Bounded(b)
<1>1. acct[j] \in Account /\ FeeConserved(acct[j])
  BY AccountOf DEF Safe
<1>2. Paying(acct[j], b) /\ SameBond(acct[j], b)
  <2>1. Registered(job[j].miner) \in BOOLEAN
    BY DEF Registered, Safe, IInv, MinerRecord
  <2> QED BY <1>1, <2>1, ReleasePays DEF Released
<1>3. Bounded(b)
  BY <1>2 DEF Safe, JobSafe, Bounded, Paying, Onward, SameBond
<1> QED BY <1>2, <1>3

(* A refund of an unresolved job, the bond settled.                         *)
LEMMA RefundedAccount ==
  ASSUME NEW a \in Account, FeeConserved(a), Undecided0(a), NEW no, NEW b,
         \/ b = refundDisputeBond(refundRetained(a, no), no)
         \/ b = [refundRetained(a, no) EXCEPT
                   !.bondBack = refundRetained(a, no).bondBack + refundRetained(a, no).bond]
  PROVE  Refunding(a, b) /\ Bounded(b)
<1>1. PICK c : c = refundRetained(a, no)
  OBVIOUS
<1>2. Refunding(a, c) /\ SameBond(a, c) /\ c.comp = a.comp
  BY <1>1, RefundStrips
<1>3. c \in Account /\ FeeConserved(c)
  BY <1>2 DEF Refunding, Onward
<1>4. Onward(c, b) /\ BondSettled(c, b) /\ ButBond(b, c)
  BY <1>1, <1>3, BondMoves
<1>5. Refunding(a, b)
  BY <1>2, <1>4, RefundingThenBond
<1>6. b.bondBack + b.bondForfeit <= b.bondIn
  BY <1>2, <1>4, SettledAfter, BondWithin
<1>7. b.toClient + b.comp <= b.fee
  <2>1. b.comp = 0 /\ b \in Account /\ FeeConserved(b)
    BY <1>2, <1>4, <1>5 DEF Undecided0, ButBond, Refunding, Onward
  <2>2. b.toClient <= b.fee
    BY <2>1, ClientWithinFee
  <2> QED BY <2>1, <2>2 DEF Account
<1> QED BY <1>5, <1>6, <1>7 DEF Bounded

(* How a slash of amt serves the client: the fee, or the whole slash, or    *)
(* nothing because the client's account refuses.                            *)
Serves(a, c, amt, no) ==
  \/ c.toClient + c.comp = a.fee
  \/ c.comp - a.comp = amt
  \/ /\ "client" \in no /\ c.toClient = a.toClient /\ c.comp = a.comp
     /\ c.toTreasury = a.toTreasury + retainedTotal(a)

(* Both ways of computing what is owed give the same account.               *)
LEMMA CompensatedAccount ==
  ASSUME NEW a \in Account, FeeConserved(a), Undecided0(a), a.toClient = 0,
         NEW amt \in Nat, NEW no, NEW c,
         c = SlashedAccount(a, amt, no) \/ c = AdjudicatedAccount(a, amt, no)
  PROVE  /\ Refunding(a, c) /\ SameBond(a, c) /\ c.toClient + c.comp <= c.fee
         /\ Serves(a, c, amt, no)
<1>1. PICK r : r = refundRetained(a, no)
  OBVIOUS
<1>2. /\ Refunding(a, r) /\ SameBond(a, r) /\ r.comp = 0 /\ a.comp = 0
      /\ r.toClient = Sent(retainedTotal(a), "client", no)
      /\ r.toTreasury = a.toTreasury + Kept(retainedTotal(a), "client", no)
  <2>1. a.comp = 0
    BY DEF Undecided0
  <2>2. Sent(retainedTotal(a), "client", no) \in Nat
    BY RetainedTotalNat, SentKept
  <2>3. r.toClient = 0 + Sent(retainedTotal(a), "client", no) /\ r.comp = a.comp
    BY <1>1, RefundStrips
  <2>4. r.toTreasury = a.toTreasury + Kept(retainedTotal(a), "client", no)
    BY <1>1, RefundStrips
  <2>5. Refunding(a, r) /\ SameBond(a, r)
    BY <1>1, RefundStrips
  <2> QED BY <2>1, <2>2, <2>3, <2>4, <2>5
<1>3. PICK t \in Nat : t = retainedTotal(a) /\ t <= a.fee
  BY RetainedTotalNat, RefundWithinFee
<1>4. r \in Account /\ FeeConserved(r) /\ r.fee = a.fee /\ a.fee \in Nat /\ a.toTreasury \in Nat
  BY <1>2 DEF Refunding, Onward, Account
<1>5. PICK owed \in Nat : /\ owed = a.fee - t \/ ("client" \in no /\ owed = a.fee)
                          /\ c = [r EXCEPT !.comp = 0 + Sent(MinOf(owed, amt), "client", no)]
  <2>1. CASE c = SlashedAccount(a, amt, no)
    <3>1. PICK owed \in Nat : owed = a.fee - (r.toClient - a.toClient)
      BY <1>2, <1>3, <1>4 DEF Sent
    <3>2. owed = a.fee - t \/ ("client" \in no /\ owed = a.fee)
      BY <1>2, <1>3, <1>4, <3>1 DEF Sent
    <3>3. c = [r EXCEPT !.comp = 0 + Sent(MinOf(owed, amt), "client", no)]
      BY <1>1, <1>2, <2>1, <3>1, Zenon DEF SlashedAccount
    <3> QED BY <3>2, <3>3, Zenon
  <2>2. CASE c = AdjudicatedAccount(a, amt, no)
    <3>1. PICK owed \in Nat : owed = a.fee - t
      BY <1>3, <1>4
    <3>2. c = [r EXCEPT !.comp = 0 + Sent(MinOf(owed, amt), "client", no)]
      BY <1>1, <1>2, <1>3, <2>2, <3>1, Zenon DEF AdjudicatedAccount
    <3> QED BY <3>1, <3>2, Zenon
  <2> QED BY <2>1, <2>2
<1>6. PICK x \in Nat : x = Sent(MinOf(owed, amt), "client", no) /\ x = 0 + x
  BY DEF Sent, MinOf
<1>7. c = [r EXCEPT !.comp = x]
  BY <1>5, <1>6
<1>8. Onward(r, c)
  BY <1>4, <1>7, CompOnward
<1>9. /\ c.comp = x /\ c.toClient = r.toClient /\ c.fee = a.fee /\ c.toTreasury = r.toTreasury
      /\ c.held = r.held /\ c.val = r.val /\ c.team = r.team /\ c.treas = r.treas
      /\ c.right = r.right /\ c.bond = r.bond /\ c.bondIn = r.bondIn
      /\ c.bondBack = r.bondBack /\ c.bondForfeit = r.bondForfeit
  BY <1>4, <1>7 DEF Account
<1>10. Refunding(a, c)
  <2>1. Onward(a, c)
    BY <1>2, <1>8, OnwardTransitive DEF Refunding
  <2> QED BY <1>2, <1>9, <2>1 DEF Refunding
<1>11. SameBond(a, c)
  BY <1>2, <1>9 DEF SameBond
<1>12. CASE "client" \in no
  <2>1. c.comp = 0 /\ c.toClient = 0
    BY <1>2, <1>6, <1>9, <1>12 DEF Sent
  <2>2. c.toTreasury = a.toTreasury + retainedTotal(a)
    BY <1>2, <1>9, <1>12 DEF Kept
  <2>3. c.toClient + c.comp <= c.fee
    BY <1>4, <1>9, <2>1
  <2> QED BY <1>2, <1>10, <1>11, <1>12, <2>1, <2>2, <2>3 DEF Serves
<1>13. CASE "client" \notin no
  <2>1. c.toClient = t /\ c.comp = MinOf(a.fee - t, amt)
    BY <1>2, <1>3, <1>5, <1>6, <1>9, <1>13 DEF Sent
  <2>2. c.toClient + c.comp <= a.fee /\ (c.toClient + c.comp = a.fee \/ c.comp - 0 = amt)
    BY <1>3, <1>4, <2>1 DEF MinOf
  <2> QED BY <1>2, <1>9, <1>10, <1>11, <2>2 DEF Serves
<1> QED BY <1>12, <1>13

(* The same, the bond returned.                                             *)
LEMMA SlashedAndReturned ==
  ASSUME NEW a \in Account, FeeConserved(a), Undecided0(a), a.toClient = 0,
         NEW amt \in Nat, NEW no, NEW c, NEW b,
         c = SlashedAccount(a, amt, no) \/ c = AdjudicatedAccount(a, amt, no),
         \/ b = refundDisputeBond(c, no)
         \/ b = [c EXCEPT !.bondBack = c.bondBack + c.bond, !.bond = 0]
  PROVE  Refunding(a, b) /\ Bounded(b) /\ Serves(a, b, amt, no)
<1>1. /\ Refunding(a, c) /\ SameBond(a, c) /\ c.toClient + c.comp <= c.fee
      /\ Serves(a, c, amt, no)
  BY CompensatedAccount
<1>2. c \in Account /\ FeeConserved(c)
  BY <1>1 DEF Refunding, Onward
<1>3. Onward(c, b) /\ BondSettled(c, b) /\ ButBond(b, c)
  BY <1>2, BondMoves
<1>4. Refunding(a, b)
  BY <1>1, <1>3, RefundingThenBond
<1>5. b.bondBack + b.bondForfeit <= b.bondIn
  BY <1>1, <1>3, SettledAfter, BondWithin
<1>6. Serves(a, b, amt, no)
  BY <1>1, <1>3 DEF Serves, ButBond
<1>7. b.toClient + b.comp <= b.fee
  BY <1>1, <1>3 DEF ButBond, Onward
<1> QED BY <1>4, <1>5, <1>6, <1>7 DEF Bounded

-----------------------------------------------------------------------------
(* Steps that close a job.                                                  *)
LEMMA ClosedCounted ==
  ASSUME Safe, NEW j \in Jobs, OpenDispute(j), NEW marks, NEW by, NEW against,
         Close(j, marks, by, against), opened' = opened
  PROVE  Counted'
<1>1. /\ job'[j].st = job[j].st \union {"resolved"} \union marks
      /\ \A k \in Jobs \ {j} : job'[k] = job[k]
  BY ClosedRecord DEF Safe
<1>2. disputed(j) /\ disputed(j)'
  BY <1>1 DEF OpenDispute, disputed, jobIsDisputed
<1>3. \A k \in Jobs : (disputed(k) \/ selected(k))' <=> (disputed(k) \/ selected(k))
  BY <1>1, <1>2 DEF disputed, selected
<1> QED BY <1>3, CountedSame DEF Safe

LEMMA UndoneStep ==
  ASSUME Safe, IInv', BatchSafe', NEW j \in Jobs, OpenDispute(j), NEW b,
         acct' = [acct EXCEPT ![j] = b], Refunding(acct[j], b), Bounded(b),
         NEW marks, NEW by, by \notin {"silent", "unfounded"}, Close(j, marks, by, TRUE),
         SameRegistry, UNCHANGED <<pendingRelease, opened>>,
         \A k \in Jobs \ {j} : SameQueues(k), q'["audit"] \subseteq q["audit"]
  PROVE  Safe'
<1>1. /\ job'[j].st = job[j].st \union {"resolved"} \union marks
      /\ job'[j].by = by /\ job'[j].against = TRUE
      /\ job'[j].miner = job[j].miner /\ job'[j].drawn = job[j].drawn
      /\ seat'[j] = NoSeat
      /\ \A k \in Jobs \ {j} : job'[k] = job[k] /\ seat'[k] = seat[k]
  BY ClosedRecord DEF Safe
<1>2. acct'[j] = b /\ \A k \in Jobs \ {j} : acct'[k] = acct[k]
  BY DEF Safe, IInv, Ledger
<1>3. paid(j)
  BY DEF Safe, JobSafe, Staged, OpenDispute, disputed
<1>4. JobSafe(j)'
  BY <1>1, <1>2, <1>3, UndoneSafe
<1>5. \A k \in Jobs \ {j} : Apart(k)
  BY <1>1, <1>2, ApartByEquality DEF SameMark
<1>6. Counted'
  BY ClosedCounted
<1> QED BY <1>4, <1>5, <1>6, Elsewhere DEF Safe

LEMMA ReleasedStep ==
  ASSUME Safe, IInv', BatchSafe', NEW j \in Jobs, OpenDispute(j), NEW b,
         Release(j, b), Paying(acct[j], b), Bounded(b),
         NEW marks, NEW by, by # "unwind", by \in {"silent", "unfounded"} => ~selected(j),
         Close(j, marks, by, FALSE), opened' = opened,
         \A k \in Jobs \ {j} : SameQueues(k), q'["audit"] \subseteq q["audit"]
  PROVE  Safe'
<1>1. /\ job'[j].st = job[j].st \union {"resolved"} \union marks
      /\ job'[j].by = by /\ job'[j].against = FALSE
      /\ job'[j].miner = job[j].miner /\ job'[j].drawn = job[j].drawn
      /\ seat'[j] = NoSeat
      /\ \A k \in Jobs \ {j} : job'[k] = job[k] /\ seat'[k] = seat[k]
  BY ClosedRecord DEF Safe
<1>2. acct'[j] = b /\ \A k \in Jobs \ {j} : acct'[k] = acct[k]
  BY DEF Safe, IInv, Ledger, Release
<1>3. /\ ReleasePending(b) => j \in pendingRelease'
      /\ \A k \in Jobs \ {j} : SameMark(k)
  BY DEF Release, SameMark
<1>4. SameRegistry
  BY ReleaseKeepsRegistry DEF Safe
<1>5. JobSafe(j)'
  BY <1>1, <1>2, <1>3, <1>4, ReleasedSafe
<1>6. \A k \in Jobs \ {j} : Apart(k)
  BY <1>1, <1>2, <1>3, <1>4, ApartByEquality
<1>7. Counted'
  BY ClosedCounted
<1> QED BY <1>5, <1>6, <1>7, Elsewhere DEF Safe

-----------------------------------------------------------------------------
(* Transactions.                                                            *)

(* A transaction that touches no queue.                                     *)
LEMMA QueuesKept ==
  ASSUME q' = q
  PROVE  /\ \A k \in Jobs : SameQueues(k)
         /\ q'["audit"] \subseteq q["audit"]
BY DEF SameQueues, SameQueue

LEMMA TxBatch ==
  ASSUME InTx
  PROVE  BatchSafe'
BY BatchInTx DEF InTx

(* What is known of an open dispute.                                        *)
LEMMA OpenDisputeFacts ==
  ASSUME Safe, NEW j \in Jobs, OpenDispute(j)
  PROVE  /\ paid(j) /\ ~resolved(j) /\ Undecided0(acct[j]) /\ acct[j].toClient = 0
         /\ acct[j] \in Account /\ FeeConserved(acct[j])
BY AccountOf DEF Safe, JobSafe, Staged, Unresolved, OpenDispute, disputed, resolved

(* The authority rules.                                                     *)
LEMMA ResolveSafe ==
  ASSUME Safe, IInv', NEW j \in Jobs, NEW no, ResolveRejected(j, no) \/ ResolveUpheld(j, no)
  PROVE  Safe'
<1>1. OpenDispute(j) /\ InTx /\ q' = q /\ opened' = opened
  BY DEF ResolveRejected, ResolveUpheld
<1>2. BatchSafe'
  BY <1>1, TxBatch
<1>3. CASE ResolveRejected(j, no)
  <2>1. PICK b : b = [Released(j, no) EXCEPT
                        !.bondForfeit = Released(j, no).bondForfeit + Released(j, no).bond]
    OBVIOUS
  <2>2. Paying(acct[j], b) /\ Bounded(b)
    BY <1>1, <2>1, ReleasedAccount, OpenDisputeFacts
  <2>3. Release(j, b) /\ Close(j, {}, "authority", FALSE)
    BY <1>3, <2>1, Zenon DEF ResolveRejected
  <2> QED BY <1>1, <1>2, <2>2, <2>3, QueuesKept, ReleasedStep
<1>4. CASE ResolveUpheld(j, no)
  <2>1. PICK b : b = [refundRetained(acct[j], no) EXCEPT
               !.bondBack = refundRetained(acct[j], no).bondBack + refundRetained(acct[j], no).bond]
    OBVIOUS
  <2>2. Refunding(acct[j], b) /\ Bounded(b)
    BY <1>1, <2>1, RefundedAccount, OpenDisputeFacts
  <2>3. /\ acct' = [acct EXCEPT ![j] = b] /\ miner' = DemandReversed(j)
        /\ Close(j, {}, "authority", TRUE) /\ UNCHANGED <<pendingRelease, opened>>
    BY <1>4, <2>1, Zenon DEF ResolveUpheld
  <2>4. SameRegistry
    BY <2>3, ReversalKeepsRegistry DEF Safe
  <2> QED BY <1>1, <1>2, <2>2, <2>3, <2>4, QueuesKept, UndoneStep
<1> QED BY <1>3, <1>4

(* A dispute is adjudicated.                                                *)
LEMMA AdjudicateSafe ==
  ASSUME Safe, IInv', NEW j \in Jobs, NEW no, AdjudicateHonest(j, no) \/ AdjudicateCheated(j, no)
  PROVE  Safe'
<1>1. OpenDispute(j) /\ InTx /\ q' = q /\ opened' = opened
  BY DEF AdjudicateHonest, AdjudicateCheated, Admissible
<1>2. BatchSafe'
  BY <1>1, TxBatch
<1>3. CASE AdjudicateHonest(j, no)
  <2>1. PICK b : b = forfeitBond(Released(j, no))
    OBVIOUS
  <2>2. Paying(acct[j], b) /\ Bounded(b)
    BY <1>1, <2>1, ReleasedAccount, OpenDisputeFacts
  <2>3. PICK by \in {"verdict", "redo"} : Release(j, b) /\ Close(j, {"adjudicated"}, by, FALSE)
    BY <1>3, <2>1 DEF AdjudicateHonest
  <2> QED BY <1>1, <1>2, <2>2, <2>3, QueuesKept, ReleasedStep
<1>4. CASE AdjudicateCheated(j, no)
  <2>1. PICK amt \in Nat : amt = SlashAmount(j)
    BY SlashAmountOK DEF Safe
  <2>2. PICK c : c = AdjudicatedAccount(acct[j], amt, no)
    OBVIOUS
  <2>3. PICK b : b = [c EXCEPT !.bondBack = c.bondBack + c.bond, !.bond = 0]
    OBVIOUS
  <2>4. Refunding(acct[j], b) /\ Bounded(b)
    BY <1>1, <2>2, <2>3, SlashedAndReturned, OpenDisputeFacts
  <2>5. PICK by \in {"verdict", "redo"} :
          /\ acct' = [acct EXCEPT ![j] = b] /\ miner' = TakeStake(DemandReversed(j), j, amt)
          /\ Close(j, {"adjudicated"}, by, TRUE) /\ UNCHANGED <<pendingRelease, opened>>
    BY <1>4, <2>1, <2>2, <2>3 DEF AdjudicateCheated
  <2>6. SameRegistry
    BY <2>5, SlashKeepsRegistry DEF Safe
  <2> QED BY <1>1, <1>2, <2>4, <2>5, <2>6, QueuesKept, UndoneStep
<1> QED BY <1>3, <1>4

(* A job is opened.                                                         *)
LEMMA OpenJobSafe ==
  ASSUME Safe, IInv', NEW j \in Jobs, NEW fee \in Fees, OpenJob(j, fee)
  PROVE  Safe'
<1>1. /\ InTx /\ job[j].st = {} /\ seat' = seat /\ miner' = miner
      /\ pendingRelease' = pendingRelease /\ opened' = opened
  BY DEF OpenJob
<1>2. /\ job'[j].st = {"open"} /\ job'[j].miner = job[j].miner /\ job'[j].by = job[j].by
      /\ job'[j].against = job[j].against /\ job'[j].drawn = job[j].drawn
      /\ \A k \in Jobs \ {j} : job'[k] = job[k]
  BY DEF OpenJob, Safe, IInv, JobRecord
<1>3. acct'[j] = OpenAccount(fee) /\ \A k \in Jobs \ {j} : acct'[k] = acct[k]
  BY DEF OpenJob, Safe, IInv, Ledger
<1>4. /\ \A k \in Jobs \ {j} : SameQueues(k)
      /\ q'["audit"] = q["audit"]
      /\ fee > 0 => Queued("expiry", j)'
  BY DEF OpenJob, Safe, IInv, SameQueues, SameQueue, Queues, Queued
<1>5. \A k \in Jobs \ {j} : Apart(k)
  BY <1>1, <1>2, <1>3, <1>4, ApartByEquality DEF SameMark, SameRegistry
<1>6. fee \in Nat
  BY BoundsAssumption
<1>7. JobSafe(j)'
  <2>0. /\ JobSafe(j) /\ ~paid(j) /\ ~disputed(j) /\ ~resolved(j)
        /\ ~paid(j)' /\ ~disputed(j)' /\ ~resolved(j)'
    BY <1>1, <1>2 DEF Safe, paid, disputed, resolved, jobIsPaid, jobIsDisputed, jobIsResolved
  <2>1. Staged(j)'
    BY <1>2, <2>0 DEF JobSafe, Staged
  <2>2. Unpaid(j)' /\ Unresolved(j)' /\ Bounded(acct[j])'
    BY <1>1, <1>3, <1>6, <2>0 DEF JobSafe, Unpaid, Unresolved, Undecided0, Bounded, OpenAccount,
                                  EmptyAccount
  <2>3. acct'[j].escrow = fee
    BY <1>3 DEF OpenAccount, EmptyAccount
  <2>4. Ahead(j)'
    <3>1. ~passed(j)'
      BY <1>2, <2>0 DEF JobSafe, Staged, passed
    <3> QED BY <1>2, <1>4, <1>6, <2>0, <2>3, <3>1 DEF Ahead
  <2>5. OneDraw(j)'
    BY <1>4, <2>0 DEF JobSafe, OneDraw, Queued
  <2>6. Stripped(j)' /\ Final(j)' /\ Bonded(j)'
    BY <1>3, <2>0 DEF Stripped, Final, Bonded, OpenAccount, EmptyAccount
  <2>7. Drawn(j)'
    BY <1>1, <1>2, <2>0 DEF JobSafe, Drawn, selected
  <2> QED BY <2>1, <2>2, <2>4, <2>5, <2>6, <2>7 DEF JobSafe
<1>8. Counted'
  <2>1. \A k \in Jobs : (disputed(k) \/ selected(k))' <=> (disputed(k) \/ selected(k))
    BY <1>1, <1>2 DEF disputed, selected, jobIsDisputed
  <2> QED BY <1>1, <2>1, CountedSame DEF Safe
<1> QED BY <1>1, <1>5, <1>7, <1>8, Elsewhere, TxBatch DEF Safe

(* A step of the block that leaves the jobs and their money alone.          *)
LEMMA JobsKept ==
  ASSUME Safe, IInv', BatchSafe', UNCHANGED <<acct, seat, q, pendingRelease, opened>>,
         \A k \in Jobs : SameRecord(k) /\ StillBonded(k)
  PROVE  Safe'
<1>1. \A k \in Jobs : Apart(k)
  BY QueuesKept DEF Apart, SameMark
<1>2. Counted'
  <2>1. \A k \in Jobs : (disputed(k) \/ selected(k))' <=> (disputed(k) \/ selected(k))
    BY DEF disputed, selected, SameRecord
  <2> QED BY <2>1, CountedSame DEF Safe
<1> QED BY <1>1, <1>2, Everywhere DEF Safe

(* Votes and parameters move no job.                                        *)
LEMMA VoteOrParamsSafe ==
  ASSUME Safe, IInv', phase' = "tx",
         UNCHANGED <<job, acct, seat, q, pendingRelease, opened, miner>>
  PROVE  Safe'
<1>1. \A k \in Jobs : SameRecord(k) /\ StillBonded(k)
  BY DEF SameRecord, StillBonded, Registered
<1> QED BY <1>1, BatchInTx, JobsKept

(* A miner without open obligation leaves no debtor behind.                 *)
LEMMA LeaveBonded ==
  ASSUME Safe, NEW m \in Miners, Leave(m), \A j \in Jobs : acct[j].held > 0 => job[j].miner # m
  PROVE  \A k \in Jobs : SameRecord(k) /\ StillBonded(k)
<1>1. \A k \in Jobs : SameRecord(k)
  BY DEF Leave, Safe, IInv, JobRecord, SameRecord
<1>2. \A x \in Miners \ {m} : miner'[x].reg = miner[x].reg
  BY DEF Leave, Safe, IInv
<1>3. \A k \in Jobs : StillBonded(k)
  BY <1>1, <1>2 DEF StillBonded, Registered, SameRecord
<1> QED BY <1>1, <1>3

(* The registry.                                                            *)
LEMMA RegistrySafe ==
  ASSUME Safe, IInv', NEW m \in Miners, NEW x \in BOOLEAN,
         \/ UpdateMiner(m, x)
         \/ \E s \in Stakes : CreateMiner(m, s, x)
         \/ DeleteMiner(m, x)
  PROVE  Safe'
<1>1. InTx /\ UNCHANGED <<acct, seat, q, pendingRelease, opened>>
  BY DEF UpdateMiner, CreateMiner, DeleteMiner
<1>2. \A k \in Jobs : SameRecord(k) /\ StillBonded(k)
  <2>1. CASE UpdateMiner(m, x)
    BY <2>1 DEF UpdateMiner, Safe, IInv, MinerRecord, SameRecord, StillBonded, Registered
  <2>2. CASE \E s \in Stakes : CreateMiner(m, s, x)
    BY <2>2 DEF CreateMiner, Safe, IInv, MinerRecord, SameRecord, StillBonded, Registered
  <2>3. CASE DeleteMiner(m, x)
    <3>1. \A j \in Jobs : acct[j].held > 0 => job[j].miner # m
      BY <2>3 DEF DeleteMiner, hasOpenObligation
    <3> QED BY <2>3, <3>1, LeaveBonded DEF DeleteMiner
  <2> QED BY <2>1, <2>2, <2>3
<1> QED BY <1>1, <1>2, TxBatch, JobsKept

(* A job is settled.                                                        *)
LEMMA SettleSafe ==
  ASSUME Safe, IInv', NEW j \in Jobs, NEW no, settleOptimistic(j, no)
  PROVE  Safe'
<1>1. /\ InTx /\ seat' = seat /\ pendingRelease' = pendingRelease /\ opened' = opened
      /\ ~paid(j) /\ ~jobEscrowReturned(job[j].st) /\ Registered(job[j].prim)
  BY DEF settleOptimistic, paid
<1>2. PICK a \in Account : a = acct[j] /\ FeeConserved(a) /\ a.escrow = a.fee
  BY <1>1 DEF Safe, IInv, Ledger, EscrowConserved, Unsettled, paid
<1>3. PICK b : b = SettleAccount(a, params, no, miner[job[j].prim].self, height)
  OBVIOUS
<1>4. /\ job'[j].st = job[j].st \union {"paid", "optimistic"} /\ job'[j].miner = job[j].prim
      /\ job'[j].by = job[j].by /\ job'[j].against = job[j].against
      /\ job'[j].drawn = job[j].drawn
      /\ \A k \in Jobs \ {j} : job'[k] = job[k]
  BY DEF settleOptimistic, Safe, IInv, JobRecord
<1>5. acct'[j] = b /\ \A k \in Jobs \ {j} : acct'[k] = acct[k]
  BY <1>2, <1>3 DEF settleOptimistic, Safe, IInv, Ledger
<1>6. SameRegistry
  BY DEF settleOptimistic, Safe, IInv, MinerRecord, SameRegistry
<1>7. /\ \A k \in Jobs \ {j} : SameQueues(k)
      /\ \A n \in Queues \ {"audit"} : q'[n] = q[n]
      /\ q'["audit"] = q["audit"] \union {<<height + 1, j>>}
  BY DEF settleOptimistic, Safe, IInv, SameQueues, SameQueue, Queues, Queued
<1>8. \A k \in Jobs \ {j} : Apart(k)
  BY <1>1, <1>4, <1>5, <1>6, <1>7, ApartByEquality DEF SameMark
<1>9. JobSafe(j)'
  <2>0. /\ JobSafe(j) /\ ~disputed(j) /\ ~resolved(j) /\ job[j].drawn = "none"
        /\ paid(j)' /\ ~disputed(j)' /\ ~resolved(j)'
    <3>1. JobSafe(j) /\ ~disputed(j) /\ ~resolved(j) /\ job[j].drawn = "none"
      BY <1>1 DEF Safe, JobSafe, Staged
    <3> QED BY <1>4, <3>1 DEF paid, disputed, resolved, jobIsPaid, jobIsDisputed, jobIsResolved
  <2>1. Staged(j)'
    BY <1>1, <1>4, <2>0 DEF JobSafe, Staged, Registered
  <2>2. /\ b.escrow = 0 /\ b.toVal = a.toVal /\ b.toTeam = a.toTeam /\ b.toTeamPool = a.toTeamPool
        /\ b.toTreasury = a.toTreasury /\ b.toClient = a.toClient /\ b.credit = a.credit
        /\ b.comp = a.comp /\ b.fee = a.fee
        /\ b.bond = a.bond /\ b.bondIn = a.bondIn /\ b.bondBack = a.bondBack
        /\ b.bondForfeit = a.bondForfeit
    BY <1>3 DEF SettleAccount, Account
  <2>3. Undecided0(a) /\ a.toClient = 0 /\ Bounded(a) /\ a.toVal = 0 /\ a.toTeam = 0
        /\ a.toTeamPool = 0 /\ a.toTreasury = 0 /\ a.credit = 0 /\ j \notin pendingRelease
    <3>1. a.toClient = 0
      BY <1>2, Untouched
    <3> QED BY <1>1, <1>2, <2>0, <3>1 DEF JobSafe, Unpaid, Unresolved
  <2>4. Unpaid(j)' /\ Unresolved(j)' /\ Bounded(acct[j])' /\ Final(j)'
    <3>1. Undecided0(b) /\ Bounded(b)
      BY <2>2, <2>3 DEF Undecided0, Bounded
    <3> QED BY <1>1, <1>5, <2>0, <2>2, <2>3, <3>1 DEF Unpaid, Unresolved, Final
  <2>5. Ahead(j)'
    <3>1. Queued("audit", j)'
      <4>1. PICK e : e = <<height + 1, j>>
        OBVIOUS
      <4>2. e \in q'["audit"] /\ e[2] = j
        BY <1>7, <4>1
      <4> QED BY <4>2 DEF Queued
    <3>2. ~passed(j)'
      BY <1>4, <2>0 DEF passed
    <3> QED BY <1>5, <2>0, <2>2, <3>1, <3>2 DEF Ahead
  <2>6. OneDraw(j)'
    <3>1. \A e \in q["audit"] : e[2] # j
      BY <1>1, <2>0 DEF JobSafe, OneDraw, Queued
    <3>2. \A e, f \in q'["audit"] : e[2] = j /\ f[2] = j => e = f
      BY <1>7, <3>1
    <3> QED BY <1>4, <2>0, <3>2 DEF OneDraw, passed
  <2>7. Stripped(j)'
    BY <1>4, <2>0 DEF JobSafe, Staged, Stripped, Undone
  <2>8. Bonded(j)'
    <3>1. Registered(job[j].miner)'
      BY <1>1, <1>4, <1>6 DEF Registered, SameRegistry
    <3> QED BY <3>1 DEF Bonded
  <2>9. Drawn(j)'
    BY <1>1, <1>4, <2>0 DEF JobSafe, Drawn, selected
  <2> QED BY <2>1, <2>4, <2>5, <2>6, <2>7, <2>8, <2>9 DEF JobSafe
<1>10. Counted'
  <2>1. \A k \in Jobs : (disputed(k) \/ selected(k))' <=> (disputed(k) \/ selected(k))
    BY <1>4 DEF disputed, selected, jobIsDisputed
  <2> QED BY <1>1, <2>1, CountedSame DEF Safe
<1> QED BY <1>1, <1>8, <1>9, <1>10, Elsewhere, TxBatch DEF Safe

(* A settled job is disputed.                                               *)
LEMMA DisputeSafe ==
  ASSUME Safe, IInv', NEW j \in Jobs, NEW redo \in SUBSET Miners, DisputeVerdict(j, redo)
  PROVE  Safe'
<1>1. /\ InTx /\ pendingRelease' = pendingRelease /\ miner' = miner
      /\ paid(j) /\ ~disputed(j) /\ ~resolved(j)
      /\ opened' = IF seat[j].selected THEN opened ELSE opened + 1
  BY DEF DisputeVerdict, paid, disputed, resolved
<1>2. /\ job'[j].st = job[j].st \union {"disputed"} /\ job'[j].miner = job[j].miner
      /\ job'[j].by = job[j].by /\ job'[j].against = job[j].against
      /\ job'[j].drawn = job[j].drawn
      /\ \A k \in Jobs \ {j} : job'[k] = job[k]
  BY DEF DisputeVerdict, Safe, IInv, JobRecord
<1>3. PICK d \in Nat : d = params.DisputeBond
  BY ParamsOK DEF Safe, IInv, BlockOK, ParamsRecord
<1>4. PICK a \in Account : a = acct[j]
  BY AccountOf DEF Safe
<1>5. /\ acct'[j] = [a EXCEPT !.bond = d, !.bondIn = d]
      /\ \A k \in Jobs \ {j} : acct'[k] = acct[k]
  BY <1>3, <1>4 DEF DisputeVerdict, Safe, IInv, Ledger
<1>6. /\ seat'[j].selected = seat[j].selected /\ seat'[j].jury = seat[j].jury
      /\ \A k \in Jobs \ {j} : seat'[k] = seat[k]
  BY DEF DisputeVerdict, Safe, IInv, SeatRecord
<1>7. /\ \A k \in Jobs \ {j} : SameQueues(k)
      /\ \A n \in Queues \ {"resolve"} : q'[n] = q[n]
      /\ Queued("resolve", j)'
  BY DEF DisputeVerdict, Safe, IInv, SameQueues, SameQueue, Queues, Queued
<1>8. \A k \in Jobs \ {j} : Apart(k)
  BY <1>1, <1>2, <1>5, <1>6, <1>7, ApartByEquality DEF SameMark, SameRegistry
<1>9. /\ JobSafe(j) /\ paid(j)' /\ disputed(j)' /\ ~resolved(j)'
      /\ selected(j)' = selected(j) /\ passed(j)' = passed(j)
  BY <1>1, <1>2 DEF Safe, paid, disputed, resolved, selected, passed, jobIsPaid, jobIsDisputed,
                    jobIsResolved
<1>10. JobSafe(j)'
  <2>1. Staged(j)'
    BY <1>2, <1>1, <1>9 DEF JobSafe, Staged
  <2>2. PICK b : b = acct'[j]
    OBVIOUS
  <2>3. /\ b.escrow = a.escrow /\ b.fee = a.fee /\ b.held = a.held /\ b.val = a.val
        /\ b.team = a.team /\ b.treas = a.treas /\ b.right = a.right
        /\ b.toVal = a.toVal /\ b.toTeam = a.toTeam /\ b.toTeamPool = a.toTeamPool
        /\ b.toTreasury = a.toTreasury /\ b.toClient = a.toClient /\ b.credit = a.credit
        /\ b.comp = a.comp /\ b.bondBack = a.bondBack /\ b.bondForfeit = a.bondForfeit
        /\ b.bond = d /\ b.bondIn = d
    BY <1>5, <2>2 DEF Account
  <2>4. Undecided0(a) /\ a.toClient = 0 /\ Bounded(a)
    BY <1>1, <1>4, <1>9 DEF JobSafe, Unresolved
  <2>5. Undecided0(b) /\ Bounded(b)
    BY <2>3, <2>4 DEF Undecided0, Bounded
  <2>6. Unpaid(j)' /\ Unresolved(j)' /\ Bounded(acct[j])'
    BY <1>9, <2>2, <2>3, <2>4, <2>5 DEF Unpaid, Unresolved
  <2>7. Final(j)'
    BY <1>1, <1>4, <1>9, <2>2, <2>3 DEF JobSafe, Final
  <2>8. Ahead(j)'
    <3>1. a.escrow = 0
      BY <1>1, <1>4, <1>9 DEF JobSafe, Ahead, paid, jobIsPaid, Account
    <3>2. HasPart(b) => HasPart(a)
      BY <2>3 DEF HasPart
    <3> QED BY <1>1, <1>4, <1>7, <1>9, <2>2, <2>3, <3>1, <3>2 DEF JobSafe, Ahead
  <2>9. OneDraw(j)'
    BY <1>7, <1>9 DEF JobSafe, OneDraw, Queued, Queues
  <2>10. Stripped(j)' /\ Drawn(j)'
    BY <1>1, <1>2, <1>6, <1>9 DEF JobSafe, Staged, Stripped, Undone, Drawn
  <2>11. Bonded(j)'
    BY <1>1, <1>2, <1>4, <1>9, <2>2, <2>3 DEF JobSafe, Bonded, Registered
  <2> QED BY <2>1, <2>6, <2>7, <2>8, <2>9, <2>10, <2>11 DEF JobSafe
<1>11. Counted'
  <2>1. \A k \in Jobs \ {j} : (disputed(k) \/ selected(k))' <=> (disputed(k) \/ selected(k))
    BY <1>2 DEF disputed, selected
  <2>2. seat[j].selected <=> disputed(j) \/ selected(j)
    BY <1>1, <1>9 DEF JobSafe, Drawn
  <2> QED BY <1>1, <1>9, <2>1, <2>2, CountedOne DEF Safe
<1> QED BY <1>1, <1>8, <1>10, <1>11, Elsewhere, TxBatch DEF Safe

(* Every transaction.                                                       *)
LEMMA TxSafe == ASSUME Safe, IInv', Tx PROVE Safe'
<1>1. CASE \E j \in Jobs, fee \in Fees : OpenJob(j, fee)
  BY <1>1, OpenJobSafe
<1>2. CASE \E j \in Jobs, m \in Miners :
             \/ \E v \in {"vector", "garbage"} : CommitWork(j, m, v)
             \/ \E v \in {"valid", "invalid"}  : CommitVerdict(j, m, v)
             \/ \E v \in {"agree", "differ"}   : CommitRedo(j, m, v)
  <2>1. phase' = "tx" /\ UNCHANGED <<job, acct, seat, q, pendingRelease, opened, miner>>
    BY <1>2 DEF CommitWork, CommitVerdict, CommitRedo, MayCommit, InTx
  <2> QED BY <2>1, VoteOrParamsSafe
<1>3. CASE \E j \in Jobs, redo \in SUBSET Miners : DisputeVerdict(j, redo)
  BY <1>3, DisputeSafe
<1>4. CASE \E j \in Jobs, no \in SUBSET Refusable :
             \/ ResolveRejected(j, no)
             \/ ResolveUpheld(j, no)
             \/ AdjudicateHonest(j, no)
             \/ AdjudicateCheated(j, no)
             \/ settleOptimistic(j, no)
  BY <1>4, ResolveSafe, AdjudicateSafe, SettleSafe
<1>5. CASE \E m \in Leavers, self \in BOOLEAN :
             \/ UpdateMiner(m, self)
             \/ \E s \in Stakes : CreateMiner(m, s, self)
  BY <1>5, BoundsAssumption, RegistrySafe
<1>6. CASE \E m \in Leavers, live \in BOOLEAN : DeleteMiner(m, live)
  BY <1>6, BoundsAssumption, RegistrySafe
<1>7. CASE \E p \in ParamSets : UpdateParams(p)
  <2>1. phase' = "tx" /\ UNCHANGED <<job, acct, seat, q, pendingRelease, opened, miner>>
    BY <1>7 DEF UpdateParams, InTx
  <2> QED BY <2>1, VoteOrParamsSafe
<1> QED BY <1>1, <1>2, <1>3, <1>4, <1>5, <1>6, <1>7 DEF Tx

-----------------------------------------------------------------------------
(* The EndBlocker.  Entries that are dropped or booked again.               *)
LEMMA OtherQueues ==
  ASSUME IInv, NEW e, NEW n, NEW again, Rebook(e, n, again),
         NEW x \in Queues, x # phase, NEW j, Queued(x, j)
  PROVE  Queued(x, j)'
BY Rebooked DEF Queued

LEMMA BookedAgain ==
  ASSUME IInv, NEW e, NEW n \in Queues, NEW f, Rebook(e, n, {f})
  PROVE  Queued(n, f[2])'
BY Rebooked DEF Queued

LEMMA SameDraws ==
  ASSUME NEW j \in Jobs, JobSafe(j), SameRecord(j), q'["audit"] \subseteq q["audit"]
  PROVE  OneDraw(j)'
<1>1. OneDraw(j)
  BY DEF JobSafe
<1>2. paid(j)' = paid(j) /\ passed(j)' = passed(j)
  BY DEF SameRecord, paid, passed
<1> QED BY <1>1, <1>2 DEF OneDraw, Queued

(* A step that only moves the appointment e of job j.                       *)
LEMMA RequeuedSafe ==
  ASSUME Safe, IInv', NEW e, Serve(e), phase \in Queues, NEW j \in Jobs, e[2] = j,
         NEW n, NEW again, Rebook(e, n, again), \A f \in again : f[2] = j,
         \A k \in Jobs : SameRecord(k),
         UNCHANGED <<acct, seat, pendingRelease, opened, miner>>,
         Ahead(j)', OneDraw(j)'
  PROVE  Safe'
<1>1. BatchSafe'
  BY BatchServed DEF Safe
<1>2. \A k \in Jobs \ {j} : SameQueues(k)
  BY RebookedQueues DEF Safe
<1>3. \A k \in Jobs : StillBonded(k)
  BY DEF StillBonded, Registered, SameRecord
<1>4. \A k \in Jobs \ {j} : Apart(k)
  BY <1>2, <1>3 DEF Apart, SameMark
<1>5. /\ paid(j)' = paid(j) /\ disputed(j)' = disputed(j) /\ resolved(j)' = resolved(j)
      /\ passed(j)' = passed(j) /\ selected(j)' = selected(j) /\ JobSafe(j)
  BY DEF SameRecord, paid, disputed, resolved, passed, selected, Safe
<1>6. JobSafe(j)'
  <2>1. Staged(j)'
    BY <1>5 DEF JobSafe, Staged, SameRecord
  <2>2. Unpaid(j)' /\ Unresolved(j)' /\ Bounded(acct[j])'
    BY <1>5 DEF JobSafe, Unpaid, Unresolved, Bounded, Undecided0
  <2>3. Stripped(j)' /\ Final(j)' /\ Drawn(j)'
    BY <1>5 DEF JobSafe, Stripped, Undone, Final, Drawn, SameRecord
  <2>4. Bonded(j)'
    BY <1>5 DEF JobSafe, Bonded, SameRecord, Registered
  <2> QED BY <2>1, <2>2, <2>3, <2>4 DEF JobSafe
<1>7. Counted'
  <2>1. \A k \in Jobs : (disputed(k) \/ selected(k))' <=> (disputed(k) \/ selected(k))
    BY DEF disputed, selected, SameRecord
  <2> QED BY <2>1, CountedSame DEF Safe
<1> QED BY <1>1, <1>4, <1>6, <1>7, Elsewhere DEF Safe

(* The expiry of a job, and its reveal.                                     *)
LEMMA ExpiryRevealSafe ==
  ASSUME Safe, IInv', NEW e \in todo,
         \/ ExpireMoved(e) \/ RevealDeferred(e)
         \/ \E no : ExpireLater(e, no)
         \/ \E com, prim : Reveal(e, com, prim)
  PROVE  Safe'
<1>1. /\ Serve(e) /\ phase \in {"expiry", "reveal"}
      /\ UNCHANGED <<acct, seat, pendingRelease, opened, miner>>
  BY DEF ExpireMoved, RevealDeferred, ExpireLater, Reveal
<1>2. PICK j \in Jobs : j = e[2] /\ JobSafe(j)
  BY <1>1, EntryOK DEF Safe
<1>3. \A k \in Jobs : SameRecord(k)
  <2>1. CASE job' = job
    BY <2>1 DEF SameRecord
  <2>2. CASE \E com, prim : Reveal(e, com, prim)
    <3>1. PICK com, prim : job' = [job EXCEPT ![j].revealed = TRUE, ![j].com = com,
                                              ![j].prim = prim]
      BY <1>2, <2>2 DEF Reveal
    <3>2. job \in [Jobs -> JobRecord]
      BY DEF Safe, IInv
    <3>3. \A k \in Jobs \ {j} : job'[k] = job[k]
      BY <3>1, <3>2
    <3>4. /\ job'[j].st = job[j].st /\ job'[j].miner = job[j].miner /\ job'[j].by = job[j].by
          /\ job'[j].against = job[j].against /\ job'[j].drawn = job[j].drawn
      BY <3>1, <3>2 DEF JobRecord
    <3> QED BY <3>3, <3>4 DEF SameRecord
  <2> QED BY <2>1, <2>2 DEF ExpireMoved, RevealDeferred, ExpireLater
<1>4. PICK n, again :
        /\ n \in {"expiry", "reveal"}
        /\ Rebook(e, n, again) /\ \A f \in again : f[2] = j
        /\ phase = "expiry" => n = "expiry" /\ (again # {} \/ job[j].st # {"open"})
        /\ phase = "reveal" => n = "reveal"
  <2>1. CASE ExpireMoved(e)
    BY <1>2, <2>1 DEF ExpireMoved
  <2>2. CASE RevealDeferred(e)
    <3>1. \A f \in {<<height + auditDeferStride, e[2]>>} : f[2] = j
      BY <1>2
    <3> QED BY <2>2, <3>1 DEF RevealDeferred
  <2>3. CASE \E no : ExpireLater(e, no)
    <3>1. PICK f : f = <<height + jobExpiryRetryBlocks, e[2]>>
      OBVIOUS
    <3>2. Rebook(e, "expiry", {f}) /\ phase = "expiry"
      BY <2>3, <3>1 DEF ExpireLater
    <3>3. \A g \in {f} : g[2] = j
      BY <1>2, <3>1
    <3>4. {f} # {} /\ "expiry" \in {"expiry", "reveal"} /\ "expiry" # "reveal"
      OBVIOUS
    <3> QED BY <3>2, <3>3, <3>4
  <2>4. CASE \E com, prim : Reveal(e, com, prim)
    <3>1. Rebook(e, "reveal", {}) /\ phase = "reveal"
      BY <2>4 DEF Reveal
    <3>2. \A f \in {} : f[2] = j
      OBVIOUS
    <3>3. "reveal" \in {"expiry", "reveal"} /\ "expiry" # "reveal"
      OBVIOUS
    <3> QED BY <3>1, <3>2, <3>3
  <2> QED BY <2>1, <2>2, <2>3, <2>4
<1>5. Queued("expiry", j) /\ job[j].st = {"open"} => Queued("expiry", j)'
  <2>1. CASE phase = "expiry"
    BY <1>4, <2>1, Rebooked DEF Queued, Safe, Queues
  <2>2. CASE phase = "reveal"
    BY <1>4, <2>2, OtherQueues DEF Safe, Queues
  <2> QED BY <1>1, <2>1, <2>2
<1>6. \A x \in {"audit", "resolve", "appeal"} : Queued(x, j) => Queued(x, j)'
  BY <1>1, <1>4, OtherQueues DEF Safe, Queues
<1>7. Ahead(j)'
  <2>1. /\ paid(j)' = paid(j) /\ disputed(j)' = disputed(j) /\ resolved(j)' = resolved(j)
        /\ passed(j)' = passed(j) /\ Ahead(j)
    BY <1>2, <1>3 DEF SameRecord, paid, disputed, resolved, passed, JobSafe
  <2> QED BY <1>1, <1>3, <1>5, <1>6, <2>1 DEF Ahead, SameRecord
<1>8. OneDraw(j)'
  BY <1>1, <1>2, <1>3, <1>4, Rebooked, SameDraws DEF Safe, Queues
<1> QED BY <1>1, <1>2, <1>3, <1>4, <1>7, <1>8, RequeuedSafe DEF Queues

(* The lottery drops the entry, or waits for a seed.                        *)
LEMMA LotteryWaitsSafe ==
  ASSUME Safe, IInv', NEW e \in todo, AuditDrop(e) \/ AuditNoSeedDefer(e)
  PROVE  Safe'
<1>1. /\ Serve(e) /\ phase = "audit" /\ UNCHANGED <<job, acct, seat, pendingRelease, opened, miner>>
  BY DEF AuditDrop, AuditNoSeedDefer, AuditDue
<1>2. PICK j \in Jobs : j = e[2] /\ JobSafe(j)
  BY <1>1, EntryOK DEF Safe
<1>3. \A k \in Jobs : SameRecord(k)
  BY <1>1 DEF SameRecord
<1>4. e \in q["audit"]
  BY <1>1 DEF Safe, BatchSafe, Queues
<1>5. CASE AuditDrop(e)
  <2>1. Rebook(e, "audit", {}) /\ (~paid(j) \/ resolved(j))
    BY <1>2, <1>5 DEF AuditDrop, paid, resolved
  <2>2. \A x \in {"expiry", "resolve", "appeal"} : Queued(x, j) => Queued(x, j)'
    BY <1>1, <2>1, OtherQueues DEF Safe, Queues
  <2>3. Ahead(j)'
    <3>1. Ahead(j)
      BY <1>2 DEF JobSafe
    <3> QED BY <1>1, <2>1, <2>2, <3>1 DEF Ahead, paid, resolved, passed, disputed
  <2>4. OneDraw(j)'
    BY <1>1, <1>2, <1>3, <2>1, Rebooked, SameDraws DEF Safe, Queues
  <2>5. \A f \in {} : f[2] = j
    OBVIOUS
  <2> QED BY <1>1, <1>2, <1>3, <2>1, <2>3, <2>4, <2>5, RequeuedSafe DEF Queues
<1>6. CASE AuditNoSeedDefer(e)
  <2>1. PICK f : f[2] = j /\ Rebook(e, "audit", {f})
    BY <1>2, <1>6 DEF AuditNoSeedDefer
  <2>2. \A x \in {"expiry", "resolve", "appeal"} : Queued(x, j) => Queued(x, j)'
    BY <1>1, <2>1, OtherQueues DEF Safe, Queues
  <2>3. Queued("audit", j)'
    BY <2>1, BookedAgain DEF Safe, Queues
  <2>4. Ahead(j)'
    <3>1. Ahead(j)
      BY <1>2 DEF JobSafe
    <3> QED BY <1>1, <2>2, <2>3, <3>1 DEF Ahead, paid, resolved, passed, disputed
  <2>5. OneDraw(j)'
    <3>1. q'["audit"] = (q["audit"] \ {e}) \union {f}
      BY <1>1, <2>1, Rebooked DEF Safe, Queues
    <3>2. \A g \in q["audit"] : g[2] = j => g = e
      BY <1>2, <1>4 DEF JobSafe, OneDraw
    <3>3. paid(j) /\ ~passed(j)
      BY <1>2, <1>4 DEF JobSafe, OneDraw, Queued
    <3>4. paid(j)' /\ ~passed(j)'
      BY <1>1, <3>3 DEF paid, passed
    <3>5. \A g, h \in q'["audit"] : g[2] = j /\ h[2] = j => g = h
      BY <3>1, <3>2
    <3> QED BY <3>4, <3>5 DEF OneDraw
  <2>6. \A g \in {f} : g[2] = j
    BY <2>1
  <2> QED BY <1>1, <1>2, <1>3, <2>1, <2>4, <2>5, <2>6, RequeuedSafe DEF Queues
<1> QED BY <1>5, <1>6

(* A deadline finds the dispute closed, or books another.                   *)
LEMMA DeadlineMovesSafe ==
  ASSUME Safe, IInv', NEW e \in todo, ResolveStale(e) \/ ResolveDefer(e)
  PROVE  Safe'
<1>1. /\ Serve(e) /\ phase \in {"resolve", "appeal"}
      /\ UNCHANGED <<job, acct, seat, pendingRelease, opened, miner>>
  BY DEF ResolveStale, ResolveDefer, Undecided, Judged, ResolveDue
<1>2. PICK j \in Jobs : j = e[2] /\ JobSafe(j)
  BY <1>1, EntryOK DEF Safe
<1>3. \A k \in Jobs : SameRecord(k)
  BY <1>1 DEF SameRecord
<1>4. PICK n, again :
        /\ n \in {"resolve", "appeal"}
        /\ Rebook(e, n, again) /\ \A f \in again : f[2] = j
        /\ again # {} \/ ~OpenDispute(j)
  <2>1. CASE ResolveStale(e)
    BY <1>1, <1>2, <2>1 DEF ResolveStale
  <2>2. CASE ResolveDefer(e)
    <3>1. \/ Rebook(e, "appeal", {<<height + params.AppealWindow, e[2]>>})
          \/ Rebook(e, "resolve", {<<height + params.AuditResolveTimeout, e[2]>>})
      BY <2>2 DEF ResolveDefer
    <3>2. PICK n \in {"resolve", "appeal"}, t \in {height + params.AppealWindow,
                                                  height + params.AuditResolveTimeout} :
            Rebook(e, n, {<<t, e[2]>>})
      BY <3>1
    <3> DEFINE again == {<<t, e[2]>>}
    <3>3. again # {} /\ \A f \in again : f[2] = j
      BY <1>2
    <3>4. Rebook(e, n, again)
      BY <3>2
    <3> HIDE DEF again
    <3> QED BY <3>2, <3>3, <3>4
  <2> QED BY <1>1, <2>1, <2>2
<1>5. \A x \in {"expiry", "audit"} : Queued(x, j) => Queued(x, j)'
  BY <1>1, <1>4, OtherQueues DEF Safe, Queues
<1>6. OpenDispute(j) => Queued("resolve", j)' \/ Queued("appeal", j)'
  <2>1. SUFFICES ASSUME OpenDispute(j) PROVE Queued(n, j)'
    BY <1>4
  <2>2. PICK f \in again : f[2] = j
    BY <1>4, <2>1
  <2>3. f \in q'[n]
    BY <1>4, <2>2, Rebooked DEF Safe, Queues
  <2> QED BY <2>2, <2>3 DEF Queued
<1>7. Ahead(j)'
  <2>1. Ahead(j)
    BY <1>2 DEF JobSafe
  <2> QED BY <1>1, <1>5, <1>6, <2>1 DEF Ahead, OpenDispute, paid, resolved, passed, disputed
<1>8. OneDraw(j)'
  BY <1>1, <1>2, <1>3, <1>4, Rebooked, SameDraws DEF Safe, Queues
<1> QED BY <1>1, <1>2, <1>3, <1>4, <1>7, <1>8, RequeuedSafe DEF Queues

(* An unserved job is refunded.                                             *)
LEMMA ExpireRefundSafe ==
  ASSUME Safe, IInv', NEW e \in todo, NEW no, ExpireRefund(e, no)
  PROVE  Safe'
<1>1. PICK j \in Jobs : j = e[2] /\ JobSafe(j)
  BY EntryOK DEF ExpireRefund, Safe
<1>2. PICK a \in Account : a = acct[j] /\ FeeConserved(a)
  BY AccountOf DEF Safe
<1>3. PICK b : b = ExpireAccount(a)
  OBVIOUS
<1>4. /\ Serve(e) /\ phase = "expiry" /\ Rebook(e, "expiry", {}) /\ job[j].st = {"open"}
      /\ acct' = [acct EXCEPT ![j] = b]
      /\ job' = [job EXCEPT ![j].st = @ \union {"expired", "refunded"}, ![j].by = "expiry"]
      /\ UNCHANGED <<seat, miner, pendingRelease, opened>>
  BY <1>1, <1>2, <1>3 DEF ExpireRefund
<1>5. /\ job'[j].st = {"open", "expired", "refunded"} /\ job'[j].by = "expiry"
      /\ job'[j].miner = job[j].miner /\ job'[j].against = job[j].against
      /\ job'[j].drawn = job[j].drawn
      /\ \A k \in Jobs \ {j} : job'[k] = job[k]
  BY <1>4 DEF Safe, IInv, JobRecord
<1>6. acct'[j] = b /\ \A k \in Jobs \ {j} : acct'[k] = acct[k]
  BY <1>4 DEF Safe, IInv, Ledger
<1>7. \A k \in Jobs \ {j} : Apart(k)
  <2>1. \A k \in Jobs \ {j} : SameQueues(k)
    BY <1>1, <1>4, RebookedQueues DEF Safe
  <2> QED BY <1>4, <1>5, <1>6, <2>1, ApartByEquality DEF SameMark, SameRegistry
<1>8. /\ ~paid(j) /\ ~disputed(j) /\ ~resolved(j) /\ job[j].drawn = "none"
      /\ ~paid(j)' /\ ~disputed(j)' /\ ~resolved(j)' /\ job'[j].drawn = "none"
  <2>1. ~paid(j) /\ ~disputed(j) /\ ~resolved(j)
    BY <1>4 DEF paid, disputed, resolved, jobIsPaid, jobIsDisputed, jobIsResolved
  <2>2. job[j].drawn = "none"
    BY <1>1, <2>1 DEF JobSafe, Staged
  <2> QED BY <1>5, <2>1, <2>2 DEF paid, disputed, resolved, jobIsPaid, jobIsDisputed, jobIsResolved
<1>9. JobSafe(j)'
  <2>1. Staged(j)'
    BY <1>1, <1>5, <1>8 DEF JobSafe, Staged
  <2>2. /\ b.escrow = 0 /\ b.fee = a.fee /\ b.held = a.held /\ b.val = a.val
        /\ b.team = a.team /\ b.treas = a.treas /\ b.right = a.right
        /\ b.toVal = a.toVal /\ b.toTeam = a.toTeam /\ b.toTeamPool = a.toTeamPool
        /\ b.toTreasury = a.toTreasury /\ b.credit = a.credit
        /\ b.comp = a.comp /\ b.bondBack = a.bondBack /\ b.bondForfeit = a.bondForfeit
        /\ b.bond = a.bond /\ b.bondIn = a.bondIn
    BY <1>2, <1>3 DEF Account, ExpireAccount
  <2>3. b \in Account /\ FeeConserved(b)
    BY <1>2, <1>3, ExpireAccountOK
  <2>4. Undecided0(a) /\ Bounded(a)
    BY <1>1, <1>2, <1>8 DEF JobSafe, Unresolved
  <2>5. Undecided0(b)
    BY <2>2, <2>4 DEF Undecided0
  <2>6. Bounded(b)
    <3>1. b.toClient <= b.fee /\ b.toClient \in Nat
      BY <2>3, ClientWithinFee DEF Account
    <3> QED BY <2>2, <2>4, <3>1 DEF Bounded, Undecided0
  <2>7. Unpaid(j)' /\ Unresolved(j)' /\ Bounded(acct[j])' /\ Final(j)'
    BY <1>1, <1>2, <1>4, <1>6, <1>8, <2>2, <2>5, <2>6 DEF JobSafe, Unpaid, Unresolved, Final
  <2>8. Ahead(j)'
    <3>1. ~passed(j)'
      BY <1>8 DEF passed
    <3> QED BY <1>6, <1>8, <2>2, <3>1 DEF Ahead
  <2>9. OneDraw(j)'
    <3>1. q'["audit"] = q["audit"]
      <4>1. "audit" \in Queues /\ "audit" # phase
        BY <1>4 DEF Queues
      <4>2. q'["audit"] = q["audit"] \union (IF "audit" = "expiry" THEN {} ELSE {})
        BY <1>4, <4>1, Rebooked DEF Safe
      <4> QED BY <4>2
    <3> QED BY <1>1, <1>8, <3>1 DEF JobSafe, OneDraw, Queued
  <2>10. Stripped(j)' /\ Bonded(j)'
    BY <1>1, <1>2, <1>6, <1>8, <2>2 DEF JobSafe, Unpaid, Stripped, Bonded
  <2>11. Drawn(j)'
    BY <1>1, <1>4, <1>8 DEF JobSafe, Drawn, selected
  <2> QED BY <2>1, <2>7, <2>8, <2>9, <2>10, <2>11 DEF JobSafe
<1>10. Counted'
  <2>1. \A k \in Jobs : (disputed(k) \/ selected(k))' <=> (disputed(k) \/ selected(k))
    BY <1>5, <1>8 DEF disputed, selected
  <2> QED BY <1>4, <2>1, CountedSame DEF Safe
<1>11. BatchSafe'
  BY <1>4, BatchServed DEF Safe, Queues
<1> QED BY <1>7, <1>9, <1>10, <1>11, Elsewhere DEF Safe

(* What is known of a job the lottery looks at.                             *)
LEMMA LotteryFacts ==
  ASSUME Safe, NEW e \in todo, AuditDue(e), NEW j \in Jobs, j = e[2]
  PROVE  /\ JobSafe(j) /\ phase = "audit" /\ Serve(e)
         /\ paid(j) /\ ~resolved(j) /\ ~passed(j) /\ ~Undone(j)
         /\ acct[j].escrow = 0 /\ acct[j] \in Account
         /\ \A f \in q["audit"] : f[2] = j => f = e
<1>1. JobSafe(j) /\ phase = "audit" /\ Serve(e) /\ paid(j) /\ ~resolved(j)
  BY DEF AuditDue, Safe, paid, resolved
<1>2. e \in q["audit"]
  BY <1>1 DEF Safe, BatchSafe, Queues
<1>3. ~passed(j) /\ \A f \in q["audit"] : f[2] = j => f = e
  BY <1>1, <1>2 DEF JobSafe, OneDraw, Queued
<1>4. acct[j].escrow = 0 /\ acct[j] \in Account
  BY <1>1, AccountOf DEF JobSafe, Ahead, paid, jobIsPaid, Account, Safe
<1>5. ~Undone(j)
  BY <1>1 DEF JobSafe, Staged, Undone
<1> QED BY <1>1, <1>3, <1>4, <1>5

(* Passed over.                                                             *)
LEMMA AuditPassSafe ==
  ASSUME Safe, IInv', NEW e \in todo, NEW no, AuditPass(e, no)
  PROVE  Safe'
<1>1. PICK j \in Jobs : j = e[2]
  BY EntryOK DEF AuditPass, AuditDue, Safe
<1>2. /\ JobSafe(j) /\ phase = "audit" /\ Serve(e)
      /\ paid(j) /\ ~resolved(j) /\ ~passed(j) /\ ~Undone(j) /\ acct[j].escrow = 0
      /\ acct[j] \in Account /\ \A f \in q["audit"] : f[2] = j => f = e
  BY <1>1, LotteryFacts DEF AuditPass
<1>3. PICK b : b = Released(j, no)
  OBVIOUS
<1>4. /\ ~seat[j].selected /\ Release(j, b) /\ job' = [job EXCEPT ![j].drawn = "passed"]
      /\ Rebook(e, "audit", {}) /\ UNCHANGED <<seat, opened>>
  BY <1>1, <1>3 DEF AuditPass
<1>5. Paying(acct[j], b) /\ SameBond(acct[j], b) /\ Bounded(b)
  BY <1>3, ReleasedAlone
<1>6. /\ job'[j].st = job[j].st /\ job'[j].miner = job[j].miner /\ job'[j].by = job[j].by
      /\ job'[j].against = job[j].against /\ job'[j].drawn = "passed"
      /\ \A k \in Jobs \ {j} : job'[k] = job[k]
  BY <1>4 DEF Safe, IInv, JobRecord
<1>7. acct'[j] = b /\ \A k \in Jobs \ {j} : acct'[k] = acct[k]
  BY <1>4 DEF Release, Safe, IInv, Ledger
<1>8. /\ ReleasePending(b) => j \in pendingRelease'
      /\ \A k \in Jobs \ {j} : SameMark(k)
  BY <1>4 DEF Release, SameMark
<1>9. SameRegistry
  BY <1>4, ReleaseKeepsRegistry DEF Safe
<1>10. \A k \in Jobs \ {j} : Apart(k)
  <2>1. \A k \in Jobs \ {j} : SameQueues(k)
    BY <1>1, <1>4, RebookedQueues DEF Safe
  <2> QED BY <1>4, <1>6, <1>7, <1>8, <1>9, <2>1, ApartByEquality
<1>11. /\ paid(j)' /\ ~resolved(j)' /\ passed(j)' /\ ~selected(j)' /\ ~Undone(j)'
       /\ disputed(j)' = disputed(j)
  BY <1>2, <1>6 DEF paid, resolved, passed, selected, disputed, Undone
<1>12. JobSafe(j)'
  <2>1. Staged(j)'
    BY <1>2, <1>6, <1>11 DEF JobSafe, Staged
  <2>2. b.escrow = 0 /\ (HasPart(b) => ReleasePending(b))
    BY <1>2, <1>5 DEF Paying, Onward, HasPart, ReleasePending
  <2>3. Undecided0(b) /\ b.toClient = 0
    BY <1>2, <1>5 DEF JobSafe, Unresolved, Undecided0, Paying, SameBond
  <2>4. Unpaid(j)' /\ Unresolved(j)' /\ Bounded(acct[j])' /\ Final(j)'
    BY <1>5, <1>7, <1>11, <2>3 DEF Unpaid, Unresolved, Final
  <2>5. Ahead(j)'
    <3>1. \A x \in {"resolve", "appeal"} : Queued(x, j) => Queued(x, j)'
      BY <1>2, <1>4, OtherQueues DEF Safe, Queues
    <3>2. disputed(j) => Queued("resolve", j) \/ Queued("appeal", j)
      BY <1>2 DEF JobSafe, Ahead
    <3> QED BY <1>7, <1>8, <1>11, <2>2, <3>1, <3>2 DEF Ahead
  <2>6. OneDraw(j)'
    <3>1. \A f \in q'["audit"] : f[2] # j
      BY <1>2, <1>4, Rebooked DEF Safe, Queues
    <3> QED BY <3>1 DEF OneDraw, Queued
  <2>7. Stripped(j)'
    BY <1>11 DEF Stripped
  <2>8. Drawn(j)'
    BY <1>2, <1>4, <1>11 DEF JobSafe, Drawn
  <2>9. Bonded(j)'
    <3>1. acct'[j].held > 0 => Registered(job[j].miner)
      BY <1>2, <1>5, <1>7 DEF JobSafe, Bonded, Paying
    <3> QED BY <1>6, <1>9, <3>1 DEF Bonded, SameRegistry, Registered
  <2> QED BY <2>1, <2>4, <2>5, <2>6, <2>7, <2>8, <2>9 DEF JobSafe
<1>13. Counted'
  <2>1. \A k \in Jobs \ {j} : (disputed(k) \/ selected(k))' <=> (disputed(k) \/ selected(k))
    BY <1>6 DEF disputed, selected
  <2>2. (disputed(j) \/ selected(j))' <=> (disputed(j) \/ selected(j))
    BY <1>2, <1>4, <1>11 DEF JobSafe, Drawn
  <2> QED BY <1>4, <2>1, <2>2, CountedSame DEF Safe
<1>14. BatchSafe'
  BY <1>2, <1>4, BatchServed DEF Safe, Queues
<1> QED BY <1>10, <1>12, <1>13, <1>14, Elsewhere DEF Safe

(* A selected job is in an audit or a dispute, and was counted.             *)
LEMMA DrawnCounted ==
  ASSUME Safe, NEW e \in todo, NEW jury, AuditDrawn(e, jury), NEW j \in Jobs, j = e[2],
         selected(j)', \A k \in Jobs \ {j} : SameRecord(k)
  PROVE  Counted'
<1>1. JobSafe(j) /\ ~resolved(j)
  BY LotteryFacts DEF AuditDrawn
<1>2. seat[j].selected \/ disputed(j) <=> disputed(j) \/ selected(j)
  BY <1>1 DEF JobSafe, Drawn
<1>3. opened' = IF disputed(j) \/ selected(j) THEN opened ELSE opened + 1
  BY <1>2 DEF AuditDrawn, disputed
<1>4. \A k \in Jobs \ {j} : (disputed(k) \/ selected(k))' <=> (disputed(k) \/ selected(k))
  BY DEF disputed, selected, SameRecord
<1> QED BY <1>3, <1>4, CountedOne DEF Safe

(* A jury that meets the floor has a member.                                *)
LEMMA JuryNotEmpty ==
  ASSUME Safe, NEW jury \in SUBSET Miners, Cardinality(jury) >= effectiveSlashFloor(params)
  PROVE  jury # {}
<1>1. params.AuditMinQuorum \in Nat
  BY ParamsOK DEF Safe, IInv, BlockOK, ParamsRecord
<1>2. effectiveSlashFloor(params) \in Nat \ {0}
  BY <1>1, BoundsAssumption DEF effectiveSlashFloor
<1>3. Cardinality({}) = 0
  BY FS_EmptySet
<1> QED BY <1>2, <1>3

(* Selected, with a jury.                                                   *)
LEMMA AuditSelectSafe ==
  ASSUME Safe, IInv', NEW e \in todo, NEW jury \in SUBSET Miners, AuditSelect(e, jury)
  PROVE  Safe'
<1>1. PICK j \in Jobs : j = e[2]
  BY EntryOK DEF AuditSelect, AuditDrawn, AuditDue, Safe
<1>2. /\ JobSafe(j) /\ phase = "audit" /\ Serve(e)
      /\ paid(j) /\ ~resolved(j) /\ ~passed(j) /\ ~Undone(j) /\ acct[j].escrow = 0
      /\ acct[j] \in Account /\ \A f \in q["audit"] : f[2] = j => f = e
  BY <1>1, LotteryFacts DEF AuditSelect, AuditDrawn
<1>3. PICK a \in Account : a = acct[j]
  BY <1>2
<1>4. PICK d \in Nat : d <= a.bond /\ acct' = [acct EXCEPT ![j] = [a EXCEPT !.bond = d]]
  <2>1. PICK d \in Nat : d <= a.bond /\ d = IF ~jobIsDisputed(job[j].st) THEN 0 ELSE a.bond
    BY DEF Account
  <2>2. acct' = [acct EXCEPT ![j].bond = d]
    BY <1>1, <1>3, <2>1 DEF AuditSelect
  <2> QED BY <1>3, <2>1, <2>2 DEF Safe, IInv, Ledger
<1>5. PICK f : f[2] = j /\ Rebook(e, "resolve", {f})
  BY <1>1 DEF AuditSelect
<1>6. /\ job'[j].st = job[j].st \union {"disputed"} /\ job'[j].miner = job[j].miner
      /\ job'[j].by = job[j].by /\ job'[j].against = job[j].against
      /\ job'[j].drawn = "selected"
      /\ \A k \in Jobs \ {j} : job'[k] = job[k]
  <2>1. PICK h : job' = [job EXCEPT ![j].st = @ \union {"disputed"}, ![j].drawn = "selected",
                                    ![j].dheight = h]
    BY <1>1 DEF AuditSelect, Safe, IInv, JobRecord
  <2> QED BY <2>1 DEF Safe, IInv, JobRecord
<1>7. PICK b : b = acct'[j] /\ \A k \in Jobs \ {j} : acct'[k] = acct[k]
  BY <1>4 DEF Safe, IInv, Ledger
<1>8. /\ seat'[j].jury = jury /\ seat'[j].selected = FALSE
      /\ \A k \in Jobs \ {j} : seat'[k] = seat[k]
  BY <1>1 DEF AuditSelect, Safe, IInv, SeatRecord
<1>9. UNCHANGED <<miner, pendingRelease>>
  BY DEF AuditSelect
<1>10. \A k \in Jobs \ {j} : Apart(k)
  <2>1. \A k \in Jobs \ {j} : SameQueues(k)
    BY <1>1, <1>5, RebookedQueues DEF Safe
  <2> QED BY <1>6, <1>7, <1>8, <1>9, <2>1, ApartByEquality DEF SameMark, SameRegistry
<1>11. paid(j)' /\ ~resolved(j)' /\ ~passed(j)' /\ selected(j)' /\ disputed(j)' /\ ~Undone(j)'
  BY <1>2, <1>6 DEF paid, resolved, passed, selected, disputed, Undone, jobIsPaid, jobIsResolved,
                    jobIsDisputed
<1>12. JobSafe(j)'
  <2>1. Staged(j)'
    BY <1>2, <1>6, <1>11 DEF JobSafe, Staged
  <2>2. /\ b.escrow = 0 /\ b.fee = a.fee /\ b.held = a.held /\ b.val = a.val
        /\ b.team = a.team /\ b.treas = a.treas /\ b.right = a.right
        /\ b.toVal = a.toVal /\ b.toTeam = a.toTeam /\ b.toTeamPool = a.toTeamPool
        /\ b.toTreasury = a.toTreasury /\ b.credit = a.credit /\ b.toClient = a.toClient
        /\ b.comp = a.comp /\ b.bondBack = a.bondBack /\ b.bondForfeit = a.bondForfeit
        /\ b.bond = d /\ b.bondIn = a.bondIn
    <3>1. b = [a EXCEPT !.bond = d]
      BY <1>4, <1>7 DEF Safe, IInv, Ledger
    <3> QED BY <1>2, <1>3, <3>1 DEF Account
  <2>3. Undecided0(b) /\ Bounded(b) /\ b.toClient = 0
    <3>1. Undecided0(a) /\ Bounded(a) /\ a.toClient = 0
      BY <1>2, <1>3 DEF JobSafe, Unresolved
    <3> QED BY <1>4, <2>2, <3>1 DEF Undecided0, Bounded, Account
  <2>4. Unpaid(j)' /\ Unresolved(j)' /\ Bounded(acct[j])'
    BY <1>7, <1>11, <2>3 DEF Unpaid, Unresolved
  <2>5. Final(j)'
    BY <1>2, <1>3, <1>7, <1>9, <1>11, <2>2 DEF JobSafe, Final
  <2>6. Ahead(j)'
    <3>1. Queued("resolve", j)'
      BY <1>5, BookedAgain DEF Safe, Queues
    <3> QED BY <1>7, <1>11, <2>2, <3>1 DEF Ahead
  <2>7. OneDraw(j)'
    <3>1. \A g \in q'["audit"] : g[2] # j
      BY <1>2, <1>5, Rebooked DEF Safe, Queues
    <3> QED BY <3>1 DEF OneDraw, Queued
  <2>8. Stripped(j)'
    BY <1>11 DEF Stripped
  <2>9. Drawn(j)'
    <3>1. job[j].by \in {"none", "expiry"}
      BY <1>2 DEF JobSafe, Staged
    <3>2. jury # {}
      BY JuryNotEmpty DEF AuditSelect
    <3> QED BY <1>6, <1>8, <1>11, <3>1, <3>2 DEF Drawn
  <2>10. Bonded(j)'
    BY <1>2, <1>3, <1>6, <1>7, <1>9, <2>2 DEF JobSafe, Bonded, Registered
  <2> QED BY <2>1, <2>3, <2>4, <2>5, <2>6, <2>7, <2>8, <2>9, <2>10, <1>7 DEF JobSafe
<1>13. Counted'
  <2>1. \A k \in Jobs \ {j} : SameRecord(k)
    BY <1>10 DEF Apart
  <2> QED BY <1>1, <1>11, <2>1, DrawnCounted DEF AuditSelect
<1>14. BatchSafe'
  BY <1>2, <1>5, BatchServed DEF Safe, Queues
<1> QED BY <1>10, <1>12, <1>13, <1>14, Elsewhere DEF Safe

(* Selected, with too few judges.                                           *)
LEMMA AuditSmallJurySafe ==
  ASSUME Safe, IInv', NEW e \in todo, NEW jury \in SUBSET Miners, AuditSmallJury(e, jury)
  PROVE  Safe'
<1>1. PICK j \in Jobs : j = e[2]
  BY EntryOK DEF AuditSmallJury, AuditDrawn, AuditDue, Safe
<1>2. /\ JobSafe(j) /\ phase = "audit" /\ Serve(e)
      /\ paid(j) /\ ~resolved(j) /\ ~passed(j) /\ ~Undone(j) /\ acct[j].escrow = 0
      /\ acct[j] \in Account /\ \A f \in q["audit"] : f[2] = j => f = e
  BY <1>1, LotteryFacts DEF AuditSmallJury, AuditDrawn
<1>3. PICK f : f[2] = j /\ Rebook(e, "audit", {f})
  BY <1>1 DEF AuditSmallJury
<1>4. /\ job'[j].st = job[j].st /\ job'[j].miner = job[j].miner
      /\ job'[j].by = job[j].by /\ job'[j].against = job[j].against
      /\ job'[j].drawn = "selected"
      /\ \A k \in Jobs \ {j} : job'[k] = job[k]
  BY <1>1 DEF AuditSmallJury, Safe, IInv, JobRecord
<1>5. /\ seat'[j].jury = seat[j].jury /\ seat'[j].selected = TRUE
      /\ \A k \in Jobs \ {j} : seat'[k] = seat[k]
  BY <1>1 DEF AuditSmallJury, Safe, IInv, SeatRecord
<1>6. UNCHANGED <<acct, miner, pendingRelease>>
  BY DEF AuditSmallJury
<1>7. \A k \in Jobs \ {j} : Apart(k)
  <2>1. \A k \in Jobs \ {j} : SameQueues(k)
    BY <1>1, <1>3, RebookedQueues DEF Safe
  <2> QED BY <1>4, <1>5, <1>6, <2>1, ApartByEquality DEF SameMark, SameRegistry
<1>8. /\ paid(j)' /\ ~resolved(j)' /\ ~passed(j)' /\ selected(j)' /\ disputed(j)' = disputed(j)
      /\ ~Undone(j)'
  BY <1>2, <1>4 DEF paid, resolved, passed, selected, disputed, Undone
<1>9. JobSafe(j)'
  <2>1. Staged(j)'
    BY <1>2, <1>4, <1>8 DEF JobSafe, Staged
  <2>2. Unpaid(j)' /\ Unresolved(j)' /\ Bounded(acct[j])' /\ Final(j)'
    BY <1>2, <1>6, <1>8 DEF JobSafe, Unpaid, Unresolved, Bounded, Undecided0, Final
  <2>3. Queued("audit", j)'
    BY <1>3, BookedAgain DEF Safe, Queues
  <2>4. Ahead(j)'
    <3>1. \A x \in {"resolve", "appeal"} : Queued(x, j) => Queued(x, j)'
      BY <1>2, <1>3, OtherQueues DEF Safe, Queues
    <3>2. disputed(j) => Queued("resolve", j) \/ Queued("appeal", j)
      BY <1>2 DEF JobSafe, Ahead
    <3> QED BY <1>2, <1>6, <1>8, <2>3, <3>1, <3>2 DEF Ahead
  <2>5. OneDraw(j)'
    <3>1. q'["audit"] = (q["audit"] \ {e}) \union {f}
      BY <1>2, <1>3, Rebooked DEF Safe, Queues
    <3>2. \A g, h \in q'["audit"] : g[2] = j /\ h[2] = j => g = h
      BY <1>2, <3>1
    <3> QED BY <1>8, <3>2 DEF OneDraw
  <2>6. Stripped(j)'
    BY <1>8 DEF Stripped
  <2>7. Drawn(j)'
    <3>1. job[j].by \in {"none", "expiry"} /\ (seat[j].jury # {} => disputed(j))
      BY <1>2 DEF JobSafe, Staged, Drawn
    <3> QED BY <1>4, <1>5, <1>8, <3>1 DEF Drawn
  <2>8. Bonded(j)'
    BY <1>2, <1>4, <1>6 DEF JobSafe, Bonded, Registered
  <2> QED BY <2>1, <2>2, <2>4, <2>5, <2>6, <2>7, <2>8 DEF JobSafe
<1>10. Counted'
  <2>1. \A k \in Jobs \ {j} : SameRecord(k)
    BY <1>7 DEF Apart
  <2> QED BY <1>1, <1>8, <2>1, DrawnCounted DEF AuditSmallJury
<1>11. BatchSafe'
  BY <1>2, <1>3, BatchServed DEF Safe, Queues
<1> QED BY <1>7, <1>9, <1>10, <1>11, Elsewhere DEF Safe

(* An entry that is served and not booked again.                            *)
LEMMA ServedAway ==
  ASSUME Safe, NEW e, Serve(e), phase \in Queues, Rebook(e, phase, {}), NEW j \in Jobs, j = e[2]
  PROVE  /\ BatchSafe' /\ q'["audit"] \subseteq q["audit"]
         /\ \A k \in Jobs \ {j} : SameQueues(k)
<1>1. \A f \in {} : f[2] = j
  OBVIOUS
<1>2. BatchSafe'
  BY BatchServed DEF Safe
<1>3. \A k \in Jobs \ {j} : SameQueues(k)
  BY RebookedQueues DEF Safe
<1>4. q'["audit"] \subseteq q["audit"]
  BY Rebooked DEF Safe, Queues
<1> QED BY <1>2, <1>3, <1>4

(* A deadline closes the job in the miner's favour.                         *)
LEMMA ResolvedForMinerSafe ==
  ASSUME Safe, IInv', NEW e \in todo, NEW no,
         ResolveSilent(e, no) \/ ResolveUnfounded(e, no) \/ ResolveVindicate(e, no)
  PROVE  Safe'
<1>1. Serve(e) /\ phase \in {"resolve", "appeal"} /\ Rebook(e, phase, {}) /\ opened' = opened
  BY DEF ResolveSilent, ResolveUnfounded, ResolveVindicate, Judged, ResolveDue
<1>2. PICK j \in Jobs : j = e[2]
  BY <1>1, EntryOK DEF Safe
<1>3. OpenDispute(j)
  BY <1>2 DEF ResolveSilent, ResolveUnfounded, ResolveVindicate, Judged, ResolveDue
<1>4. JobSafe(j) /\ ~resolved(j)
  BY <1>3, OpenDisputeFacts DEF Safe
<1>5. /\ BatchSafe' /\ q'["audit"] \subseteq q["audit"]
      /\ \A k \in Jobs \ {j} : SameQueues(k)
  BY <1>1, <1>2, ServedAway DEF Queues
<1>6. CASE ResolveSilent(e, no)
  <2>1. PICK b : b = refundDisputeBond(Released(j, no), no)
    OBVIOUS
  <2>2. Paying(acct[j], b) /\ Bounded(b)
    BY <1>4, <2>1, ReleasedAccount
  <2>3. Release(j, b) /\ Close(j, {}, "silent", FALSE)
    BY <1>2, <1>6, <2>1 DEF ResolveSilent
  <2>4. ~selected(j)
    BY <1>2, <1>4, <1>6 DEF ResolveSilent, LotteryHolds, JobSafe, Drawn
  <2> QED BY <1>1, <1>3, <1>5, <2>2, <2>3, <2>4, ReleasedStep
<1>7. CASE ResolveUnfounded(e, no)
  <2>1. PICK b : b = forfeitBond(Released(j, no))
    OBVIOUS
  <2>2. Paying(acct[j], b) /\ Bounded(b)
    BY <1>4, <2>1, ReleasedAccount
  <2>3. Release(j, b) /\ Close(j, {}, "unfounded", FALSE)
    BY <1>2, <1>7, <2>1 DEF ResolveUnfounded
  <2>4. ~selected(j)
    BY <1>2, <1>4, <1>7 DEF ResolveUnfounded, LotteryHolds, JobSafe, Drawn
  <2> QED BY <1>1, <1>3, <1>5, <2>2, <2>3, <2>4, ReleasedStep
<1>8. CASE ResolveVindicate(e, no)
  <2>1. PICK b : b = forfeitBond(Released(j, no))
    OBVIOUS
  <2>2. Paying(acct[j], b) /\ Bounded(b)
    BY <1>4, <2>1, ReleasedAccount
  <2>3. Release(j, b) /\ Close(j, {"vindicated", "quorum"}, "jury", FALSE)
    BY <1>2, <1>8, <2>1 DEF ResolveVindicate
  <2> QED BY <1>1, <1>3, <1>5, <2>2, <2>3, ReleasedStep
<1> QED BY <1>6, <1>7, <1>8

(* The jury convicts.                                                       *)
LEMMA ResolveSlashSafe ==
  ASSUME Safe, IInv', NEW e \in todo, NEW no, ResolveSlash(e, no)
  PROVE  Safe'
<1>1. Serve(e) /\ phase \in {"resolve", "appeal"} /\ Rebook(e, phase, {})
  BY DEF ResolveSlash, Judged, ResolveDue
<1>2. PICK j \in Jobs : j = e[2]
  BY <1>1, EntryOK DEF Safe
<1>3. OpenDispute(j)
  BY <1>2 DEF ResolveSlash, Judged, ResolveDue
<1>4. /\ BatchSafe' /\ q'["audit"] \subseteq q["audit"]
      /\ \A k \in Jobs \ {j} : SameQueues(k)
  BY <1>1, <1>2, ServedAway DEF Queues
<1>5. PICK amt \in Nat : amt = SlashAmount(j)
  BY SlashAmountOK DEF Safe
<1>6. PICK c : c = SlashedAccount(acct[j], amt, no)
  OBVIOUS
<1>7. PICK b : b = refundDisputeBond(c, no)
  OBVIOUS
<1>8. Refunding(acct[j], b) /\ Bounded(b)
  BY <1>3, <1>6, <1>7, SlashedAndReturned, OpenDisputeFacts
<1>9. /\ acct' = [acct EXCEPT ![j] = b] /\ miner' = TakeStake(DemandReversed(j), j, amt)
      /\ Close(j, {"clawed", "quorum"}, "jury", TRUE) /\ UNCHANGED <<pendingRelease, opened>>
  BY <1>2, <1>5, <1>6, <1>7 DEF ResolveSlash
<1>10. SameRegistry
  BY <1>9, SlashKeepsRegistry DEF Safe
<1>11. PICK marks, by : marks = {"clawed", "quorum"} /\ by = "jury"
  OBVIOUS
<1>12. Close(j, marks, by, TRUE) /\ by \notin {"silent", "unfounded"}
  BY <1>9, <1>11
<1>13. UNCHANGED <<pendingRelease, opened>>
  BY <1>9
<1> QED BY <1>3, <1>4, <1>8, <1>9, <1>10, <1>12, <1>13, UndoneStep

(* The trade is undone.                                                     *)
LEMMA UnwindSafe ==
  ASSUME Safe, IInv', NEW e \in todo, Serve(e), phase \in Queues, Rebook(e, phase, {}),
         NEW j \in Jobs, j = e[2], paid(j), ~resolved(j), NEW no, NEW d, Unwind(j, no, d),
         d = job[j].drawn \/ d = "selected", pendingRelease' = pendingRelease, Counted'
  PROVE  Safe'
<1>1. PICK b : b = refundDisputeBond(refundRetained(acct[j], no), no)
  OBVIOUS
<1>2. Refunding(acct[j], b) /\ Bounded(b)
  <2>1. acct[j] \in Account /\ FeeConserved(acct[j]) /\ Undecided0(acct[j])
    BY AccountOf DEF Safe, JobSafe, Unresolved
  <2> QED BY <1>1, <2>1, RefundedAccount
<1>3. acct'[j] = b /\ \A k \in Jobs \ {j} : acct'[k] = acct[k]
  BY <1>1 DEF Unwind, Safe, IInv, Ledger
<1>4. /\ job'[j].st = job[j].st \union {"resolved", "unwound"} /\ job'[j].by = "unwind"
      /\ job'[j].miner = job[j].miner /\ job'[j].drawn = d
      /\ \A k \in Jobs \ {j} : job'[k] = job[k]
  <2>1. /\ job \in [Jobs -> JobRecord]
        /\ job' = [job EXCEPT ![j].st = @ \union {"resolved", "unwound"}, ![j].by = "unwind",
                              ![j].drawn = d]
    BY DEF Unwind, Safe, IInv
  <2> QED BY <2>1 DEF JobRecord
<1>5. seat'[j] = NoSeat /\ \A k \in Jobs \ {j} : seat'[k] = seat[k]
  BY DEF Unwind, Safe, IInv
<1>6. SameRegistry
  BY ReversalKeepsRegistry DEF Unwind, Safe
<1>7. /\ BatchSafe' /\ q'["audit"] \subseteq q["audit"]
      /\ \A k \in Jobs \ {j} : SameQueues(k)
  BY ServedAway
<1>8. JobSafe(j)'
  BY <1>2, <1>3, <1>4, <1>5, <1>7, UndoneSafe
<1>9. \A k \in Jobs \ {j} : Apart(k)
  BY <1>3, <1>4, <1>5, <1>6, <1>7, ApartByEquality DEF SameMark
<1> QED BY <1>7, <1>8, <1>9, Elsewhere DEF Safe

LEMMA UnwindsSafe ==
  ASSUME Safe, IInv', NEW e \in todo, NEW no,
         \/ AuditNoSeedUnwind(e, no)
         \/ \E jury \in SUBSET Miners : AuditSmallJuryUnwind(e, jury, no)
         \/ ResolveUnwind(e, no)
  PROVE  Safe'
<1>1. CASE AuditNoSeedUnwind(e, no)
  <2>1. PICK j \in Jobs : j = e[2]
    BY <1>1, EntryOK DEF AuditNoSeedUnwind, AuditDue, Safe
  <2>2. phase = "audit" /\ Serve(e) /\ paid(j) /\ ~resolved(j)
    BY <1>1, <2>1, LotteryFacts DEF AuditNoSeedUnwind
  <2>3. /\ Unwind(j, no, job[j].drawn) /\ Rebook(e, phase, {})
        /\ pendingRelease' = pendingRelease /\ opened' = opened
    BY <1>1, <2>1, <2>2 DEF AuditNoSeedUnwind
  <2>4. \A k \in Jobs : (disputed(k) \/ selected(k))' <=> (disputed(k) \/ selected(k))
    BY <2>3 DEF Unwind, disputed, selected, jobIsDisputed, Safe, IInv, JobRecord
  <2>5. Counted'
    BY <2>3, <2>4, CountedSame DEF Safe
  <2> QED BY <2>1, <2>2, <2>3, <2>5, UnwindSafe DEF Queues
<1>2. CASE \E jury \in SUBSET Miners : AuditSmallJuryUnwind(e, jury, no)
  <2>0. PICK jury \in SUBSET Miners : AuditSmallJuryUnwind(e, jury, no)
    BY <1>2
  <2>1. PICK j \in Jobs : j = e[2]
    BY <2>0, EntryOK DEF AuditSmallJuryUnwind, AuditDrawn, AuditDue, Safe
  <2>2. phase = "audit" /\ Serve(e) /\ paid(j) /\ ~resolved(j)
    BY <2>0, <2>1, LotteryFacts DEF AuditSmallJuryUnwind, AuditDrawn
  <2>3. /\ Unwind(j, no, "selected") /\ Rebook(e, phase, {})
        /\ pendingRelease' = pendingRelease
    BY <2>0, <2>1, <2>2 DEF AuditSmallJuryUnwind
  <2>4. selected(j)' /\ \A k \in Jobs \ {j} : job'[k] = job[k]
    BY <2>3 DEF Unwind, selected, Safe, IInv, JobRecord
  <2>5. Counted'
    BY <2>0, <2>1, <2>4, DrawnCounted DEF AuditSmallJuryUnwind, SameRecord
  <2> QED BY <2>1, <2>2, <2>3, <2>5, UnwindSafe DEF Queues
<1>3. CASE ResolveUnwind(e, no)
  <2>1. /\ Serve(e) /\ phase \in {"resolve", "appeal"} /\ Rebook(e, phase, {})
        /\ pendingRelease' = pendingRelease /\ opened' = opened
    BY <1>3 DEF ResolveUnwind, Undecided, Judged, ResolveDue
  <2>2. PICK j \in Jobs : j = e[2]
    BY <2>1, EntryOK DEF Safe
  <2>3. OpenDispute(j) /\ Unwind(j, no, job[j].drawn)
    BY <1>3, <2>2 DEF ResolveUnwind, Undecided, Judged, ResolveDue
  <2>4. paid(j) /\ ~resolved(j)
    BY <2>3, OpenDisputeFacts
  <2>5. \A k \in Jobs : (disputed(k) \/ selected(k))' <=> (disputed(k) \/ selected(k))
    BY <2>3 DEF Unwind, disputed, selected, jobIsDisputed, Safe, IInv, JobRecord
  <2>6. Counted'
    BY <2>1, <2>5, CountedSame DEF Safe
  <2> QED BY <2>1, <2>2, <2>3, <2>4, <2>6, UnwindSafe DEF Queues
<1> QED BY <1>1, <1>2, <1>3

-----------------------------------------------------------------------------
(* The sweeps of an epoch block, and the block itself.                      *)
LEMMA PruneSafe ==
  ASSUME Safe, IInv', NEW e \in todo, NEW no, PruneMiner(e, no)
  PROVE  Safe'
<1>1. /\ phase = "prune" /\ Serve(e) /\ UNCHANGED <<acct, seat, q, pendingRelease, opened>>
  BY DEF PruneMiner
<1>2. e[2] \in Miners
  BY <1>1, EntryOK DEF Safe
<1>3. \A j \in Jobs : acct[j].held > 0 => job[j].miner # e[2]
  BY <1>1 DEF Safe, BatchSafe
<1>4. \A k \in Jobs : SameRecord(k) /\ StillBonded(k)
  <2>1. CASE "owner" \in no
    BY <1>1, <2>1 DEF PruneMiner, SameRecord, StillBonded, Registered
  <2>2. CASE "owner" \notin no
    BY <1>1, <1>2, <1>3, <2>2, LeaveBonded DEF PruneMiner
  <2> QED BY <2>1, <2>2
<1>5. BatchSafe'
  <2>1. phase' = "prune" /\ todo' \subseteq todo
    BY <1>1 DEF Serve
  <2>2. \A f \in todo', j \in Jobs : acct'[j].held > 0 => job'[j].miner # f[2]
    BY <1>1, <1>4, <2>1 DEF Safe, BatchSafe, SameRecord
  <2> QED BY <2>1, <2>2 DEF BatchSafe, Queues
<1> QED BY <1>1, <1>4, <1>5, JobsKept

LEMMA RetrySafe ==
  ASSUME Safe, IInv', NEW e \in todo, NEW no, RetryRelease(e, no)
  PROVE  Safe'
<1>1. /\ phase = "release" /\ Serve(e) /\ UNCHANGED <<job, seat, q, opened>>
  BY DEF RetryRelease
<1>2. PICK j \in Jobs : j = e[2] /\ JobSafe(j) /\ (resolved(j) \/ passed(j))
  BY <1>1, EntryOK DEF Safe, BatchSafe
<1>3. PICK b : b = Released(j, no)
  OBVIOUS
<1>4. Release(j, b)
  BY <1>2, <1>3 DEF RetryRelease
<1>5. Paying(acct[j], b) /\ SameBond(acct[j], b) /\ Bounded(b)
  BY <1>3, ReleasedAlone
<1>6. acct'[j] = b /\ \A k \in Jobs \ {j} : acct'[k] = acct[k]
  BY <1>4 DEF Release, Safe, IInv, Ledger
<1>7. /\ ReleasePending(b) => j \in pendingRelease'
      /\ \A k \in Jobs \ {j} : SameMark(k)
  BY <1>4 DEF Release, SameMark
<1>8. SameRegistry
  BY <1>4, ReleaseKeepsRegistry DEF Safe
<1>9. \A k \in Jobs \ {j} : Apart(k)
  BY <1>1, <1>6, <1>7, <1>8, QueuesKept, ApartByEquality
<1>10. /\ paid(j)' = paid(j) /\ disputed(j)' = disputed(j) /\ resolved(j)' = resolved(j)
       /\ passed(j)' = passed(j) /\ selected(j)' = selected(j) /\ paid(j)
  <2>1. paid(j)
    BY <1>2 DEF JobSafe, Staged, passed
  <2> QED BY <1>1, <2>1 DEF paid, disputed, resolved, passed, selected
<1>11. JobSafe(j)'
  <2>1. Staged(j)'
    BY <1>1, <1>2, <1>10 DEF JobSafe, Staged
  <2>2. acct[j].escrow = 0
    BY <1>2, <1>10, AccountOf DEF JobSafe, Ahead, paid, jobIsPaid, Account, Safe
  <2>3. b.escrow = 0 /\ (HasPart(b) => ReleasePending(b))
    BY <1>5, <2>2 DEF Paying, Onward, HasPart, ReleasePending
  <2>4. ~resolved(j) => Undecided0(b) /\ b.toClient = 0
    BY <1>2, <1>5, <1>10 DEF JobSafe, Unresolved, Undecided0, Paying, SameBond
  <2>5. Unpaid(j)' /\ Unresolved(j)' /\ Bounded(acct[j])' /\ Final(j)'
    BY <1>2, <1>5, <1>6, <1>10, <2>4 DEF Unpaid, Unresolved, Final
  <2>6. \A x \in Queues : Queued(x, j)' <=> Queued(x, j)
    BY <1>1 DEF Queued
  <2>7. Ahead(j)'
    BY <1>2, <1>6, <1>7, <1>10, <2>3, <2>6 DEF JobSafe, Ahead, Queues
  <2>8. OneDraw(j)'
    BY <1>1, <1>2, <1>10 DEF JobSafe, OneDraw, Queued
  <2>9. Stripped(j)'
    <3>1. Undone(j)' => Undone(j)
      BY <1>1 DEF Undone
    <3>2. Undone(j) => acct[j].held = 0 /\ acct[j].right = 0
      BY <1>2 DEF JobSafe, Stripped
    <3> QED BY <1>5, <1>6, <3>1, <3>2 DEF Stripped, Paying
  <2>10. Drawn(j)'
    BY <1>1, <1>2, <1>10 DEF JobSafe, Drawn
  <2>11. Bonded(j)'
    <3>1. acct'[j].held > 0 => Registered(job[j].miner)
      BY <1>2, <1>5, <1>6 DEF JobSafe, Bonded, Paying
    <3> QED BY <1>1, <1>8, <3>1 DEF Bonded, SameRegistry, Registered
  <2> QED BY <2>1, <2>5, <2>7, <2>8, <2>9, <2>10, <2>11 DEF JobSafe
<1>12. Counted'
  <2>1. \A k \in Jobs : (disputed(k) \/ selected(k))' <=> (disputed(k) \/ selected(k))
    BY <1>1 DEF disputed, selected
  <2> QED BY <1>1, <2>1, CountedSame DEF Safe
<1>13. BatchSafe'
  <2>1. phase' = "release" /\ todo' \subseteq todo
    BY <1>1 DEF Serve
  <2>2. \A f \in todo' : resolved(f[2])' \/ passed(f[2])'
    BY <1>1, <2>1 DEF Safe, BatchSafe, resolved, passed
  <2> QED BY <2>1, <2>2 DEF BatchSafe, Queues
<1> QED BY <1>9, <1>11, <1>12, <1>13, Elsewhere DEF Safe

(* What a phase collects.                                                   *)
LEMMA EndPhaseSafe ==
  ASSUME Safe, IInv', NEW n \in Phases, EndPhase(n)
  PROVE  Safe'
<1>1. /\ phase' = n /\ todo' \in Batches(n)
      /\ UNCHANGED <<job, acct, seat, q, pendingRelease, opened, miner>>
  BY DEF EndPhase
<1>2. BatchSafe'
  <2>1. CASE n \in Queues
    <3>0. n # "prune" /\ n # "release"
      BY <2>1 DEF Queues
    <3>1. Due(n) = {e \in q[n] : e[1] <= height}
      BY <2>1, <3>0, Zenon DEF Due
    <3>2. Batches(n) = {B \in SUBSET Due(n) :
                          /\ Cardinality(B) = MinOf(auditMaxPerBlock, Cardinality(Due(n)))
                          /\ \A e \in B, f \in Due(n) \ B : e[1] <= f[1]}
      BY <2>1, <3>0, Zenon DEF Batches
    <3>3. todo' \in SUBSET Due(n)
      BY <1>1, <3>2, Zenon
    <3>4. todo' \subseteq q'[n]
      BY <1>1, <3>1, <3>3
    <3> QED BY <1>1, <3>0, <3>4 DEF BatchSafe
  <2>2. CASE n = "prune"
    <3>1. todo' \subseteq Doomed
      BY <1>1, <2>2 DEF Batches, Queues
    <3>2. \A e \in todo' : \E live \in BOOLEAN : ~hasOpenObligation(e[2], live)
      BY <3>1 DEF Doomed
    <3>3. \A e \in todo', j \in Jobs : acct'[j].held > 0 => job'[j].miner # e[2]
      BY <1>1, <3>2 DEF hasOpenObligation
    <3> QED BY <1>1, <2>2, <3>3 DEF BatchSafe, Queues
  <2>3. CASE n = "release"
    <3>1. todo' = Due("release")
      BY <1>1, <2>3 DEF Batches, Queues
    <3>2. \A e \in Due("release") : e[2] \in pendingRelease
      BY DEF Due, Queues
    <3>3. \A j \in pendingRelease : resolved(j) \/ passed(j)
      <4>1. pendingRelease \subseteq Jobs
        BY DEF Safe, IInv
      <4> QED BY <4>1 DEF Safe, JobSafe, Unpaid, Final
    <3>4. \A e \in todo' : resolved(e[2])' \/ passed(e[2])'
      BY <1>1, <3>1, <3>2, <3>3 DEF resolved, passed
    <3> QED BY <1>1, <2>3, <3>4 DEF BatchSafe, Queues
  <2> QED BY <2>1, <2>2, <2>3 DEF Phases
<1>3. \A k \in Jobs : SameRecord(k) /\ StillBonded(k)
  BY <1>1 DEF SameRecord, StillBonded, Registered
<1> QED BY <1>1, <1>2, <1>3, JobsKept

LEMMA NextBlockSafe ==
  ASSUME Safe, IInv', NextBlock
  PROVE  Safe'
<1>1. phase' = "tx" /\ UNCHANGED <<job, acct, seat, q, pendingRelease, opened>>
  BY DEF NextBlock
<1>2. SameRegistry
  BY DEF NextBlock, Safe, IInv, MinerRecord, SameRegistry
<1>3. \A k \in Jobs : SameRecord(k) /\ StillBonded(k)
  BY <1>1, <1>2 DEF SameRecord, StillBonded, Registered, SameRegistry
<1> QED BY <1>1, <1>3, BatchInTx, JobsKept

LEMMA ServeEntrySafe == ASSUME Safe, IInv', NEW e \in todo, ServeEntry(e) PROVE Safe'
<1>1. CASE \/ ExpireMoved(e) \/ RevealDeferred(e)
           \/ \E no \in SUBSET Refusable : ExpireLater(e, no)
           \/ \E com \in SUBSET Miners, prim \in Miners \union {NoMiner} : Reveal(e, com, prim)
  BY <1>1, ExpiryRevealSafe
<1>2. CASE AuditDrop(e) \/ AuditNoSeedDefer(e)
  BY <1>2, LotteryWaitsSafe
<1>3. CASE ResolveStale(e) \/ ResolveDefer(e)
  BY <1>3, DeadlineMovesSafe
<1>4. CASE \E jury \in SUBSET Miners : AuditSelect(e, jury) \/ AuditSmallJury(e, jury)
  BY <1>4, AuditSelectSafe, AuditSmallJurySafe
<1>5. CASE \E no \in SUBSET Refusable : ExpireRefund(e, no) \/ AuditPass(e, no)
  BY <1>5, ExpireRefundSafe, AuditPassSafe
<1>6. CASE \E no \in SUBSET Refusable :
             ResolveSilent(e, no) \/ ResolveUnfounded(e, no) \/ ResolveVindicate(e, no)
  BY <1>6, ResolvedForMinerSafe
<1>7. CASE \E no \in SUBSET Refusable : PruneMiner(e, no) \/ RetryRelease(e, no)
  BY <1>7, PruneSafe, RetrySafe
<1>8. CASE \E no \in SUBSET Refusable :
             \/ AuditNoSeedUnwind(e, no)
             \/ \E jury \in SUBSET Miners : AuditSmallJuryUnwind(e, jury, no)
             \/ ResolveUnwind(e, no)
  BY <1>8, UnwindsSafe
<1>9. CASE \E no \in SUBSET Refusable : ResolveSlash(e, no)
  BY <1>9, ResolveSlashSafe
<1> QED BY <1>1, <1>2, <1>3, <1>4, <1>5, <1>6, <1>7, <1>8, <1>9 DEF ServeEntry

-----------------------------------------------------------------------------
(* The chain starts in the invariant.                                       *)
LEMMA InitSafe == Init => Safe
<1> SUFFICES ASSUME Init PROVE Safe
  OBVIOUS
<1>1. IInv
  BY InitOK
<1>2. ASSUME NEW j \in Jobs PROVE JobSafe(j)
  <2>1. /\ job[j] = NoJob /\ acct[j] = EmptyAccount /\ seat[j] = NoSeat
        /\ pendingRelease = {} /\ \A n \in Queues : q[n] = {}
    BY DEF Init
  <2>2. /\ ~paid(j) /\ ~disputed(j) /\ ~resolved(j) /\ ~passed(j) /\ ~selected(j) /\ ~Undone(j)
        /\ job[j].drawn = "none" /\ job[j].by = "none" /\ ~job[j].against
    BY <2>1 DEF NoJob, paid, disputed, resolved, passed, selected, Undone, jobIsPaid,
                jobIsDisputed, jobIsResolved
  <2>3. Staged(j) /\ Stripped(j) /\ Final(j)
    BY <2>2 DEF Staged, Stripped, Final
  <2>4. Unpaid(j) /\ Unresolved(j) /\ Bounded(acct[j]) /\ Bonded(j)
    BY <2>1, <2>2 DEF EmptyAccount, Unpaid, Unresolved, Undecided0, Bounded, Bonded
  <2>5. Ahead(j)
    BY <2>1, <2>2 DEF EmptyAccount, Ahead
  <2>6. OneDraw(j)
    BY <2>1 DEF OneDraw, Queued, Queues
  <2>7. Drawn(j)
    BY <2>1, <2>2 DEF Drawn, NoSeat
  <2> QED BY <2>3, <2>4, <2>5, <2>6, <2>7 DEF JobSafe
<1>3. BatchSafe
  BY DEF Init, BatchSafe, Queues
<1>4. Counted
  <2>1. Audited = {}
    BY DEF Init, NoJob, Audited, disputed, selected, jobIsDisputed
  <2> QED BY <2>1, FS_EmptySet DEF Counted, Init
<1> QED BY <1>1, <1>2, <1>3, <1>4 DEF Safe

(* Every step of the chain keeps it.                                        *)
LEMMA StepSafe == Safe /\ [Next]_vars => Safe'
<1> SUFFICES ASSUME Safe, [Next]_vars PROVE Safe'
  OBVIOUS
<1>0. IInv'
  BY StepOK DEF Safe
<1>1. CASE Tx
  BY <1>0, <1>1, TxSafe
<1>2. CASE EndBlock
  BY <1>0, <1>2, EndPhaseSafe, ServeEntrySafe, NextBlockSafe DEF EndBlock
<1>3. CASE UNCHANGED vars
  <2>1. /\ UNCHANGED <<job, acct, seat, q, pendingRelease, opened, miner, phase, todo>>
    BY <1>3 DEF vars
  <2>2. \A k \in Jobs : SameRecord(k) /\ StillBonded(k)
    BY <2>1 DEF SameRecord, StillBonded, Registered
  <2>3. BatchSafe'
    BY <2>1 DEF Safe, BatchSafe, resolved, passed
  <2> QED BY <1>0, <2>1, <2>2, <2>3, JobsKept
<1> QED BY <1>1, <1>2, <1>3 DEF Next, Horizon

-----------------------------------------------------------------------------
(* What a step may do to a job.                                             *)

(* Nothing.                                                                 *)
Still(k) == SameRecord(k) /\ acct'[k] = acct[k]

(* Move an unresolved job, without convicting its miner.                    *)
Moves(j) ==
  /\ ~resolved(j) /\ \A k \in Jobs \ {j} : Still(k)
  /\ job'[j].against => job[j].against \/ job'[j].by = "authority"

(* Retry the release of a settled one.                                      *)
Retries(j) ==
  /\ \A k \in Jobs \ {j} : Still(k)
  /\ SameRecord(j) /\ Paying(acct[j], acct'[j]) /\ SameBond(acct[j], acct'[j])

(* Convict its miner.                                                       *)
Convicted(j) ==
  /\ ~resolved(j) /\ paid(j) /\ job'[j].miner = job[j].miner
  /\ \A k \in Jobs \ {j} : Still(k)
  /\ \E amt \in Nat, no \in SUBSET Refusable :
       /\ amt = SlashAmount(j) /\ Serves(acct[j], acct'[j], amt, no)
       /\ miner' = TakeStake(DemandReversed(j), j, amt)

Touch ==
  \/ \A k \in Jobs : Still(k)
  \/ \E j \in Jobs : Moves(j) \/ Retries(j) \/ Convicted(j)

LEMMA TouchOfTx == ASSUME Safe, Tx PROVE Touch
<1>1. CASE \E j \in Jobs, fee \in Fees : OpenJob(j, fee)
  <2>1. PICK j \in Jobs, fee \in Fees : OpenJob(j, fee)
    BY <1>1
  <2>2. \A k \in Jobs \ {j} : Still(k)
    BY <2>1 DEF OpenJob, Still, SameRecord, Safe, IInv, Ledger
  <2>3. ~resolved(j) /\ job'[j].against = job[j].against
    BY <2>1 DEF OpenJob, resolved, jobIsResolved, Safe, IInv, JobRecord
  <2> QED BY <2>2, <2>3 DEF Touch, Moves
<1>2. CASE \E j \in Jobs, m \in Miners :
             \/ \E v \in {"vector", "garbage"} : CommitWork(j, m, v)
             \/ \E v \in {"valid", "invalid"}  : CommitVerdict(j, m, v)
             \/ \E v \in {"agree", "differ"}   : CommitRedo(j, m, v)
  BY <1>2 DEF CommitWork, CommitVerdict, CommitRedo, Touch, Still, SameRecord
<1>3. CASE \E j \in Jobs, redo \in SUBSET Miners : DisputeVerdict(j, redo)
  <2>1. PICK j \in Jobs, redo \in SUBSET Miners : DisputeVerdict(j, redo)
    BY <1>3
  <2>2. \A k \in Jobs \ {j} : Still(k)
    BY <2>1 DEF DisputeVerdict, Still, SameRecord, Safe, IInv, Ledger
  <2>3. ~resolved(j) /\ job'[j].against = job[j].against
    BY <2>1 DEF DisputeVerdict, resolved, Safe, IInv, JobRecord
  <2> QED BY <2>2, <2>3 DEF Touch, Moves
<1>4. CASE \E j \in Jobs, no \in SUBSET Refusable : settleOptimistic(j, no)
  <2>1. PICK j \in Jobs, no \in SUBSET Refusable : settleOptimistic(j, no)
    BY <1>4
  <2>2. \A k \in Jobs \ {j} : Still(k)
    BY <2>1 DEF settleOptimistic, Still, SameRecord, Safe, IInv, Ledger
  <2>3. ~resolved(j)
    BY <2>1 DEF settleOptimistic, Safe, JobSafe, Staged, paid
  <2>4. job'[j].against = job[j].against
    BY <2>1 DEF settleOptimistic, Safe, IInv, JobRecord
  <2> QED BY <2>2, <2>3, <2>4 DEF Touch, Moves
<1>5. CASE \E j \in Jobs, no \in SUBSET Refusable :
             ResolveRejected(j, no) \/ ResolveUpheld(j, no) \/ AdjudicateHonest(j, no)
  <2>1. PICK j \in Jobs, no \in SUBSET Refusable :
          ResolveRejected(j, no) \/ ResolveUpheld(j, no) \/ AdjudicateHonest(j, no)
    BY <1>5
  <2>2. ~resolved(j)
    BY <2>1 DEF ResolveRejected, ResolveUpheld, AdjudicateHonest, Admissible, OpenDispute, resolved
  <2>3. PICK marks, by, against :
          Close(j, marks, by, against) /\ (against => by = "authority")
    BY <2>1 DEF ResolveRejected, ResolveUpheld, AdjudicateHonest
  <2>4. job'[j].against => job'[j].by = "authority"
    BY <2>3, ClosedRecord DEF Safe
  <2>5. \A k \in Jobs \ {j} : job'[k] = job[k]
    BY <2>3, ClosedRecord DEF Safe
  <2>6. \A k \in Jobs \ {j} : acct'[k] = acct[k]
    BY <2>1 DEF ResolveRejected, ResolveUpheld, AdjudicateHonest, Release, Safe, IInv, Ledger
  <2> QED BY <2>2, <2>4, <2>5, <2>6 DEF Touch, Moves, Still, SameRecord
<1>6. CASE \E j \in Jobs, no \in SUBSET Refusable : AdjudicateCheated(j, no)
  <2>1. PICK j \in Jobs, no \in SUBSET Refusable : AdjudicateCheated(j, no)
    BY <1>6
  <2>2. OpenDispute(j)
    BY <2>1 DEF AdjudicateCheated, Admissible
  <2>3. PICK amt \in Nat : amt = SlashAmount(j)
    BY SlashAmountOK DEF Safe
  <2>4. PICK c : c = AdjudicatedAccount(acct[j], amt, no)
    OBVIOUS
  <2>5. PICK b : b = [c EXCEPT !.bondBack = c.bondBack + c.bond, !.bond = 0]
    OBVIOUS
  <2>6. PICK by : /\ acct' = [acct EXCEPT ![j] = b] /\ Close(j, {"adjudicated"}, by, TRUE)
                  /\ miner' = TakeStake(DemandReversed(j), j, amt)
    BY <2>1, <2>3, <2>4, <2>5 DEF AdjudicateCheated
  <2>7. Serves(acct[j], b, amt, no)
    BY <2>2, <2>4, <2>5, SlashedAndReturned, OpenDisputeFacts
  <2>8. acct'[j] = b /\ \A k \in Jobs \ {j} : acct'[k] = acct[k]
    BY <2>6 DEF Safe, IInv, Ledger
  <2>9. job'[j].miner = job[j].miner /\ \A k \in Jobs \ {j} : job'[k] = job[k]
    BY <2>6, ClosedRecord DEF Safe
  <2>10. ~resolved(j) /\ paid(j)
    BY <2>2, OpenDisputeFacts
  <2>11. Convicted(j)
    BY <2>3, <2>6, <2>7, <2>8, <2>9, <2>10 DEF Convicted, Still, SameRecord
  <2> QED BY <2>11 DEF Touch
<1>7. CASE \E m \in Leavers, self \in BOOLEAN :
             \/ UpdateMiner(m, self)
             \/ \E s \in Stakes : CreateMiner(m, s, self)
  BY <1>7 DEF UpdateMiner, CreateMiner, Touch, Still, SameRecord
<1>8. CASE \E m \in Leavers, live \in BOOLEAN : DeleteMiner(m, live)
  <2>1. PICK m \in Leavers : Leave(m) /\ acct' = acct
    BY <1>8 DEF DeleteMiner
  <2>2. \A k \in Jobs : SameRecord(k)
    BY <2>1 DEF Leave, Safe, IInv, JobRecord, SameRecord
  <2> QED BY <2>1, <2>2 DEF Touch, Still
<1>9. CASE \E p \in ParamSets : UpdateParams(p)
  BY <1>9 DEF UpdateParams, Touch, Still, SameRecord
<1> QED BY <1>1, <1>2, <1>3, <1>4, <1>5, <1>6, <1>7, <1>8, <1>9 DEF Tx

(* A step that closes or draws one unresolved job.                          *)
LEMMA TouchOfEntry ==
  ASSUME Safe, NEW e \in todo, ServeEntry(e)
  PROVE  Touch
<1>1. CASE \/ ExpireMoved(e) \/ RevealDeferred(e) \/ AuditDrop(e) \/ AuditNoSeedDefer(e)
           \/ ResolveStale(e) \/ ResolveDefer(e)
           \/ \E no \in SUBSET Refusable : ExpireLater(e, no)
  <2>1. job' = job /\ acct' = acct
    BY <1>1 DEF ExpireMoved, RevealDeferred, AuditDrop, AuditNoSeedDefer, ResolveStale,
                ResolveDefer, ExpireLater
  <2> QED BY <2>1 DEF Touch, Still, SameRecord
<1>2. CASE \E com \in SUBSET Miners, prim \in Miners \union {NoMiner} : Reveal(e, com, prim)
  <2>1. PICK j \in Jobs : j = e[2]
    BY <1>2, EntryOK DEF Reveal, Safe
  <2>2. PICK com, prim : job' = [job EXCEPT ![j].revealed = TRUE, ![j].com = com,
                                            ![j].prim = prim]
    BY <1>2, <2>1 DEF Reveal
  <2>3. job \in [Jobs -> JobRecord]
    BY DEF Safe, IInv
  <2>4. \A k \in Jobs \ {j} : SameRecord(k)
    BY <2>2, <2>3 DEF SameRecord
  <2>5. SameRecord(j)
    BY <2>2, <2>3 DEF SameRecord, JobRecord
  <2>6. acct' = acct
    BY <1>2 DEF Reveal
  <2> QED BY <2>4, <2>5, <2>6 DEF Touch, Still
<1>3. CASE \E no \in SUBSET Refusable : ExpireRefund(e, no)
  <2>1. PICK no \in SUBSET Refusable, j \in Jobs : j = e[2] /\ ExpireRefund(e, no)
    BY <1>3, EntryOK DEF ExpireRefund, Safe
  <2>2. \A k \in Jobs \ {j} : Still(k)
    BY <2>1 DEF ExpireRefund, Still, SameRecord, Safe, IInv, Ledger
  <2>3. ~resolved(j) /\ job'[j].against = job[j].against
    BY <2>1 DEF ExpireRefund, resolved, jobIsResolved, Safe, IInv, JobRecord
  <2> QED BY <2>2, <2>3 DEF Touch, Moves
<1>4. CASE \E no \in SUBSET Refusable : AuditPass(e, no)
  <2>1. PICK no \in SUBSET Refusable, j \in Jobs : j = e[2] /\ AuditPass(e, no)
    BY <1>4, EntryOK DEF AuditPass, AuditDue, Safe
  <2>2. \A k \in Jobs \ {j} : Still(k)
    BY <2>1 DEF AuditPass, Release, Still, SameRecord, Safe, IInv, Ledger
  <2>3. ~resolved(j) /\ job'[j].against = job[j].against
    BY <2>1 DEF AuditPass, AuditDue, resolved, Safe, IInv, JobRecord
  <2> QED BY <2>2, <2>3 DEF Touch, Moves
<1>5. CASE \E jury \in SUBSET Miners : AuditSelect(e, jury) \/ AuditSmallJury(e, jury)
  <2>1. PICK jury \in SUBSET Miners, j \in Jobs :
          j = e[2] /\ (AuditSelect(e, jury) \/ AuditSmallJury(e, jury))
    BY <1>5, EntryOK DEF AuditSelect, AuditSmallJury, AuditDrawn, AuditDue, Safe
  <2>2. \A k \in Jobs \ {j} : Still(k)
    BY <2>1 DEF AuditSelect, AuditSmallJury, Still, SameRecord, Safe, IInv, Ledger
  <2>3. ~resolved(j)
    BY <2>1 DEF AuditSelect, AuditSmallJury, AuditDrawn, AuditDue, resolved
  <2>4. job'[j].against = job[j].against
    BY <2>1 DEF AuditSelect, AuditSmallJury, Safe, IInv, JobRecord
  <2> QED BY <2>2, <2>3, <2>4 DEF Touch, Moves
<1>6. CASE \E no \in SUBSET Refusable :
             ResolveSilent(e, no) \/ ResolveUnfounded(e, no) \/ ResolveVindicate(e, no)
  <2>1. PICK no \in SUBSET Refusable, j \in Jobs :
          /\ j = e[2]
          /\ ResolveSilent(e, no) \/ ResolveUnfounded(e, no) \/ ResolveVindicate(e, no)
    BY <1>6, EntryOK DEF ResolveSilent, ResolveUnfounded, ResolveVindicate, Judged, ResolveDue, Safe
  <2>2. ~resolved(j)
    BY <2>1 DEF ResolveSilent, ResolveUnfounded, ResolveVindicate, Judged, ResolveDue, OpenDispute,
                resolved
  <2>3. PICK marks, by, b : Close(j, marks, by, FALSE) /\ Release(j, b)
    <3>1. CASE ResolveSilent(e, no)
      BY <2>1, <3>1, Zenon DEF ResolveSilent
    <3>2. CASE ResolveUnfounded(e, no)
      BY <2>1, <3>2, Zenon DEF ResolveUnfounded
    <3>3. CASE ResolveVindicate(e, no)
      BY <2>1, <3>3, Zenon DEF ResolveVindicate
    <3> QED BY <2>1, <3>1, <3>2, <3>3
  <2>4. job'[j].against = FALSE /\ \A k \in Jobs \ {j} : job'[k] = job[k]
    <3>1. job \in [Jobs -> JobRecord]
      BY DEF Safe, IInv
    <3> QED BY <2>3, <3>1 DEF Close, JobRecord
  <2>5. \A k \in Jobs \ {j} : acct'[k] = acct[k]
    BY <2>3 DEF Release, Safe, IInv, Ledger
  <2> QED BY <2>2, <2>4, <2>5 DEF Touch, Moves, Still, SameRecord
<1>7. CASE \E no \in SUBSET Refusable : PruneMiner(e, no)
  <2>1. PICK no \in SUBSET Refusable : PruneMiner(e, no)
    BY <1>7
  <2>2. acct' = acct /\ (job' = job \/ Leave(e[2]))
    BY <2>1 DEF PruneMiner
  <2>3. \A k \in Jobs : SameRecord(k)
    BY <2>2 DEF Leave, Safe, IInv, JobRecord, SameRecord
  <2> QED BY <2>2, <2>3 DEF Touch, Still
<1>8. CASE \E no \in SUBSET Refusable : RetryRelease(e, no)
  <2>1. PICK no \in SUBSET Refusable, j \in Jobs : j = e[2] /\ RetryRelease(e, no)
    BY <1>8, EntryOK DEF RetryRelease, Safe
  <2>2. PICK b : b = Released(j, no)
    OBVIOUS
  <2>3. acct'[j] = b /\ job' = job /\ \A k \in Jobs \ {j} : acct'[k] = acct[k]
    BY <2>1, <2>2 DEF RetryRelease, Release, Safe, IInv, Ledger
  <2>4. Paying(acct[j], b) /\ SameBond(acct[j], b)
    BY <2>2, ReleasedAlone
  <2> QED BY <2>3, <2>4 DEF Touch, Retries, Still, SameRecord
<1>9. CASE \E no \in SUBSET Refusable :
             \/ AuditNoSeedUnwind(e, no)
             \/ \E jury \in SUBSET Miners : AuditSmallJuryUnwind(e, jury, no)
             \/ ResolveUnwind(e, no)
  <2>1. PICK j \in Jobs : j = e[2]
    BY <1>9, EntryOK DEF AuditNoSeedUnwind, AuditSmallJuryUnwind, AuditDrawn, AuditDue,
                         ResolveUnwind, Undecided, Judged, ResolveDue, Safe
  <2>2. PICK no, d : Unwind(j, no, d)
    BY <1>9, <2>1 DEF AuditNoSeedUnwind, AuditSmallJuryUnwind, ResolveUnwind
  <2>3. ~resolved(j)
    BY <1>9, <2>1 DEF AuditNoSeedUnwind, AuditSmallJuryUnwind, AuditDrawn, AuditDue, ResolveUnwind,
                      Undecided, Judged, ResolveDue, OpenDispute, resolved
  <2>4. \A k \in Jobs \ {j} : Still(k)
    BY <2>2 DEF Unwind, Still, SameRecord, Safe, IInv, Ledger
  <2>5. job'[j].against = job[j].against
    BY <2>2 DEF Unwind, Safe, IInv, JobRecord
  <2> QED BY <2>3, <2>4, <2>5 DEF Touch, Moves
<1>10. CASE \E no \in SUBSET Refusable : ResolveSlash(e, no)
  <2>1. PICK no \in SUBSET Refusable, j \in Jobs : j = e[2] /\ ResolveSlash(e, no)
    BY <1>10, EntryOK DEF ResolveSlash, Judged, ResolveDue, Safe
  <2>2. OpenDispute(j)
    BY <2>1 DEF ResolveSlash, Judged, ResolveDue
  <2>3. PICK amt \in Nat : amt = SlashAmount(j)
    BY SlashAmountOK DEF Safe
  <2>4. PICK c : c = SlashedAccount(acct[j], amt, no)
    OBVIOUS
  <2>5. PICK b : b = refundDisputeBond(c, no)
    OBVIOUS
  <2>6. PICK marks, by : /\ acct' = [acct EXCEPT ![j] = b] /\ Close(j, marks, by, TRUE)
                         /\ miner' = TakeStake(DemandReversed(j), j, amt)
    BY <2>1, <2>3, <2>4, <2>5 DEF ResolveSlash
  <2>7. Serves(acct[j], b, amt, no)
    BY <2>2, <2>4, <2>5, SlashedAndReturned, OpenDisputeFacts
  <2>8. acct'[j] = b /\ \A k \in Jobs \ {j} : acct'[k] = acct[k]
    BY <2>6 DEF Safe, IInv, Ledger
  <2>9. job'[j].miner = job[j].miner /\ \A k \in Jobs \ {j} : job'[k] = job[k]
    BY <2>6, ClosedRecord DEF Safe
  <2>10. ~resolved(j) /\ paid(j)
    BY <2>2, OpenDisputeFacts
  <2>11. Convicted(j)
    BY <2>3, <2>6, <2>7, <2>8, <2>9, <2>10 DEF Convicted, Still, SameRecord
  <2> QED BY <2>11 DEF Touch
<1> QED BY <1>1, <1>2, <1>3, <1>4, <1>5, <1>6, <1>7, <1>8, <1>9, <1>10 DEF ServeEntry

LEMMA StepTouch == ASSUME Safe, [Next]_vars PROVE Touch
<1>1. CASE Tx
  BY <1>1, TouchOfTx
<1>2. CASE \E e \in todo : ServeEntry(e)
  BY <1>2, TouchOfEntry
<1>3. CASE job' = job /\ acct' = acct
  BY <1>3 DEF Touch, Still, SameRecord
<1> QED BY <1>1, <1>2, <1>3 DEF Next, EndBlock, EndPhase, NextBlock, Horizon, vars

-----------------------------------------------------------------------------
(* What the invariant says.                                                 *)
LEMMA SafeHasInstance == ASSUME Safe PROVE RetentionHasInstance
<1> SUFFICES ASSUME NEW j \in Jobs,
                    \E part \in {"held", "val", "team", "treas", "right"} : acct[j][part] > 0
             PROVE  Queued("audit", j) \/ Queued("resolve", j) \/ Queued("appeal", j)
                      \/ j \in pendingRelease
  BY DEF RetentionHasInstance
<1>1. JobSafe(j) /\ acct[j] \in Account
  BY AccountOf DEF Safe
<1>2. HasPart(acct[j])
  BY <1>1 DEF HasPart
<1>3. paid(j)
  BY <1>1, <1>2 DEF JobSafe, Unpaid, HasPart
<1> QED BY <1>1, <1>2, <1>3 DEF JobSafe, Ahead

LEMMA SafeNothingStranded == ASSUME Safe PROVE NothingStranded
<1>1. EscrowHasExpiry
  BY DEF Safe, JobSafe, Ahead, EscrowHasExpiry
<1>2. DisputeHasDeadline
  BY DEF Safe, JobSafe, Ahead, DisputeHasDeadline, OpenDispute, disputed, resolved
<1> QED BY <1>1, <1>2, SafeHasInstance DEF NothingStranded

LEMMA SafeSettledOnce == ASSUME Safe PROVE RetentionSettledOnce
<1>1. PaidOnlyAtFinality
  BY DEF Safe, JobSafe, Final, PaidOnlyAtFinality, paid, resolved, passed
<1>2. ClientNeverOverpaid /\ BondOnce
  BY DEF Safe, JobSafe, Bounded, ClientNeverOverpaid, BondOnce
<1> QED BY <1>1, <1>2, SafeHasInstance DEF RetentionSettledOnce

LEMMA SafeAudits == ASSUME Safe PROVE AuditsSound
<1>1. SelectedNotClosedBySilence
  BY DEF Safe, JobSafe, Drawn, selected, SelectedNotClosedBySilence
<1>2. AuditsOpenedOnce
  BY DEF Safe, Counted, Audited, disputed, selected, AuditsOpenedOnce
<1> QED BY <1>1, <1>2 DEF AuditsSound

LEMMA SafeBond == ASSUME Safe PROVE RetainedBondLocked
BY DEF Safe, JobSafe, Bonded, RetainedBondLocked

(* A resolved job can only be retried.                                      *)
LEMMA FinalStep == ASSUME Safe, [Next]_vars PROVE \A j \in Jobs : ResolvedStaysResolved(j)
<1> SUFFICES ASSUME NEW j \in Jobs, resolved(j)
             PROVE  /\ Outcome(j)' = Outcome(j)
                    /\ Undone(j) => acct[j]'.toMiner = acct[j].toMiner
                                      /\ acct[j]'.credit = acct[j].credit
  BY DEF ResolvedStaysResolved, resolved
<1>1. CASE Still(j)
  BY <1>1 DEF Still, SameRecord, Outcome
<1>2. CASE Retries(j)
  <2>1. Outcome(j)' = Outcome(j)
    BY <1>2 DEF Retries, SameRecord, Paying, SameBond, Outcome
  <2>2. Undone(j) => acct[j].held = 0 /\ acct[j].right = 0
    BY DEF Safe, JobSafe, Stripped
  <2> QED BY <1>2, <2>1, <2>2 DEF Retries, Paying
<1>3. Still(j) \/ Retries(j)
  BY StepTouch DEF Touch, Moves, Retries, Convicted
<1> QED BY <1>1, <1>2, <1>3

(* What a slash takes leaves the stake of the convicted miner.              *)
LEMMA StakeTaken ==
  ASSUME Safe, NEW j \in Jobs, NEW m \in Miners, m = job[j].miner, NEW amt \in Nat,
         amt = SlashAmount(j), miner' = TakeStake(DemandReversed(j), j, amt)
  PROVE  miner[m].stake - miner'[m].stake = amt
<1>1. PICK f \in [Miners -> MinerRecord] : f = DemandReversed(j)
  BY DemandReversedOK DEF Safe
<1>2. f[m].stake = miner[m].stake /\ miner[m].stake \in Nat
  BY <1>1 DEF DemandReversed, Safe, IInv, MinerRecord
<1>3. CASE Registered(m)
  <2>1. miner'[m].stake = f[m].stake - amt
    BY <1>1, <1>3 DEF TakeStake, MinerRecord
  <2> QED BY <1>2, <2>1
<1>4. CASE ~Registered(m)
  <2>1. amt = 0 /\ miner' = f
    BY <1>1, <1>4 DEF TakeStake, SlashAmount
  <2> QED BY <1>2, <2>1
<1> QED BY <1>3, <1>4

LEMMA SlashStep == ASSUME Safe, [Next]_vars PROVE \A j \in Jobs : MadeWhole(j)
<1> SUFFICES ASSUME NEW j \in Jobs PROVE MadeWhole(j)
  OBVIOUS
<1>1. CASE Convicted(j)
  <2>1. PICK amt \in Nat, no \in SUBSET Refusable :
          /\ amt = SlashAmount(j) /\ Serves(acct[j], acct'[j], amt, no)
          /\ miner' = TakeStake(DemandReversed(j), j, amt)
    BY <1>1 DEF Convicted
  <2>2. job[j].miner \in Miners
    BY <1>1 DEF Convicted, Safe, JobSafe, Staged
  <2>3. miner[job[j].miner].stake - miner'[job[j].miner].stake = amt
    BY <2>1, <2>2, StakeTaken
  <2>4. job'[j].miner = job[j].miner
    BY <1>1 DEF Convicted
  <2> QED BY <2>1, <2>3, <2>4 DEF MadeWhole, Serves
<1>2. CASE ~job'[j].against \/ job[j].against \/ job'[j].by = "authority"
  BY <1>2 DEF MadeWhole
<1>3. ~Convicted(j) => ~job'[j].against \/ job[j].against \/ job'[j].by = "authority"
  BY StepTouch DEF Touch, Moves, Retries, Convicted, Still, SameRecord
<1> QED BY <1>1, <1>2, <1>3

-----------------------------------------------------------------------------
(* The chain never loses a coin from sight.  Whatever the interleaving of   *)
(* settlement, lottery, disputes and sweeps, and whichever transfers are    *)
(* refused, an escrow keeps its appointment with expireUnservedJob, an open *)
(* dispute its deadline, and a retention an instance that will decide it    *)
(* (the lottery, resolveDisputedAudit or retryHeldReleases).                *)
THEOREM NeverStranded == Spec => []NothingStranded
<1>1. Safe => NothingStranded
  BY SafeNothingStranded
<1> QED BY <1>1, InitSafe, StepSafe, PTL DEF Spec

(* A retention is settled once and at finality: releaseHeld,                *)
(* refundRetainedToClient and slashCheatedPrimary pay neither early nor     *)
(* twice, the client never gets more than its fee, and a dispute bond is    *)
(* returned or forfeited at most once.                                      *)
THEOREM SettledOnce == Spec => []RetentionSettledOnce
<1>1. Safe => RetentionSettledOnce
  BY SafeSettledOnce
<1> QED BY <1>1, InitSafe, StepSafe, PTL DEF Spec

(* The lottery, its deferrals and a human dispute on the same job: the      *)
(* silence of the dispute never closes a selected job for its miner         *)
(* (resolveDisputedAudit waits for the lottery), and AuditsOpened counts    *)
(* the job once.                                                            *)
THEOREM LotterySound == Spec => []AuditsSound
<1>1. Safe => AuditsSound
  BY SafeAudits
<1> QED BY <1>1, InitSafe, StepSafe, PTL DEF Spec

(* DeleteMiner and pruneInactiveMiners, which picks all its victims before  *)
(* it evicts the first, never let the bond go that answers for a held fee.  *)
THEOREM BondLocked == Spec => []RetainedBondLocked
<1>1. Safe => RetainedBondLocked
  BY SafeBond
<1> QED BY <1>1, InitSafe, StepSafe, PTL DEF Spec

(* No later entry of a queue, retry or transaction changes the outcome of a *)
(* resolved job, what its client got or what became of the bond; and the    *)
(* miner of an undone job is paid nothing more.                             *)
THEOREM OutcomeFinal == Spec => ResolvedIsFinal
<1>1. Safe /\ [Next]_vars => [\A j \in Jobs : ResolvedStaysResolved(j)]_vars
  BY FinalStep
<1> QED BY <1>1, InitSafe, StepSafe, PTL DEF Spec, ResolvedIsFinal

(* slashCheatedPrimary and AdjudicateDispute, which compute what is owed in *)
(* two ways, serve the client first: it is made whole, or gets all that was *)
(* taken from the primary, or refuses it.                                   *)
THEOREM SlashMakesWhole == Spec => SlashServesClient
<1>1. Safe /\ [Next]_vars => [\A j \in Jobs : MadeWhole(j)]_vars
  BY SlashStep
<1> QED BY <1>1, InitSafe, StepSafe, PTL DEF Spec, SlashServesClient

=============================================================================

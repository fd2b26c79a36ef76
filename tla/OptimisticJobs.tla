---------------------------- MODULE OptimisticJobs ----------------------------
(***************************************************************************)
(* The life of a job of x/jobs under optimistic verification               *)
(* (verification_mode = 1): opened, revealed, served, settled, drawn or    *)
(* passed over by the audit lottery, disputed, judged, adjudicated or      *)
(* unwound, with the registry of miners it depends on and the block        *)
(* structure that orders it all: transactions first, then the EndBlocker,  *)
(* phase by phase, each phase over a snapshot of the entries due.          *)
(*                                                                         *)
(* The draws (who works, who judges, which job is audited) are pseudo-     *)
(* random in the code and nondeterministic here; eligibility by vitality,  *)
(* presence and judge duty only shrinks a draw, so a draw is any subset of *)
(* the frozen pool.                                                        *)
(***************************************************************************)
EXTENDS JobEscrow, FiniteSetsExt

CONSTANTS
  Jobs,                  \* job ids
  Miners,                \* miner ids
  NoMiner,               \* Job.MinerId before settlement
  Fees,                  \* the fees clients offer
  Stakes,                \* the bonds miners register with
  InitialStake,          \* [Miners -> Nat], the bonds of the registered miners
  ParamSets,             \* the parameter sets governance may post
  Refusable,             \* the payees that may refuse a transfer
  SeedOutcomes,          \* whether a block may lack its decentralized seed
  auditDeferStride,      \* 20 in the code
  auditMaxPerBlock,      \* 200, for each of the per-block batches
  jobExpiryRetryBlocks,  \* 1000
  EpochBlocks,           \* 100: eviction and release retries
  AuditFallbackFloor,    \* 4: auditSlashFloor()
  redoQuorumFloor,       \* 3
  MaxHeight,             \* bound: the last block explored
  MaxAuthors,            \* bound: work commits per job
  Leavers                \* bound: the miners whose registration changes

VARIABLES
  height, phase, todo,   \* the block, where in it we are, and the batch left
  seedOK,                \* this block carries a decentralized seed
  params,                \* Params
  job,                   \* Job, Beacon, JobPoolFreezeHeight, WorkCommittee
  acct,                  \* the money of each job (JobEscrow)
  seat,                  \* AuditCommittee (its three keys) and AuditSelected
  vote,                  \* Commit: work, verdict and redo entries
  miner,                 \* Miner, MinerOptimisticCount
  q,                     \* the Pending* queues keyed by height
  pendingRelease,        \* PendingHeldRelease
  bank,                  \* the module account, and Pools
  opened                 \* AuditsOpened

vars == <<height, phase, todo, seedOK, params, job, acct, seat, vote, miner, q,
          pendingRelease, bank, opened>>

-----------------------------------------------------------------------------
(* Params, for the fields this module reads, with verification_mode = 1.    *)
ParamsRecord ==
  [FeeBurnBps : Nat, ProtocolFeeBps : Nat, ValidatorRewardBps : Nat, TeamFeeBps : Nat,
   HoldBps : Nat, SlashLeakBps : Nat, AuditSampleBps : Nat, AuditProbationJobs : Nat,
   AuditAdaptive : Nat, MinStake : Nat, DisputeWindow : Nat, DisputeBond : Nat,
   AuditResolveTimeout : Nat, AppealWindow : Nat, AuditUnwindBlocks : Nat,
   AuditMinQuorum : Nat, CommitteeRevealDelay : Nat, CommitteeSeedSource : {0, 1},
   WorkCommitteeSize : Nat, JobExpiryBlocks : Nat, TeamAddress : {"none", "set"}]

(* Params.Validate.                                                         *)
ValidParams(p) ==
  /\ p \in ParamsRecord
  /\ p.FeeBurnBps <= 10000
  /\ p.ProtocolFeeBps <= 10000
  /\ p.ValidatorRewardBps <= 10000
  /\ p.TeamFeeBps <= 10000
  /\ p.ValidatorRewardBps + p.TeamFeeBps <= 10000
  /\ p.HoldBps <= 10000
  /\ p.SlashLeakBps >= 2500 /\ p.SlashLeakBps <= 10000
  /\ p.AuditSampleBps >= 500 /\ p.AuditSampleBps <= 10000
  /\ p.DisputeWindow > 0
  /\ p.DisputeBond > 0
  /\ p.AuditResolveTimeout > p.DisputeWindow
  /\ p.AuditUnwindBlocks > 0 => p.AuditUnwindBlocks >= p.AuditResolveTimeout
  /\ p.AuditMinQuorum > 0 => p.AuditMinQuorum >= AuditFallbackFloor
  /\ p.CommitteeRevealDelay > 0
  /\ p.WorkCommitteeSize > 0
  /\ p.JobExpiryBlocks > 0

ASSUME ParamsAssumption == ParamSets # {} /\ \A p \in ParamSets : ValidParams(p)

ASSUME BoundsAssumption ==
  /\ Fees \subseteq Nat
  /\ Stakes \subseteq Nat
  /\ InitialStake \in [Miners -> Nat]
  /\ Refusable \subseteq Payees
  /\ SeedOutcomes \subseteq BOOLEAN /\ SeedOutcomes # {}
  /\ NoMiner \notin Miners
  /\ auditDeferStride \in Nat \ {0}
  /\ auditMaxPerBlock \in Nat \ {0}
  /\ jobExpiryRetryBlocks \in Nat \ {0}
  /\ EpochBlocks \in Nat \ {0}
  /\ AuditFallbackFloor \in Nat \ {0}
  /\ redoQuorumFloor \in Nat \ {0}
  /\ MaxHeight \in Nat
  /\ MaxAuthors \in Nat
  /\ Leavers \subseteq Miners

(* The module account starts with the bonds of the registered miners.       *)
InitialBalance == MapThenSumSet(LAMBDA m : InitialStake[m], Miners)

(* Without it the sum above, and that of all debts, would have no value.    *)
ASSUME FinitenessAssumption == IsFiniteSet(Jobs) /\ IsFiniteSet(Miners)

-----------------------------------------------------------------------------
(* The queues, in the order the EndBlocker serves them, then the two sweeps *)
(* of an epoch block.  The registry sweep may find nobody to evict.         *)
Queues == {"expiry", "reveal", "audit", "resolve", "appeal"}
Phases == Queues \union {"prune", "release"}
Rank   == [tx |-> 0, expiry |-> 1, reveal |-> 2, audit |-> 3, resolve |-> 4,
           appeal |-> 5, prune |-> 6, release |-> 7]

NoSeat == [jury |-> {}, redo |-> {}, human |-> FALSE, selected |-> FALSE]
NoVote == [work    |-> [m \in Miners |-> "none"],
           verdict |-> [m \in Miners |-> "none"],
           redo    |-> [m \in Miners |-> "none"]]
NoJob  == [st |-> {}, miner |-> NoMiner, dheight |-> 0, revealed |-> FALSE,
           pool |-> {}, prim |-> NoMiner, com |-> {}, drawn |-> "none", by |-> "none",
           against |-> FALSE]

Init ==
  /\ height = 1 /\ phase = "tx" /\ todo = {} /\ seedOK \in SeedOutcomes
  /\ params \in ParamSets
  /\ job  = [j \in Jobs |-> NoJob]
  /\ acct = [j \in Jobs |-> EmptyAccount]
  /\ seat = [j \in Jobs |-> NoSeat]
  /\ vote = [j \in Jobs |-> NoVote]
  /\ miner = [m \in Miners |-> [reg |-> TRUE, fresh |-> FALSE, self |-> FALSE,
                                stake |-> InitialStake[m], demand |-> 0, count |-> 0]]
  /\ q = [n \in Queues |-> {}]
  /\ pendingRelease = {}
  /\ bank = [bal |-> InitialBalance, treasury |-> 0, team |-> 0]
  /\ opened = 0

-----------------------------------------------------------------------------
(* Reading the state.                                                       *)
Registered(m)    == m \in Miners /\ miner[m].reg

(* Fault: a resolved dispute is taken for an open one.                      *)
OpenDisputeFault(j) == jobIsDisputed(job[j].st)

OpenDispute(j)   == jobIsDisputed(job[j].st) /\ ~jobIsResolved(job[j].st)
SeedMissing      == params.CommitteeSeedSource = 1 /\ ~seedOK
StakeOf(S)       == MapThenSumSet(LAMBDA m : miner[m].stake, S)
Queued(n, j)     == \E e \in q[n] : e[2] = j
CeilTwoThirds(n) == (2 * n + 2) \div 3

effectiveSlashFloor(p) == IF p.AuditMinQuorum > 0 THEN p.AuditMinQuorum ELSE AuditFallbackFloor

auditRelativeBar(p, seats) ==
  IF CeilTwoThirds(seats) > effectiveSlashFloor(p) THEN CeilTwoThirds(seats)
                                                   ELSE effectiveSlashFloor(p)

(* auditVerdictTally: only registered members of the anchored jury vote,    *)
(* never the primary; a tally without stake counts no voter.                *)
Voters(j) == {m \in seat[j].jury : /\ m # job[j].miner /\ Registered(m)
                                   /\ vote[j].verdict[m] # "none"}
Tally(j) ==
  LET V       == Voters(j)
      invalid == {m \in V : vote[j].verdict[m] = "invalid"}
      empty   == StakeOf(V) = 0
  IN  [cheated |-> ~empty /\ 2 * StakeOf(invalid) > StakeOf(V),
       valid   |-> ~empty /\ 2 * StakeOf(invalid) < StakeOf(V),
       voters  |-> IF empty THEN 0 ELSE Cardinality(V),
       invalid |-> IF empty THEN 0 ELSE Cardinality(invalid),
       seats   |-> Cardinality({m \in seat[j].jury : Registered(m)})]

auditSlashDecision(p, t) ==
  t.voters >= effectiveSlashFloor(p) /\ t.invalid >= auditRelativeBar(p, t.seats) /\ t.cheated

auditVindicateDecision(p, t) ==
  t.voters >= effectiveSlashFloor(p) /\ t.voters - t.invalid >= auditRelativeBar(p, t.seats)
    /\ t.valid

(* The re-adjudication electorate: drawn members that did not author or     *)
(* share the contested result, registered, with a readable re-commit.       *)
Contested(j) == job[j].com \union {m \in Miners : vote[j].work[m] # "none"}
RedoSeats(j) == seat[j].redo \ Contested(j)
RedoVotes(j) == {m \in RedoSeats(j) : Registered(m) /\ vote[j].redo[m] # "none"}
RedoAgree(j) == {m \in RedoVotes(j) : vote[j].redo[m] = "agree"}
RedoQuorum(j) == IF CeilTwoThirds(Cardinality(RedoSeats(j))) < redoQuorumFloor
                 THEN redoQuorumFloor ELSE CeilTwoThirds(Cardinality(RedoSeats(j)))

hasOpenObligationFault(m, live) ==  \* Fault: a retention does not bind its miner.
  \/ live /\ \E j \in Jobs : m \in seat[j].jury \union seat[j].redo /\ ~jobIsResolved(job[j].st)
  \/ \E j \in Jobs : job[j].miner = m /\ OpenDispute(j)

(* hasOpenObligation; "live": the miner is still eligible as a juror, and   *)
(* only then do its seats bind it.                                          *)
hasOpenObligation(m, live) ==
  \/ \E j \in Jobs : acct[j].held > 0 /\ job[j].miner = m
  \/ live /\ \E j \in Jobs : m \in seat[j].jury \union seat[j].redo /\ ~jobIsResolved(job[j].st)
  \/ \E j \in Jobs : job[j].miner = m /\ OpenDispute(j)
  \/ \E j \in Jobs : /\ ~jobIsPaid(job[j].st) /\ ~jobEscrowReturned(job[j].st)
                     /\ ~jobIsResolved(job[j].st) /\ vote[j].work[m] # "none"

(* effectiveAuditBps: every job of a newcomer is audited; the rate may grow *)
(* with the fee.                                                            *)
effectiveAuditBps(j) ==
  LET p == params
      adapted == p.AuditSampleBps + (IF p.AuditAdaptive > 0
                   THEN (p.AuditSampleBps * acct[j].fee) \div p.AuditAdaptive ELSE 0)
  IN  IF p.AuditProbationJobs > 0 /\ miner[job[j].miner].count <= p.AuditProbationJobs
      THEN 10000 ELSE MinOf(adapted, 10000)

UnwindableFault(j) ==  \* Fault: the age is met only on the exact block.
  /\ acct[j].held > 0 /\ acct[j].since > 0
  /\ height - acct[j].since = params.AuditUnwindBlocks

(* unwindStrandedRetention applies: a dated debt that reached its age.      *)
Unwindable(j) ==
  /\ params.AuditUnwindBlocks > 0
  /\ acct[j].held > 0 /\ acct[j].since > 0
  /\ height >= acct[j].since /\ height - acct[j].since >= params.AuditUnwindBlocks

-----------------------------------------------------------------------------
(* Building blocks of the handlers.                                         *)

(* Move coins and counters from account a to account b of one job.          *)
Book(k, a, b) ==
  [k EXCEPT !.bal      = k.bal - (Spent(b) - Spent(a)),
            !.treasury = k.treasury + (b.toTreasury - a.toTreasury)
                                    + (b.bondForfeit - a.bondForfeit),
            !.team     = k.team + (b.toTeamPool - a.toTeamPool)]

CloseFault(j, marks, by, against) ==  \* Fault: the "resolved" marker is forgotten.
  /\ job'  = [job EXCEPT ![j].st = @ \union marks, ![j].by = by, ![j].against = against]
  /\ seat' = [seat EXCEPT ![j] = NoSeat]

(* The job closes: markers appended, seats cleared (clearAuditCommittee).   *)
(* "by" and "against" are history: which instance closed it, and whether    *)
(* it went against the primary.                                             *)
Close(j, marks, by, against) ==
  /\ job'  = [job EXCEPT ![j].st = @ \union {"resolved"} \union marks, ![j].by = by,
                         ![j].against = against]
  /\ seat' = [seat EXCEPT ![j] = NoSeat]

(* releaseHeld on a job: what its account becomes; then the step, which     *)
(* credits the right and marks or unmarks the job for retry.  "b" is the    *)
(* released account after what the caller does to the bond.                 *)
Released(j, no) == releaseHeld(acct[j], params, no, Registered(job[j].miner))

Release(j, b) ==
  LET m == job[j].miner
  IN  /\ acct' = [acct EXCEPT ![j] = b]
      /\ bank' = Book(bank, acct[j], b)
      /\ pendingRelease' = IF ReleasePending(b) THEN pendingRelease \union {j}
                                                ELSE pendingRelease \ {j}
      /\ miner' = IF Registered(m) THEN [miner EXCEPT ![m].demand = @ + (b.credit - acct[j].credit)]
                                   ELSE miner

(* Faults: the credit is kept; its reversal is not bounded by the demand.   *)
DemandReversedFault1(j) == miner

DemandReversedFault2(j) ==
  LET m == job[j].miner
      c == Cut(params, acct[j].fee)
  IN  IF Registered(m) /\ acct[j].right = 0 /\ ~miner[m].self
      THEN [miner EXCEPT ![m].demand = @ - (c - Bps(c, params.ValidatorRewardBps))] ELSE miner

(* Refunding a retention whose right was already credited takes the credit  *)
(* back, at today's parameters and never below zero (refundRetainedToClient *)
(* lines 453-460), unless the client is the operator.                       *)
DemandReversed(j) ==
  LET m   == job[j].miner
      cut == Cut(params, acct[j].fee)
      rev == cut - Bps(cut, params.ValidatorRewardBps)
  IN  IF Registered(m) /\ acct[j].right = 0 /\ ~miner[m].self
      THEN [miner EXCEPT ![m].demand = @ - MinOf(rev, @)] ELSE miner

(* unwindStrandedRetention: the trade is undone, the bond returned.         *)
Unwind(j, no, drawn) ==
  LET b == refundDisputeBond(refundRetained(acct[j], no), no)
  IN  /\ acct' = [acct EXCEPT ![j] = b]
      /\ bank' = Book(bank, acct[j], b)
      /\ miner' = DemandReversed(j)
      /\ job' = [job EXCEPT ![j].st = @ \union {"resolved", "unwound"}, ![j].by = "unwind",
                            ![j].drawn = drawn]
      /\ seat' = [seat EXCEPT ![j] = NoSeat]

(* slashCheatedPrimary: the retention to the client, then what is still     *)
(* owed out of the slashed stake; the rest of the slash to the Treasury.    *)
(* A primary that left is not slashed.                                      *)
SlashAmount(j) ==
  IF Registered(job[j].miner) THEN Bps(miner[job[j].miner].stake, params.SlashLeakBps) ELSE 0

SlashedAccountFault(a, amt, no) ==  \* Fault: the refund is not deducted from what is owed.
  [refundRetained(a, no) EXCEPT !.comp = a.comp + Sent(MinOf(a.fee, amt), "client", no)]

SlashedAccount(a, amt, no) ==
  LET r == refundRetained(a, no)
  IN  [r EXCEPT !.comp = r.comp + Sent(MinOf(a.fee - (r.toClient - a.toClient), amt),
                                       "client", no)]

AdjudicatedAccountFault(a, amt, no) == refundRetained(a, no)  \* Fault: the bond owes nothing.

(* AdjudicateDispute computes what the bond owes before it refunds.         *)
AdjudicatedAccount(a, amt, no) ==
  [refundRetained(a, no) EXCEPT !.comp = a.comp + Sent(MinOf(a.fee - retainedTotal(a), amt),
                                                       "client", no)]

TakeStakeFault(reversed, j, amt) == reversed  \* Fault: the slash leaves the stake whole.

TakeStake(reversed, j, amt) ==
  IF Registered(job[j].miner) THEN [reversed EXCEPT ![job[j].miner].stake = @ - amt]
                              ELSE reversed

-----------------------------------------------------------------------------
(* Transactions.                                                            *)
InTx == phase = "tx" /\ UNCHANGED <<height, phase, todo, seedOK>>

(* The Nash guard: the expected slash outweighs the fee at stake.           *)
NashHolds(p, fee) ==
  p.AuditSampleBps * p.SlashLeakBps * p.MinStake > (10000 - p.AuditSampleBps) * 10000 * fee

(* enoughEligibleMinersToVerify: a jury besides the primary, unless a full  *)
(* hold with an unwind age makes an unjudgeable job harmless.               *)
PoolNeeded(p) ==
  IF p.AuditUnwindBlocks > 0 /\ p.HoldBps >= 10000 THEN 1 ELSE effectiveSlashFloor(p) + 1

OpenJob(j, fee) ==
  LET pool == {m \in Miners : miner[m].reg /\ ~miner[m].fresh}
  IN  /\ InTx
      /\ job[j].st = {}
      /\ NashHolds(params, fee)
      /\ Cardinality(pool) >= PoolNeeded(params)
      /\ job' = [job EXCEPT ![j].st = {"open"}, ![j].pool = pool]
      /\ acct' = [acct EXCEPT ![j] = OpenAccount(fee)]
      /\ bank' = [bank EXCEPT !.bal = @ + fee]
      /\ q' = [q EXCEPT !["reveal"] = @ \union {<<height + params.CommitteeRevealDelay, j>>},
                        !["expiry"] = IF fee > 0
                                      THEN @ \union {<<height + params.JobExpiryBlocks, j>>} ELSE @]
      /\ UNCHANGED <<params, seat, vote, miner, pendingRelease, opened>>

(* CreateCommit: one entry per key, immutable, once the committee is        *)
(* revealed.  A work commit parses as a vector or does not.                 *)
MayCommit(j, m) == InTx /\ job[j].revealed /\ Registered(m)

CommitWork(j, m, v) ==
  /\ MayCommit(j, m)
  /\ vote[j].work[m] = "none"
  /\ Cardinality({n \in Miners : vote[j].work[n] # "none"}) < MaxAuthors
  /\ vote' = [vote EXCEPT ![j].work[m] = v]
  /\ UNCHANGED <<params, job, acct, seat, miner, q, pendingRelease, bank, opened>>

(* Bound: only the votes of seated members are explored.  The others are    *)
(* never read, and one posted before the seat is drawn counts as if posted  *)
(* after: a whole block separates the draw from the first tally.            *)
CommitVerdict(j, m, v) ==
  /\ MayCommit(j, m)
  /\ m \in seat[j].jury
  /\ vote[j].verdict[m] = "none"
  /\ vote' = [vote EXCEPT ![j].verdict[m] = v]
  /\ UNCHANGED <<params, job, acct, seat, miner, q, pendingRelease, bank, opened>>

CommitRedo(j, m, v) ==
  /\ MayCommit(j, m)
  /\ m \in seat[j].redo
  /\ vote[j].redo[m] = "none"
  /\ vote' = [vote EXCEPT ![j].redo[m] = v]
  /\ UNCHANGED <<params, job, acct, seat, miner, q, pendingRelease, bank, opened>>

(* SettleSemantic in optimistic mode.                                       *)
settleOptimistic(j, no) ==
  LET m == job[j].prim
      b == SettleAccount(acct[j], params, no, miner[m].self, height)
  IN  /\ InTx
      /\ job[j].st # {} /\ ~jobIsPaid(job[j].st) /\ ~jobEscrowReturned(job[j].st)
      /\ job[j].revealed /\ m # NoMiner
      /\ vote[j].work[m] = "vector"
      /\ BurnShare(params, acct[j].fee) + Cut(params, acct[j].fee) <= acct[j].fee
      /\ MinerNet(params, acct[j].fee) > 0
      /\ Registered(m)
      /\ params.HoldBps = 0 => "burn" \notin no
      /\ acct' = [acct EXCEPT ![j] = b]
      /\ bank' = Book(bank, acct[j], b)
      /\ job' = [job EXCEPT ![j].miner = m, ![j].st = @ \union {"paid", "optimistic"}]
      /\ miner' = [miner EXCEPT ![m].count = @ + 1]
      /\ q' = [q EXCEPT !["audit"] = @ \union {<<height + 1, j>>}]
      /\ UNCHANGED <<params, seat, vote, pendingRelease, opened>>

(* DisputeVerdict: the bond is escrowed, the redo committee drawn if it can *)
(* be (best effort), the deadline booked.                                   *)
DisputeVerdict(j, redo) ==
  /\ InTx
  /\ jobIsPaid(job[j].st) /\ ~jobIsDisputed(job[j].st) /\ ~jobIsResolved(job[j].st)
  /\ redo \subseteq job[j].pool \ ({job[j].miner} \union Contested(j))
  /\ job'  = [job EXCEPT ![j].st = @ \union {"disputed"}, ![j].dheight = height]
  /\ acct' = [acct EXCEPT ![j].bond = params.DisputeBond, ![j].bondIn = params.DisputeBond]
  /\ bank' = [bank EXCEPT !.bal = @ + params.DisputeBond]
  /\ seat' = [seat EXCEPT ![j].human = TRUE, ![j].redo = redo]
  /\ opened' = IF seat[j].selected THEN opened ELSE opened + 1
  /\ q' = [q EXCEPT !["resolve"] = @ \union {<<height + params.AuditResolveTimeout, j>>}]
  /\ UNCHANGED <<params, vote, miner, pendingRelease>>

(* Pay a winning disputer its bond and a reward the Treasury can afford.    *)
Reward(j) == MinOf(acct[j].bond, bank.treasury)

PayDisputerFault(k, j) == [k EXCEPT !.bal = k.bal - Reward(j)]  \* Fault: no debit.

PayDisputer(k, j) == [k EXCEPT !.bal = k.bal - Reward(j), !.treasury = k.treasury - Reward(j)]

(* ResolveDispute, by the authority.  An optimistic job carries no slash    *)
(* record before its resolution, so there is no slash to reverse.  The bond *)
(* stays written on the job.                                                *)
ResolveUpheld(j, no) ==
  LET r == refundRetained(acct[j], no)
      b == [r EXCEPT !.bondBack = r.bondBack + r.bond]
  IN  /\ InTx
      /\ OpenDispute(j)
      /\ acct[j].bond > 0 => "disputer" \notin no
      /\ acct' = [acct EXCEPT ![j] = b]
      /\ bank' = Book(PayDisputer(bank, j), acct[j], b)
      /\ miner' = DemandReversed(j)
      /\ Close(j, {}, "authority", TRUE)
      /\ UNCHANGED <<params, vote, q, pendingRelease, opened>>

ResolveRejected(j, no) ==
  LET b == Released(j, no)
  IN  /\ InTx
      /\ OpenDispute(j)
      /\ Release(j, [b EXCEPT !.bondForfeit = b.bondForfeit + b.bond])
      /\ Close(j, {}, "authority", FALSE)
      /\ UNCHANGED <<params, vote, q, opened>>

(* AdjudicateDispute: permissionless, after the dispute window.  A jury     *)
(* with enough voters decides by its verdicts; otherwise the quorum of the  *)
(* redo committee decides by the majority of its stake.                     *)
VerdictCanSlash(j) == Tally(j).voters >= effectiveSlashFloor(params)

Admissible(j) ==
  /\ OpenDispute(j)
  /\ height >= job[j].dheight + params.DisputeWindow
  /\ \/ VerdictCanSlash(j)
     \/ Cardinality(RedoVotes(j)) >= RedoQuorum(j) /\ StakeOf(RedoVotes(j)) > 0

RedoConvicts(j) == 2 * StakeOf(RedoAgree(j)) < StakeOf(RedoVotes(j))
RedoAcquits(j)  == 2 * StakeOf(RedoAgree(j)) > StakeOf(RedoVotes(j))

Convicts(j) == IF VerdictCanSlash(j) THEN auditSlashDecision(params, Tally(j))
                                     ELSE RedoConvicts(j)
Acquits(j)  == IF VerdictCanSlash(j)
               THEN ~Convicts(j) /\ auditVindicateDecision(params, Tally(j))
               ELSE RedoAcquits(j)

(* The Treasury is credited with the slash before the reward is measured.   *)
AdjudicateCheated(j, no) ==
  LET amt == SlashAmount(j)
      c   == AdjudicatedAccount(acct[j], amt, no)
      b   == [c EXCEPT !.bondBack = c.bondBack + c.bond, !.bond = 0]
      k   == bank.treasury + (amt - (c.comp - acct[j].comp))
      rew == MinOf(acct[j].bond, k)
  IN  /\ InTx
      /\ Admissible(j) /\ Convicts(j)
      /\ acct[j].bond > 0 => "disputer" \notin no
      /\ acct' = [acct EXCEPT ![j] = b]
      /\ bank' = Book([bank EXCEPT !.bal = @ - rew, !.treasury = k - rew], acct[j], b)
      /\ miner' = TakeStake(DemandReversed(j), j, amt)
      /\ Close(j, {"adjudicated"}, IF VerdictCanSlash(j) THEN "verdict" ELSE "redo", TRUE)
      /\ UNCHANGED <<params, vote, q, pendingRelease, opened>>

AdjudicateHonest(j, no) ==
  /\ InTx
  /\ Admissible(j) /\ Acquits(j)
  /\ Release(j, forfeitBond(Released(j, no)))
  /\ Close(j, {"adjudicated"}, IF VerdictCanSlash(j) THEN "verdict" ELSE "redo", FALSE)
  /\ UNCHANGED <<params, vote, q, opened>>

(* The registry: CreateMiner, UpdateMiner (which rewrites the record and    *)
(* so drops its Demand), DeleteMiner, UpdateParams.                         *)
CreateMiner(m, s, self) ==
  /\ InTx
  /\ ~miner[m].reg
  /\ s >= params.MinStake
  /\ miner' = [miner EXCEPT ![m] = [reg |-> TRUE, fresh |-> TRUE, self |-> self, stake |-> s,
                                    demand |-> 0, count |-> miner[m].count]]
  /\ bank' = [bank EXCEPT !.bal = @ + s]
  /\ UNCHANGED <<params, job, acct, seat, vote, q, pendingRelease, opened>>

UpdateMiner(m, self) ==
  /\ InTx
  /\ miner[m].reg
  /\ miner' = [miner EXCEPT ![m].demand = 0, ![m].self = self]
  /\ UNCHANGED <<params, job, acct, seat, vote, q, pendingRelease, bank, opened>>

(* A miner leaves with its bond; a later registration is too young for the  *)
(* pools frozen before it.                                                  *)
Leave(m) ==
  /\ miner' = [miner EXCEPT ![m].reg = FALSE, ![m].fresh = FALSE, ![m].stake = 0,
                            ![m].demand = 0]
  /\ bank' = [bank EXCEPT !.bal = @ - miner[m].stake]
  /\ job' = [j \in Jobs |-> [job[j] EXCEPT !.pool = @ \ {m}]]

DeleteMiner(m, live) ==
  /\ InTx
  /\ miner[m].reg
  /\ ~hasOpenObligation(m, live)
  /\ Leave(m)
  /\ UNCHANGED <<params, acct, seat, vote, q, pendingRelease, opened>>

UpdateParams(p) ==
  /\ InTx
  /\ p # params
  /\ params' = p
  /\ UNCHANGED <<job, acct, seat, vote, miner, q, pendingRelease, bank, opened>>

-----------------------------------------------------------------------------
(* The EndBlocker.  Each phase first collects its batch: the due entries,   *)
(* lowest heights first, at most auditMaxPerBlock of them.                  *)
Due(n) ==
  CASE n \in Queues  -> {e \in q[n] : e[1] <= height}
    [] n = "prune"   -> IF height % EpochBlocks = 0
                        THEN {<<0, m>> : m \in {x \in Leavers : miner[x].reg}} ELSE {}
    [] n = "release" -> IF height % EpochBlocks = 0 THEN {<<0, j>> : j \in pendingRelease} ELSE {}

(* pruneInactiveMiners picks its victims before it evicts any: inactive     *)
(* (any miner may be) and without an open obligation.                       *)
Doomed == {e \in Due("prune") : \E live \in BOOLEAN : ~hasOpenObligation(e[2], live)}

Batches(n) ==
  CASE n \in Queues  -> {B \in SUBSET Due(n) :
                           /\ Cardinality(B) = MinOf(auditMaxPerBlock, Cardinality(Due(n)))
                           /\ \A e \in B, f \in Due(n) \ B : e[1] <= f[1]}
    [] n = "prune"   -> (SUBSET Doomed) \ {{}}
    [] n = "release" -> {Due("release")}

Idle(n) == IF n = "prune" THEN TRUE ELSE Due(n) = {}

EndPhase(n) ==
  /\ todo = {}
  /\ Rank[n] > Rank[phase]
  /\ Due(n) # {}
  /\ \A k \in Phases : Rank[phase] < Rank[k] /\ Rank[k] < Rank[n] => Idle(k)
  /\ phase' = n
  /\ todo' \in Batches(n)
  /\ UNCHANGED <<height, seedOK, params, job, acct, seat, vote, miner, q, pendingRelease, bank,
                 opened>>

NextBlock ==
  /\ todo = {}
  /\ \A k \in Phases : Rank[phase] < Rank[k] => Idle(k)
  /\ height < MaxHeight
  /\ height' = height + 1 /\ phase' = "tx" /\ seedOK' \in SeedOutcomes
  /\ miner' = [m \in Miners |-> [miner[m] EXCEPT !.fresh = FALSE]]
  /\ UNCHANGED <<todo, params, job, acct, seat, vote, q, pendingRelease, bank, opened>>

(* Serving entry e of the current phase; "again" are the entries it books.  *)
Serve(e) ==
  /\ e \in todo /\ todo' = todo \ {e}
  /\ UNCHANGED <<height, phase, seedOK, params, vote>>

RebookFault(e, n, again) ==  \* Fault: the entries the batch left out are dropped.
  q' = [x \in Queues |-> (IF x = phase THEN q[x] \ Due(x) ELSE q[x])
                           \union (IF x = n THEN again ELSE {})]

Rebook(e, n, again) ==
  q' = [x \in Queues |-> (IF x = phase THEN q[x] \ {e} ELSE q[x])
                           \union (IF x = n THEN again ELSE {})]

(* expireUnservedJob.  Only a job with a fee has an appointment.            *)
ServedBy(j) == {m \in job[j].com : vote[j].work[m] # "none"}

ExpireMoved(e) ==
  /\ phase = "expiry" /\ Serve(e)
  /\ job[e[2]].st # {"open"}
  /\ Rebook(e, "expiry", {})
  /\ UNCHANGED <<job, acct, seat, miner, pendingRelease, bank, opened>>

ExpireLaterFault(e, no) ==  \* Fault: a served or unrevealed job gets no new appointment.
  /\ phase = "expiry" /\ Serve(e)
  /\ job[e[2]].st = {"open"} /\ (~job[e[2]].revealed \/ ServedBy(e[2]) # {} \/ "client" \in no)
  /\ Rebook(e, "expiry", {})
  /\ UNCHANGED <<job, acct, seat, miner, pendingRelease, bank, opened>>

ExpireLater(e, no) ==
  LET j == e[2]
  IN  /\ phase = "expiry" /\ Serve(e)
      /\ job[j].st = {"open"}
      /\ \/ ~job[j].revealed
         \/ ServedBy(j) # {}
         \/ "client" \in no
      /\ Rebook(e, "expiry", {<<height + jobExpiryRetryBlocks, j>>})
      /\ UNCHANGED <<job, acct, seat, miner, pendingRelease, bank, opened>>

ExpireRefund(e, no) ==
  LET j == e[2]
      b == ExpireAccount(acct[j])
  IN  /\ phase = "expiry" /\ Serve(e)
      /\ job[j].st = {"open"} /\ job[j].revealed /\ ServedBy(j) = {}
      /\ "client" \notin no
      /\ acct' = [acct EXCEPT ![j] = b]
      /\ bank' = Book(bank, acct[j], b)
      /\ job' = [job EXCEPT ![j].st = @ \union {"expired", "refunded"}, ![j].by = "expiry"]
      /\ Rebook(e, "expiry", {})
      /\ UNCHANGED <<seat, miner, pendingRelease, opened>>

(* The deferred reveal: the seed is fixed and the work committee anchored,  *)
(* its first member the primary.                                            *)
Reveal(e, com, prim) ==
  LET j == e[2]
  IN  /\ phase = "reveal" /\ Serve(e)
      /\ ~SeedMissing
      /\ com \subseteq job[j].pool
      /\ Cardinality(com) <= params.WorkCommitteeSize
      /\ IF com = {} THEN prim = NoMiner ELSE prim \in com
      /\ job' = [job EXCEPT ![j].revealed = TRUE, ![j].com = com, ![j].prim = prim]
      /\ Rebook(e, "reveal", {})
      /\ UNCHANGED <<acct, seat, miner, pendingRelease, bank, opened>>

RevealDeferred(e) ==
  /\ phase = "reveal" /\ Serve(e)
  /\ SeedMissing
  /\ Rebook(e, "reveal", {<<height + auditDeferStride, e[2]>>})
  /\ UNCHANGED <<job, acct, seat, miner, pendingRelease, bank, opened>>

(* runOptimisticAudit.                                                      *)
AuditDrop(e) ==
  /\ phase = "audit" /\ Serve(e)
  /\ ~jobIsPaid(job[e[2]].st) \/ jobIsResolved(job[e[2]].st)
  /\ Rebook(e, "audit", {})
  /\ UNCHANGED <<job, acct, seat, miner, pendingRelease, bank, opened>>

AuditDueFault(e) ==  \* Fault: a resolved job is drawn all the same.
  phase = "audit" /\ Serve(e) /\ jobIsPaid(job[e[2]].st)

AuditDue(e) ==
  /\ phase = "audit" /\ Serve(e)
  /\ jobIsPaid(job[e[2]].st) /\ ~jobIsResolved(job[e[2]].st)

(* No decentralized seed: no draw.  An old enough debt is unwound.          *)
AuditNoSeedUnwind(e, no) ==
  /\ AuditDue(e) /\ SeedMissing
  /\ Unwindable(e[2])
  /\ Unwind(e[2], no, job[e[2]].drawn)
  /\ Rebook(e, "audit", {})
  /\ UNCHANGED <<pendingRelease, opened>>

AuditNoSeedDefer(e) ==
  /\ AuditDue(e) /\ SeedMissing
  /\ ~Unwindable(e[2])
  /\ Rebook(e, "audit", {<<height + auditDeferStride, e[2]>>})
  /\ UNCHANGED <<job, acct, seat, miner, pendingRelease, bank, opened>>

(* Passed over: final in the miner's favour, even under an open dispute.    *)
AuditPass(e, no) ==
  /\ AuditDue(e) /\ ~SeedMissing
  /\ ~seat[e[2]].selected /\ effectiveAuditBps(e[2]) < 10000
  /\ Release(e[2], Released(e[2], no))
  /\ job' = [job EXCEPT ![e[2]].drawn = "passed"]
  /\ Rebook(e, "audit", {})
  /\ UNCHANGED <<seat, opened>>

AuditDrawnFault(e, jury) ==  \* Fault: a job already disputed is counted again.
  /\ AuditDue(e) /\ ~SeedMissing
  /\ jury \subseteq job[e[2]].pool \ {job[e[2]].miner}
  /\ opened' = IF seat[e[2]].selected THEN opened ELSE opened + 1

(* Selected.  The jury is any part of the frozen pool without the primary.  *)
AuditDrawn(e, jury) ==
  /\ AuditDue(e) /\ ~SeedMissing
  /\ jury \subseteq job[e[2]].pool \ {job[e[2]].miner}
  /\ opened' = IF seat[e[2]].selected \/ jobIsDisputed(job[e[2]].st) THEN opened ELSE opened + 1

AuditSelect(e, jury) ==
  LET j == e[2]
      new == ~jobIsDisputed(job[j].st)
  IN  /\ AuditDrawn(e, jury)
      /\ Cardinality(jury) >= effectiveSlashFloor(params)
      /\ job' = [job EXCEPT ![j].st = @ \union {"disputed"}, ![j].drawn = "selected",
                            ![j].dheight = IF new THEN height ELSE @]
      /\ seat' = [seat EXCEPT ![j].jury = jury, ![j].selected = FALSE]
      /\ acct' = [acct EXCEPT ![j].bond = IF new THEN 0 ELSE @]
      /\ Rebook(e, "resolve", {<<height + params.AuditResolveTimeout, j>>})
      /\ UNCHANGED <<miner, pendingRelease, bank>>

(* Too few judges: the selection is kept, the draw retried; the local       *)
(* dispute marker is not persisted.  An old enough debt is unwound.         *)
AuditSmallJury(e, jury) ==
  LET j == e[2]
  IN  /\ AuditDrawn(e, jury)
      /\ Cardinality(jury) < effectiveSlashFloor(params)
      /\ ~Unwindable(j)
      /\ seat' = [seat EXCEPT ![j].selected = TRUE]
      /\ job' = [job EXCEPT ![j].drawn = "selected"]
      /\ Rebook(e, "audit", {<<height + auditDeferStride, j>>})
      /\ UNCHANGED <<acct, miner, pendingRelease, bank>>

AuditSmallJuryUnwind(e, jury, no) ==
  /\ AuditDrawn(e, jury)
  /\ Cardinality(jury) < effectiveSlashFloor(params)
  /\ Unwindable(e[2])
  /\ Unwind(e[2], no, "selected")
  /\ Rebook(e, "audit", {})
  /\ UNCHANGED pendingRelease

(* resolveDisputedAudit, at the first deadline and at the appeal.           *)
ResolveStale(e) ==
  /\ phase \in {"resolve", "appeal"} /\ Serve(e)
  /\ ~OpenDispute(e[2])
  /\ Rebook(e, phase, {})
  /\ UNCHANGED <<job, acct, seat, miner, pendingRelease, bank, opened>>

ResolveDue(e) ==
  /\ phase \in {"resolve", "appeal"} /\ Serve(e)
  /\ OpenDispute(e[2])

LotteryHoldsFault(j) == FALSE  \* Fault: the human path does not wait for the lottery.

(* The lottery has not let go of the job: selected, or still to be drawn.   *)
LotteryHolds(j) == seat[j].selected \/ Queued("audit", j)

(* A redo committee was summoned and no adjudication came: not the          *)
(* disputer's fault, its bond returns.                                      *)
ResolveSilent(e, no) ==
  LET j == e[2]
  IN  /\ ResolveDue(e)
      /\ seat[j].jury = {} /\ seat[j].redo # {} /\ ~LotteryHolds(j)
      /\ Release(j, refundDisputeBond(Released(j, no), no))
      /\ Close(j, {}, "silent", FALSE)
      /\ Rebook(e, phase, {})
      /\ UNCHANGED opened

(* No committee was ever summoned: the dispute is unfounded.                *)
ResolveUnfounded(e, no) ==
  LET j == e[2]
  IN  /\ ResolveDue(e)
      /\ seat[j].jury = {} /\ seat[j].redo = {} /\ ~LotteryHolds(j) /\ seat[j].human
      /\ Release(j, forfeitBond(Released(j, no)))
      /\ Close(j, {}, "unfounded", FALSE)
      /\ Rebook(e, phase, {})
      /\ UNCHANGED opened

Judged(e) ==
  /\ ResolveDue(e)
  /\ \/ seat[e[2]].jury # {}
     \/ LotteryHolds(e[2])
     \/ seat[e[2]].redo = {} /\ ~seat[e[2]].human

ResolveSlash(e, no) ==
  LET j   == e[2]
      amt == SlashAmount(j)
      c   == SlashedAccount(acct[j], amt, no)
      b   == refundDisputeBond(c, no)
  IN  /\ Judged(e)
      /\ auditSlashDecision(params, Tally(j))
      /\ acct' = [acct EXCEPT ![j] = b]
      /\ bank' = [Book(bank, acct[j], b) EXCEPT !.treasury = @ + (amt - (c.comp - acct[j].comp))]
      /\ miner' = TakeStake(DemandReversed(j), j, amt)
      /\ Close(j, {"clawed", "quorum"}, "jury", TRUE)
      /\ Rebook(e, phase, {})
      /\ UNCHANGED <<pendingRelease, opened>>

ResolveVindicate(e, no) ==
  LET j == e[2]
  IN  /\ Judged(e)
      /\ ~auditSlashDecision(params, Tally(j)) /\ auditVindicateDecision(params, Tally(j))
      /\ Release(j, forfeitBond(Released(j, no)))
      /\ Close(j, {"vindicated", "quorum"}, "jury", FALSE)
      /\ Rebook(e, phase, {})
      /\ UNCHANGED opened

Undecided(e) ==
  /\ Judged(e)
  /\ ~auditSlashDecision(params, Tally(e[2])) /\ ~auditVindicateDecision(params, Tally(e[2]))

ResolveUnwind(e, no) ==
  /\ Undecided(e)
  /\ Unwindable(e[2])
  /\ Unwind(e[2], no, job[e[2]].drawn)
  /\ Rebook(e, phase, {})
  /\ UNCHANGED <<pendingRelease, opened>>

ResolveDeferFault(e) ==  \* Fault: an undecided dispute gets no new deadline.
  /\ Undecided(e)
  /\ ~Unwindable(e[2])
  /\ Rebook(e, phase, {})
  /\ UNCHANGED <<job, acct, seat, miner, pendingRelease, bank, opened>>

(* Below the bar: one appeal per deadline, then a new deadline.             *)
ResolveDefer(e) ==
  LET j == e[2]
      appeal == phase = "resolve" /\ params.AppealWindow > 0
  IN  /\ Undecided(e)
      /\ ~Unwindable(j)
      /\ IF appeal THEN Rebook(e, "appeal", {<<height + params.AppealWindow, j>>})
                   ELSE Rebook(e, "resolve", {<<height + params.AuditResolveTimeout, j>>})
      /\ UNCHANGED <<job, acct, seat, miner, pendingRelease, bank, opened>>

(* pruneInactiveMiners: a refused refund cancels the eviction.              *)
PruneMiner(e, no) ==
  /\ phase = "prune" /\ Serve(e)
  /\ IF "owner" \in no THEN UNCHANGED <<miner, bank, job>> ELSE Leave(e[2])
  /\ UNCHANGED <<acct, seat, q, pendingRelease, opened>>

(* retryHeldReleases.                                                       *)
RetryRelease(e, no) ==
  /\ phase = "release" /\ Serve(e)
  /\ Release(e[2], Released(e[2], no))
  /\ UNCHANGED <<job, seat, q, opened>>

-----------------------------------------------------------------------------
(* The exploration stops at the bound; the chain does not.                  *)
Horizon == height = MaxHeight /\ UNCHANGED vars

Tx ==
  \/ \E j \in Jobs, fee \in Fees : OpenJob(j, fee)
  \/ \E j \in Jobs, m \in Miners :
       \/ \E v \in {"vector", "garbage"} : CommitWork(j, m, v)
       \/ \E v \in {"valid", "invalid"}  : CommitVerdict(j, m, v)
       \/ \E v \in {"agree", "differ"}   : CommitRedo(j, m, v)
  \/ \E j \in Jobs, redo \in SUBSET Miners : DisputeVerdict(j, redo)
  \/ \E j \in Jobs, no \in SUBSET Refusable :
       \/ ResolveRejected(j, no)
       \/ ResolveUpheld(j, no)
       \/ AdjudicateHonest(j, no)
       \/ AdjudicateCheated(j, no)
       \/ settleOptimistic(j, no)
  \/ \E m \in Leavers, self \in BOOLEAN :
       \/ UpdateMiner(m, self)
       \/ \E s \in Stakes : CreateMiner(m, s, self)
  \/ \E m \in Leavers, live \in BOOLEAN : DeleteMiner(m, live)
  \/ \E p \in ParamSets : UpdateParams(p)

ServeEntry(e) ==
  \/ ExpireMoved(e)
  \/ \E com \in SUBSET Miners, prim \in Miners \union {NoMiner} : Reveal(e, com, prim)
  \/ RevealDeferred(e)
  \/ AuditDrop(e)
  \/ AuditNoSeedDefer(e)
  \/ \E jury \in SUBSET Miners : AuditSelect(e, jury) \/ AuditSmallJury(e, jury)
  \/ ResolveStale(e)
  \/ ResolveDefer(e)
  \/ \E no \in SUBSET Refusable :
       \/ ExpireLater(e, no)
       \/ ExpireRefund(e, no)
       \/ AuditPass(e, no)
       \/ ResolveSilent(e, no)
       \/ ResolveUnfounded(e, no)
       \/ ResolveVindicate(e, no)
       \/ PruneMiner(e, no)
       \/ RetryRelease(e, no)
       \/ AuditNoSeedUnwind(e, no)
       \/ \E jury \in SUBSET Miners : AuditSmallJuryUnwind(e, jury, no)
       \/ ResolveSlash(e, no)
       \/ ResolveUnwind(e, no)

EndBlock ==
  \/ \E n \in Phases : EndPhase(n)
  \/ \E e \in todo : ServeEntry(e)
  \/ NextBlock

Next == Tx \/ EndBlock \/ Horizon

Spec == Init /\ [][Next]_vars

(* Consensus keeps producing blocks: the EndBlocker always runs on.         *)
FairSpec == Spec /\ WF_vars(EndBlock)

-----------------------------------------------------------------------------
(* Types.                                                                   *)
(* An entry of a batch: a job with its height, or a miner to evict.         *)
Entry == IF phase = "prune" THEN Nat \X Miners ELSE Nat \X Jobs

JobRecord ==
  [st : SUBSET Markers, miner : Miners \union {NoMiner}, dheight : Nat, revealed : BOOLEAN,
   pool : SUBSET Miners, prim : Miners \union {NoMiner}, com : SUBSET Miners,
   drawn : {"none", "selected", "passed"},
   by : {"none", "expiry", "unwind", "jury", "silent", "unfounded", "redo", "verdict", "authority"},
   against : BOOLEAN]

SeatRecord == [jury : SUBSET Miners, redo : SUBSET Miners, human : BOOLEAN, selected : BOOLEAN]

VoteRecord == [work    : [Miners -> {"none", "vector", "garbage"}],
               verdict : [Miners -> {"none", "valid", "invalid"}],
               redo    : [Miners -> {"none", "agree", "differ"}]]

MinerRecord == [reg : BOOLEAN, fresh : BOOLEAN, self : BOOLEAN, stake : Nat, demand : Nat,
                count : Nat]

BankRecord == [bal : Int, treasury : Nat, team : Nat]

(* Every store holds a value of its type: no stake, demand, retained share  *)
(* or pool counter, all unsigned in the code, is ever driven below zero by  *)
(* a slash, a reversal, a refund or a reward.                               *)
TypeOK ==
  /\ height \in Nat \ {0}
  /\ phase \in Phases \union {"tx"}
  /\ todo \subseteq Entry
  /\ seedOK \in BOOLEAN
  /\ params \in ParamSets
  /\ job \in [Jobs -> JobRecord]
  /\ acct \in [Jobs -> Account]
  /\ seat \in [Jobs -> SeatRecord]
  /\ vote \in [Jobs -> VoteRecord]
  /\ miner \in [Miners -> MinerRecord]
  /\ q \in [Queues -> SUBSET (Nat \X Jobs)]
  /\ pendingRelease \subseteq Jobs
  /\ bank \in BankRecord
  /\ opened \in Nat

-----------------------------------------------------------------------------
(* Money.                                                                   *)

(* Whatever sequence of settlement, release, refusal, retry, refund and     *)
(* slash a job goes through, each coin of its fee is in exactly one place:  *)
(* the escrow, a retention, or with a payee.                                *)
EscrowConserved == \A j \in Jobs : FeeConserved(acct[j])

OwedOn(j) ==
  LET a == acct[j]
  IN  a.escrow + retainedTotal(a) + a.stray + (a.bondIn - a.bondBack - a.bondForfeit)

(* The module account covers exactly what it owes: escrows, retentions,     *)
(* bonds of disputers, stakes of miners and the two pools.  A slash, a      *)
(* reward or a refund that moved a counter without its coins (or coins      *)
(* without their counter) would break it.                                   *)
BooksBalance ==
  bank.bal = MapThenSumSet(OwedOn, Jobs) + StakeOf(Miners) + bank.treasury + bank.team

(* Refund from the retention plus compensation from the slashed stake never *)
(* exceeds the fee, in either code path that slashes.                       *)
ClientNeverOverpaid == \A j \in Jobs : acct[j].toClient + acct[j].comp <= acct[j].fee

(* The bond of a disputer is returned or forfeited at most once, although   *)
(* ResolveDispute leaves it written on the resolved job.                    *)
BondOnce == \A j \in Jobs : acct[j].bondBack + acct[j].bondForfeit <= acct[j].bondIn

(* Until finality (a lottery that passes the job over, or a resolution)     *)
(* nothing of the retention has left: no share paid, no subsidy right       *)
(* credited, and no release marked for retry, which would pay it later.     *)
PaidOnlyAtFinality ==
  \A j \in Jobs :
    jobIsPaid(job[j].st) /\ ~jobIsResolved(job[j].st) /\ job[j].drawn # "passed" =>
      /\ acct[j].toVal = 0 /\ acct[j].toTeam = 0 /\ acct[j].toTeamPool = 0
      /\ acct[j].toTreasury = 0 /\ acct[j].toClient = 0 /\ acct[j].credit = 0
      /\ j \notin pendingRelease

(* The demand of a miner, which the subsidy is computed from, never exceeds *)
(* what the jobs it was not stripped of earned (parameters unchanged).      *)
DemandEarned ==
  \A m \in Miners :
    miner[m].demand <= MapThenSumSet(LAMBDA j : acct[j].credit,
                         {j \in Jobs : /\ job[j].miner = m /\ ~job[j].against
                                       /\ job[j].by # "unwind"})

-----------------------------------------------------------------------------
(* Nothing is forgotten.                                                    *)

(* An escrow that no settlement took has an appointment with expiry.        *)
EscrowHasExpiry == \A j \in Jobs : acct[j].escrow > 0 => Queued("expiry", j)

(* A retention (the fee, a share of the cut, the subsidy right) always has  *)
(* an instance that will decide it: the lottery, a deadline, an appeal, or  *)
(* the retry of a refused release.                                          *)
RetentionHasInstance ==
  \A j \in Jobs :
    (\E part \in {"held", "val", "team", "treas", "right"} : acct[j][part] > 0) =>
      Queued("audit", j) \/ Queued("resolve", j) \/ Queued("appeal", j) \/ j \in pendingRelease

(* An open dispute always has a deadline ahead of it.                       *)
DisputeHasDeadline ==
  \A j \in Jobs : OpenDispute(j) => Queued("resolve", j) \/ Queued("appeal", j)

(* The bond that answers for a retained fee stays: its miner can neither    *)
(* withdraw nor be evicted while the fee is held.                           *)
RetainedBondLocked == \A j \in Jobs : acct[j].held > 0 => Registered(job[j].miner)

(* The age a retention can reach: the unwind age (of p) is only looked at   *)
(* when an entry of the job is served, so a deferral booked one block too   *)
(* early adds its whole length, and a draw that comes then adds a deadline  *)
(* (of r, posted in between).                                               *)
MaxAge(p, r) ==
  LET draw == auditDeferStride + r.AuditResolveTimeout
  IN  p.AuditUnwindBlocks - 1 + (IF p.AppealWindow > draw THEN p.AppealWindow ELSE draw)

(* A retention no instance decides returns to the client: it never gets     *)
(* older than MaxAge, whoever stays silent and however often the seed or    *)
(* the jury is missing, and whatever the authority changes, as long as it  *)
(* never turns the unwind off (batches large enough).                       *)
RetentionDeadline ==
  (\A p \in ParamSets : p.AuditUnwindBlocks > 0) =>
    \A j \in Jobs : acct[j].held > 0 /\ j \notin pendingRelease =>
      \E p, r \in ParamSets : height - acct[j].since <= MaxAge(p, r)

-----------------------------------------------------------------------------
(* Judgement.                                                               *)

(* A job the lottery selected is never closed in its miner's favour by the  *)
(* silence of a human dispute that runs in parallel with its audit.         *)
SelectedNotClosedBySilence ==
  \A j \in Jobs : job[j].drawn = "selected" => job[j].by \notin {"silent", "unfounded"}

(* AuditsOpened counts a job once, however the lottery, its retries and a   *)
(* human dispute interleave on it.                                          *)
AuditsOpenedOnce ==
  opened = Cardinality({j \in Jobs : jobIsDisputed(job[j].st) \/ job[j].drawn = "selected"})

Outcome(j) == [st |-> job[j].st, by |-> job[j].by, drawn |-> job[j].drawn,
               against |-> job[j].against, toClient |-> acct[j].toClient,
               comp |-> acct[j].comp, bondBack |-> acct[j].bondBack,
               bondForfeit |-> acct[j].bondForfeit]

Undone(j) == job[j].against \/ job[j].by = "unwind"

ResolvedStaysResolved(j) ==
  jobIsResolved(job[j].st) =>
    /\ Outcome(j)' = Outcome(j)
    /\ Undone(j) => acct[j]'.toMiner = acct[j].toMiner /\ acct[j]'.credit = acct[j].credit

(* A resolution is final.  Later entries of the queues, retried releases    *)
(* and transactions change neither the outcome nor what the client got, and *)
(* pay the miner of an undone job nothing.                                  *)
ResolvedIsFinal == [][\A j \in Jobs : ResolvedStaysResolved(j)]_vars

(* What the client got is the fee, or all that was taken from the primary;  *)
(* a client whose account refuses the coins gets nothing, and the whole     *)
(* retention goes to the Treasury.                                          *)
MadeWhole(j) ==
  LET m == job[j].miner
  IN  ~job[j].against /\ job[j]'.against /\ job[j]'.by # "authority" =>
        \/ acct[j]'.toClient + acct[j]'.comp = acct[j].fee
        \/ acct[j]'.comp - acct[j].comp = miner[m].stake - miner[m]'.stake
        \/ /\ "client" \in Refusable
           /\ acct[j]'.toClient = acct[j].toClient /\ acct[j]'.comp = acct[j].comp
           /\ acct[j]'.toTreasury = acct[j].toTreasury + retainedTotal(acct[j])

(* A slash serves the client first: it is made whole, or all that was taken *)
(* from the primary went to it (msg_server_dispute.go, audit_sampling.go).  *)
SlashServesClient == [][\A j \in Jobs : MadeWhole(j)]_vars

-----------------------------------------------------------------------------
(* The same, as the runs check them together.                               *)

(* No coin is forgotten: an escrow has its expiry, an open dispute its      *)
(* deadline, and a retention an instance that will decide it                *)
(* (job_expiry.go, audit_sampling.go, antievasion.go).                      *)
NothingStranded == EscrowHasExpiry /\ DisputeHasDeadline /\ RetentionHasInstance

(* The lottery, its retries and a human dispute on the same job: no silence *)
(* closes a selected job for its miner, and an audit is counted once        *)
(* (audit_sampling.go).                                                     *)
AuditsSound == SelectedNotClosedBySilence /\ AuditsOpenedOnce

(* Every counter has something behind it: the balance of the module its     *)
(* debts, the demand of a miner the jobs that earned it (antievasion.go).   *)
CountersBacked == BooksBalance /\ DemandEarned

(* A retention is settled once and at finality, whichever transfer is       *)
(* refused: until then an instance will decide it and nothing of it has     *)
(* left, the client is never paid more than its fee, a bond is returned or  *)
(* forfeited once (antievasion.go, msg_server_dispute.go).                  *)
RetentionSettledOnce ==
  RetentionHasInstance /\ PaidOnlyAtFinality /\ ClientNeverOverpaid /\ BondOnce

(* With more jobs due than a block serves, none loses its instance and the  *)
(* books balance (audit_sampling.go, auditMaxPerBlock).                     *)
FullBatchSound == RetentionHasInstance /\ BooksBalance

-----------------------------------------------------------------------------
(* What the documents say, where the code does something else.              *)

(* docs/litepaper.md: a slash needs invalid verdicts from two thirds of the *)
(* anchored seats and a strict majority of the voting stake, "in both code  *)
(* paths", and none is applied below that bar.                              *)
SlashNeedsTwoLocks ==
  [][\A j \in Jobs, m \in Miners :
       ~job[j].against /\ job[j]'.against /\ m = job[j].miner /\ miner[m]'.stake < miner[m].stake =>
         auditSlashDecision(params, Tally(j))]_vars

(* README.md: a seated jury and its verdict are required before the held    *)
(* fee of a selected job is paid (the authority's own ruling aside).        *)
SelectedPaidByJury ==
  [][\A j \in Jobs :
       job[j].drawn = "selected" /\ acct[j]'.toMiner > acct[j].toMiner
         /\ job[j]'.by # "authority" /\ job[j].by = "none" =>
         auditVindicateDecision(params, Tally(j))]_vars

(* releaseHeld: a burn that failed survives "and the next finality          *)
(* retries": a resolved job that still holds its burn has a retry ahead.    *)
DeferredBurnRetried ==
  \A j \in Jobs : jobIsResolved(job[j].st) /\ acct[j].burn > 0 => j \in pendingRelease

=============================================================================

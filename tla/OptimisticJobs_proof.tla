------------------------- MODULE OptimisticJobs_proof -------------------------
(***************************************************************************)
(* Type correctness and conservation of the fee, for any set of jobs and   *)
(* miners, any validated parameters, any refusal of a payment and any      *)
(* bounds.  The inductive invariant adds to the two properties that a job  *)
(* neither settled nor refunded still has its whole fee in escrow: without *)
(* it a settlement could start from an account that already paid.          *)
(***************************************************************************)
EXTENDS OptimisticJobs, JobEscrow_proof, Sums_proof

(* A job that was neither settled nor refunded holds its whole fee.         *)
Unsettled ==
  \A j \in Jobs : ~jobIsPaid(job[j].st) /\ ~jobEscrowReturned(job[j].st) =>
    acct[j].escrow = acct[j].fee

(* The block clock and what governance last decided.                        *)
BlockOK == /\ height \in Nat \ {0}
           /\ phase \in Phases \union {"tx"}
           /\ todo \subseteq Entry
           /\ seedOK \in BOOLEAN
           /\ params \in ParamSets

(* The accounts.                                                            *)
Ledger == acct \in [Jobs -> Account] /\ EscrowConserved /\ Unsettled

(* The inductive invariant.                                                 *)
IInv ==
  /\ BlockOK
  /\ Ledger
  /\ job \in [Jobs -> JobRecord]
  /\ seat \in [Jobs -> SeatRecord]
  /\ vote \in [Jobs -> VoteRecord]
  /\ miner \in [Miners -> MinerRecord]
  /\ q \in [Queues -> SUBSET (Nat \X Jobs)]
  /\ pendingRelease \subseteq Jobs
  /\ bank \in BankRecord
  /\ opened \in Nat

(* The invariant gives types and conservation.                              *)
LEMMA IInvImplies == IInv => TypeOK /\ EscrowConserved
BY DEF IInv, BlockOK, Ledger, TypeOK

(* A transaction leaves the block clock alone.                              *)
LEMMA InTxBlock ==
  ASSUME BlockOK, InTx, params' \in ParamSets
  PROVE  BlockOK'
BY DEF BlockOK, InTx, Entry

(* Serving an entry only shrinks the batch.                                 *)
LEMMA ServeBlock ==
  ASSUME BlockOK, NEW e, Serve(e)
  PROVE  BlockOK'
BY DEF BlockOK, Serve, Entry

(* Booking an onward move keeps treasury and team pool natural.             *)
LEMMA BookOK ==
  ASSUME NEW k \in BankRecord, NEW a \in Account, NEW b, Onward(a, b)
  PROVE  Book(k, a, b) \in BankRecord
<1>1. PICK t \in Nat : t = k.treasury + (b.toTreasury - a.toTreasury) + (b.bondForfeit - a.bondForfeit)
  BY DEF BankRecord, Account, Onward
<1>2. PICK m \in Nat : m = k.team + (b.toTeamPool - a.toTeamPool)
  BY DEF BankRecord, Account, Onward
<1>3. PICK l \in Int : l = k.bal - (Spent(b) - Spent(a))
  BY DEF BankRecord, Account, Onward, Spent
<1>4. Book(k, a, b) = [k EXCEPT !.bal = l, !.treasury = t, !.team = m]
  BY <1>1, <1>2, <1>3 DEF Book
<1> QED BY <1>4 DEF BankRecord

(* One account moves onward and no marker is dropped.                       *)
LEMMA LedgerOnward ==
  ASSUME Ledger, NEW j \in Jobs, NEW b, Onward(acct[j], b), acct' = [acct EXCEPT ![j] = b],
         \A k \in Jobs : job[k].st \subseteq job'[k].st
  PROVE  Ledger'
<1>1. acct' \in [Jobs -> Account]
  BY DEF Ledger, Onward
<1>2. EscrowConserved'
  BY DEF Ledger, Onward, EscrowConserved
<1>3. Unsettled'
  BY DEF Ledger, Onward, Unsettled, jobIsPaid, jobEscrowReturned
<1> QED BY <1>1, <1>2, <1>3 DEF Ledger

(* No account moves and no marker is dropped.                               *)
LEMMA LedgerSame ==
  ASSUME Ledger, acct' = acct, \A k \in Jobs : job[k].st \subseteq job'[k].st
  PROVE  Ledger'
BY DEF Ledger, EscrowConserved, Unsettled, jobIsPaid, jobEscrowReturned

(* Rebooking keeps the queues typed.                                        *)
LEMMA RebookOK ==
  ASSUME q \in [Queues -> SUBSET (Nat \X Jobs)], NEW e, NEW n, NEW again,
         again \subseteq Nat \X Jobs, Rebook(e, n, again)
  PROVE  q' \in [Queues -> SUBSET (Nat \X Jobs)]
BY DEF Rebook

-----------------------------------------------------------------------------
(* The current parameters passed Params.Validate.                           *)
LEMMA ParamsOK ==
  ASSUME params \in ParamSets
  PROVE  /\ ValidParams(params) /\ ValidRates(params)
         /\ params \in ParamsRecord
BY ParamsAssumption DEF ValidParams, ValidRates, ParamsRecord

(* OpenJob escrows the fee and books reveal and expiry.                     *)
LEMMA OpenJobOK ==
  ASSUME IInv, NEW j \in Jobs, NEW fee \in Fees, OpenJob(j, fee)
  PROVE  IInv'
<1> DEFINE pool == {m \in Miners : miner[m].reg /\ ~miner[m].fresh}
<1>1. fee \in Nat
  BY BoundsAssumption
<1>2. BlockOK'
  BY InTxBlock DEF IInv, OpenJob, BlockOK
<1>3. job' \in [Jobs -> JobRecord]
  <2>1. PICK r \in JobRecord : r = job[j]
    BY DEF IInv
  <2>2. pool \subseteq Miners /\ {"open"} \subseteq Markers
    BY DEF Markers
  <2>3. [r EXCEPT !.st = {"open"}, !.pool = pool] \in JobRecord
    <3> HIDE DEF pool
    <3> QED BY <2>2 DEF JobRecord
  <2>4. job' = [job EXCEPT ![j] = [r EXCEPT !.st = {"open"}, !.pool = pool]]
    BY <2>1 DEF OpenJob, IInv
  <2> HIDE DEF pool
  <2> QED BY <2>3, <2>4 DEF IInv
<1>4. Ledger'
  <2>1. acct' \in [Jobs -> Account]
    BY <1>1, OpenAccountOK DEF OpenJob, Ledger, IInv
  <2>2. EscrowConserved'
    BY <1>1, OpenAccountOK DEF OpenJob, Ledger, EscrowConserved, IInv
  <2>3. Unsettled'
    BY <1>1, OpenAccountOK DEF OpenJob, Ledger, Unsettled, JobRecord, IInv
  <2> QED BY <2>1, <2>2, <2>3 DEF Ledger
<1>5. bank' \in BankRecord
  BY <1>1 DEF OpenJob, BankRecord, IInv
<1>6. q' \in [Queues -> SUBSET (Nat \X Jobs)]
  <2>1. params.CommitteeRevealDelay \in Nat /\ params.JobExpiryBlocks \in Nat /\ height \in Nat
    BY ParamsOK DEF BlockOK, ParamsRecord, IInv
  <2> QED BY <2>1 DEF OpenJob, Queues, IInv
<1> QED
  BY <1>2, <1>3, <1>4, <1>5, <1>6 DEF OpenJob, IInv

(* CreateCommit only writes votes.                                          *)
LEMMA CommitOK ==
  ASSUME IInv, NEW j \in Jobs, NEW m \in Miners,
         \/ \E v \in {"vector", "garbage"} : CommitWork(j, m, v)
         \/ \E v \in {"valid", "invalid"}  : CommitVerdict(j, m, v)
         \/ \E v \in {"agree", "differ"}   : CommitRedo(j, m, v)
  PROVE  IInv'
<1>1. vote' \in [Jobs -> VoteRecord]
  <2>1. CASE \E v \in {"vector", "garbage"} : CommitWork(j, m, v)
    <3>1. PICK v \in {"vector", "garbage"} : vote' = [vote EXCEPT ![j].work[m] = v]
      BY <2>1 DEF CommitWork
    <3>2. PICK r \in VoteRecord : r = vote[j]
      BY DEF IInv
    <3>3. PICK w \in [Miners -> {"none"} \union {"vector", "garbage"}] : w = [r.work EXCEPT ![m] = v]
      BY DEF VoteRecord
    <3>4. vote' = [vote EXCEPT ![j] = [r EXCEPT !.work = w]]
      BY <3>1, <3>2, <3>3 DEF IInv
    <3>5. [r EXCEPT !.work = w] \in VoteRecord
      BY DEF VoteRecord
    <3> QED BY <3>4, <3>5 DEF IInv
  <2>2. CASE \E v \in {"valid", "invalid"} : CommitVerdict(j, m, v)
    <3>1. PICK v \in {"valid", "invalid"} : vote' = [vote EXCEPT ![j].verdict[m] = v]
      BY <2>2 DEF CommitVerdict
    <3>2. PICK r \in VoteRecord : r = vote[j]
      BY DEF IInv
    <3>3. PICK w \in [Miners -> {"none"} \union {"valid", "invalid"}] : w = [r.verdict EXCEPT ![m] = v]
      BY DEF VoteRecord
    <3>4. vote' = [vote EXCEPT ![j] = [r EXCEPT !.verdict = w]]
      BY <3>1, <3>2, <3>3 DEF IInv
    <3>5. [r EXCEPT !.verdict = w] \in VoteRecord
      BY DEF VoteRecord
    <3> QED BY <3>4, <3>5 DEF IInv
  <2>3. CASE \E v \in {"agree", "differ"} : CommitRedo(j, m, v)
    <3>1. PICK v \in {"agree", "differ"} : vote' = [vote EXCEPT ![j].redo[m] = v]
      BY <2>3 DEF CommitRedo
    <3>2. PICK r \in VoteRecord : r = vote[j]
      BY DEF IInv
    <3>3. PICK w \in [Miners -> {"none"} \union {"agree", "differ"}] : w = [r.redo EXCEPT ![m] = v]
      BY DEF VoteRecord
    <3>4. vote' = [vote EXCEPT ![j] = [r EXCEPT !.redo = w]]
      BY <3>1, <3>2, <3>3 DEF IInv
    <3>5. [r EXCEPT !.redo = w] \in VoteRecord
      BY DEF VoteRecord
    <3> QED BY <3>4, <3>5 DEF IInv
  <2> QED BY <2>1, <2>2, <2>3
<1>2. BlockOK'
  BY InTxBlock DEF IInv, CommitWork, CommitVerdict, CommitRedo, MayCommit, BlockOK
<1>3. Ledger'
  BY LedgerSame DEF IInv, CommitWork, CommitVerdict, CommitRedo
<1> QED
  BY <1>1, <1>2, <1>3 DEF IInv, CommitWork, CommitVerdict, CommitRedo

-----------------------------------------------------------------------------
(* A close appends markers and clears the seats.                            *)
LEMMA CloseOK ==
  ASSUME IInv, NEW j \in Jobs, NEW marks \in SUBSET Markers,
         NEW by \in {"authority", "verdict", "redo", "silent", "unfounded", "jury"},
         NEW against \in BOOLEAN, Close(j, marks, by, against)
  PROVE  /\ job' \in [Jobs -> JobRecord]
         /\ seat' \in [Jobs -> SeatRecord]
         /\ \A k \in Jobs : job[k].st \subseteq job'[k].st
<1>1. PICK r \in JobRecord : r = job[j]
  BY DEF IInv
<1>2. PICK s \in SUBSET Markers : s = r.st \union {"resolved"} \union marks
  BY DEF JobRecord, Markers
<1>3. [r EXCEPT !.st = s, !.by = by, !.against = against] \in JobRecord
  BY DEF JobRecord
<1>4. job' = [job EXCEPT ![j] = [r EXCEPT !.st = s, !.by = by, !.against = against]]
  BY <1>1, <1>2 DEF Close, IInv
<1>5. job' \in [Jobs -> JobRecord]
  BY <1>3, <1>4 DEF IInv
<1>6. seat' \in [Jobs -> SeatRecord]
  BY DEF Close, NoSeat, SeatRecord, IInv
<1>7. \A k \in Jobs : job[k].st \subseteq job'[k].st
  BY <1>1, <1>2, <1>4 DEF JobRecord, IInv
<1> QED BY <1>5, <1>6, <1>7

(* A release moves the account onward.                                      *)
LEMMA ReleasedOnward ==
  ASSUME IInv, NEW j \in Jobs, NEW no
  PROVE  Onward(acct[j], Released(j, no))
BY ReleaseOnward DEF IInv, Ledger, EscrowConserved, Released, Registered, MinerRecord

(* The whole release step: coins, retry mark and demand.                    *)
LEMMA ReleaseOK ==
  ASSUME IInv, NEW j \in Jobs, NEW b, Onward(acct[j], b), Release(j, b)
  PROVE  /\ acct' = [acct EXCEPT ![j] = b]
         /\ bank' \in BankRecord
         /\ pendingRelease' \subseteq Jobs
         /\ miner' \in [Miners -> MinerRecord]
<1>1. acct[j] \in Account
  BY DEF IInv, Ledger
<1>2. bank' \in BankRecord
  BY <1>1, BookOK DEF Release, IInv
<1>3. pendingRelease' \subseteq Jobs
  BY DEF Release, IInv
<1>4. miner' \in [Miners -> MinerRecord]
  <2>1. CASE ~Registered(job[j].miner)
    BY <2>1 DEF Release, IInv
  <2>2. CASE Registered(job[j].miner)
    <3>1. PICK m \in Miners : m = job[j].miner
      BY <2>2 DEF Registered
    <3>2. PICK r \in MinerRecord : r = miner[m]
      BY DEF IInv
    <3>3. PICK d \in Nat : d = r.demand + (b.credit - acct[j].credit)
      BY <1>1 DEF Onward, Account, MinerRecord
    <3>4. miner' = [miner EXCEPT ![m] = [r EXCEPT !.demand = d]]
      BY <2>2, <3>1, <3>2, <3>3 DEF Release, IInv
    <3>5. [r EXCEPT !.demand = d] \in MinerRecord
      BY DEF MinerRecord
    <3> QED BY <3>4, <3>5 DEF IInv
  <2> QED BY <2>1, <2>2
<1> QED BY <1>2, <1>3, <1>4 DEF Release

(* Taking a credit back never drives the demand below zero.                 *)
LEMMA DemandReversedOK ==
  ASSUME IInv, NEW j \in Jobs
  PROVE  DemandReversed(j) \in [Miners -> MinerRecord]
<1>1. CASE ~(Registered(job[j].miner) /\ acct[j].right = 0 /\ ~miner[job[j].miner].self)
  BY <1>1 DEF DemandReversed, IInv
<1>2. CASE Registered(job[j].miner) /\ acct[j].right = 0 /\ ~miner[job[j].miner].self
  <2> DEFINE cut == Cut(params, acct[j].fee)
  <2>1. PICK m \in Miners : m = job[j].miner
    BY <1>2 DEF Registered
  <2>2. PICK r \in MinerRecord : r = miner[m]
    BY DEF IInv
  <2>3. PICK x \in Int : x = cut - Bps(cut, params.ValidatorRewardBps)
    <3>1. PICK f \in Nat : f = acct[j].fee
      BY DEF IInv, Ledger, Account
    <3>2. PICK pf \in Nat : pf = params.ProtocolFeeBps
      BY ParamsOK DEF IInv, BlockOK, ParamsRecord
    <3>3. PICK vr \in Nat : vr = params.ValidatorRewardBps
      BY ParamsOK DEF IInv, BlockOK, ParamsRecord
    <3>4. PICK c \in Int : c = cut
      BY <3>1, <3>2 DEF Cut, Bps
    <3> HIDE DEF cut
    <3> QED BY <3>3, <3>4 DEF Bps
  <2>4. PICK d \in Nat : d = r.demand - MinOf(x, r.demand)
    BY DEF MinOf, MinerRecord
  <2>5. DemandReversed(j) = [miner EXCEPT ![m] = [r EXCEPT !.demand = d]]
    BY <1>2, <2>1, <2>2, <2>3, <2>4 DEF DemandReversed, IInv
  <2>6. [r EXCEPT !.demand = d] \in MinerRecord
    BY DEF MinerRecord
  <2> QED BY <2>5, <2>6 DEF IInv
<1> QED BY <1>1, <1>2

(* A slash never exceeds the stake it is taken from.                        *)
LEMMA SlashAmountOK ==
  ASSUME IInv, NEW j \in Jobs
  PROVE  /\ SlashAmount(j) \in Nat
         /\ Registered(job[j].miner) => SlashAmount(j) <= miner[job[j].miner].stake
<1>1. CASE ~Registered(job[j].miner)
  BY <1>1 DEF SlashAmount
<1>2. CASE Registered(job[j].miner)
  <2>1. PICK m \in Miners : m = job[j].miner
    BY <1>2 DEF Registered
  <2>2. PICK s \in Nat : s = miner[m].stake
    BY DEF IInv, MinerRecord
  <2>3. PICK b \in Nat : b = params.SlashLeakBps /\ b <= 10000
    BY ParamsOK DEF IInv, BlockOK, ParamsRecord, ValidParams
  <2>4. b <= 10000
    BY <2>3
  <2>5. Bps(s, b) \in Nat /\ Bps(s, b) <= s
    BY <2>4, BpsBound
  <2>6. SlashAmount(j) = Bps(s, b)
    BY <1>2, <2>1, <2>2, <2>3 DEF SlashAmount
  <2> QED BY <2>1, <2>2, <2>5, <2>6
<1> QED BY <1>1, <1>2

(* The slashed stake stays natural.                                         *)
LEMMA TakeStakeOK ==
  ASSUME IInv, NEW j \in Jobs
  PROVE  TakeStake(DemandReversed(j), j, SlashAmount(j)) \in [Miners -> MinerRecord]
<1>1. PICK f \in [Miners -> MinerRecord] : f = DemandReversed(j)
  BY DemandReversedOK
<1>2. CASE ~Registered(job[j].miner)
  BY <1>1, <1>2 DEF TakeStake
<1>3. CASE Registered(job[j].miner)
  <2>1. PICK m \in Miners : m = job[j].miner
    BY <1>3 DEF Registered
  <2>2. f[m].stake = miner[m].stake
    BY <1>1, <2>1 DEF DemandReversed, IInv, MinerRecord
  <2>3. PICK r \in MinerRecord : r = f[m]
    OBVIOUS
  <2>4. PICK a \in Nat : a = SlashAmount(j) /\ a <= r.stake
    BY <1>3, <2>1, <2>2, <2>3, SlashAmountOK
  <2>5. PICK x \in Nat : x = r.stake - a
    BY <2>4 DEF MinerRecord
  <2>6. TakeStake(DemandReversed(j), j, SlashAmount(j)) = [f EXCEPT ![m] = [r EXCEPT !.stake = x]]
    BY <1>1, <1>3, <2>1, <2>3, <2>4, <2>5 DEF TakeStake
  <2>7. [r EXCEPT !.stake = x] \in MinerRecord
    BY DEF MinerRecord
  <2> QED BY <2>6, <2>7
<1> QED BY <1>2, <1>3

(* Both slashing paths pay the client within the slash.                     *)
LEMMA CompensationOK ==
  ASSUME NEW a \in Account, FeeConserved(a), NEW amt \in Nat, NEW no,
         NEW owed \in Nat, NEW x \in Nat, x = a.comp + Sent(MinOf(owed, amt), "client", no)
  PROVE  /\ Onward(a, [refundRetained(a, no) EXCEPT !.comp = x])
         /\ amt - (x - a.comp) \in Nat
         /\ [refundRetained(a, no) EXCEPT !.comp = x].comp = x
<1>1. PICK r \in Account : r = refundRetained(a, no)
  BY RefundOnward DEF Onward
<1>2. Onward(a, r) /\ FeeConserved(r)
  BY <1>1, RefundOnward DEF Onward
<1>3. Onward(r, [r EXCEPT !.comp = x])
  BY <1>2, CompOnward
<1>4. Onward(a, [r EXCEPT !.comp = x])
  BY <1>2, <1>3, OnwardTransitive
<1>5. PICK c \in Nat : c = a.comp
  BY DEF Account
<1>6. PICK s \in Nat : s = Sent(MinOf(owed, amt), "client", no) /\ s <= amt
  BY DEF Sent, MinOf
<1>7. amt - (x - a.comp) \in Nat
  BY <1>5, <1>6
<1>8. [r EXCEPT !.comp = x].comp = x
  BY DEF Account
<1> QED BY <1>1, <1>4, <1>7, <1>8

(* slashCheatedPrimary: the compensation fits in the slash.                 *)
LEMMA SlashedOK ==
  ASSUME NEW a \in Account, FeeConserved(a), NEW amt \in Nat, NEW no
  PROVE  /\ Onward(a, SlashedAccount(a, amt, no))
         /\ amt - (SlashedAccount(a, amt, no).comp - a.comp) \in Nat
<1>1. PICK r \in Account : r = refundRetained(a, no)
  BY RefundOnward DEF Onward
<1>2. PICK owed \in Nat : owed = a.fee - (r.toClient - a.toClient)
  BY <1>1, RefundWithinFee DEF Account
<1>3. r.comp = a.comp
  BY <1>1 DEF refundRetained, Account
<1>4. PICK x \in Nat : x = a.comp + Sent(MinOf(owed, amt), "client", no)
  BY DEF Account, Sent, MinOf
<1>5. SlashedAccount(a, amt, no) = [refundRetained(a, no) EXCEPT !.comp = x]
  BY <1>1, <1>2, <1>3, <1>4, Zenon DEF SlashedAccount
<1>6. /\ Onward(a, [refundRetained(a, no) EXCEPT !.comp = x])
      /\ amt - (x - a.comp) \in Nat
      /\ [refundRetained(a, no) EXCEPT !.comp = x].comp = x
  BY <1>4, CompensationOK
<1> QED BY <1>5, <1>6, Zenon

(* AdjudicateDispute: the compensation fits in the slash.                   *)
LEMMA AdjudicatedOK ==
  ASSUME NEW a \in Account, FeeConserved(a), NEW amt \in Nat, NEW no
  PROVE  /\ Onward(a, AdjudicatedAccount(a, amt, no))
         /\ amt - (AdjudicatedAccount(a, amt, no).comp - a.comp) \in Nat
<1>1. PICK owed \in Nat : owed = a.fee - retainedTotal(a)
  BY RefundWithinFee, RetainedTotalNat DEF Account
<1>2. PICK x \in Nat : x = a.comp + Sent(MinOf(owed, amt), "client", no)
  BY DEF Account, Sent, MinOf
<1>3. AdjudicatedAccount(a, amt, no) = [refundRetained(a, no) EXCEPT !.comp = x]
  BY <1>1, <1>2, Zenon DEF AdjudicatedAccount
<1>4. /\ Onward(a, [refundRetained(a, no) EXCEPT !.comp = x])
      /\ amt - (x - a.comp) \in Nat
      /\ [refundRetained(a, no) EXCEPT !.comp = x].comp = x
  BY <1>2, CompensationOK
<1> QED BY <1>3, <1>4, Zenon

-----------------------------------------------------------------------------
(* Transactions.                                                            *)
LEMMA SettleOK ==
  ASSUME IInv, NEW j \in Jobs, NEW no, settleOptimistic(j, no)
  PROVE  IInv'
<1> DEFINE own == miner[job[j].prim].self
<1>1. PICK m \in Miners : m = job[j].prim
  BY DEF settleOptimistic, Registered
<1>2. PICK a \in Account : a = acct[j] /\ FeeConserved(a) /\ a.escrow = a.fee
  BY DEF IInv, Ledger, EscrowConserved, Unsettled, settleOptimistic
<1>3. own \in BOOLEAN
  BY <1>1 DEF IInv, MinerRecord
<1>4. PICK b : b = SettleAccount(a, params, no, own, height)
  OBVIOUS
<1>5. /\ b \in Account /\ FeeConserved(b)
      /\ b.toTreasury = a.toTreasury /\ b.bondForfeit = a.bondForfeit
      /\ b.toTeamPool = a.toTeamPool
  <2>1. ValidRates(params) /\ height \in Nat
    BY ParamsOK DEF IInv, BlockOK
  <2>2. BurnShare(params, a.fee) + Cut(params, a.fee) <= a.fee
    BY <1>2 DEF settleOptimistic
  <2> QED BY <1>2, <1>3, <1>4, <2>1, <2>2, SettleAccountOK
<1>6. acct' = [acct EXCEPT ![j] = b] /\ bank' = Book(bank, a, b)
  BY <1>2, <1>4, Zenon DEF settleOptimistic
<1>7. bank' \in BankRecord
  <2>1. PICK l \in Int : l = bank.bal - (Spent(b) - Spent(a))
    BY <1>5 DEF IInv, BankRecord, Account, Spent
  <2>2. PICK t \in Nat : t = bank.treasury + (b.toTreasury - a.toTreasury)
                                          + (b.bondForfeit - a.bondForfeit)
    BY <1>5 DEF IInv, BankRecord, Account
  <2>3. PICK n \in Nat : n = bank.team + (b.toTeamPool - a.toTeamPool)
    BY <1>5 DEF IInv, BankRecord, Account
  <2>4. bank' = [bank EXCEPT !.bal = l, !.treasury = t, !.team = n]
    BY <1>6, <2>1, <2>2, <2>3 DEF Book
  <2> QED BY <2>4 DEF IInv, BankRecord
<1>8. job' \in [Jobs -> JobRecord] /\ jobIsPaid(job'[j].st)
        /\ \A k \in Jobs : job[k].st \subseteq job'[k].st
  <2>1. PICK r \in JobRecord : r = job[j]
    BY DEF IInv
  <2>2. PICK st \in SUBSET Markers : st = r.st \union {"paid", "optimistic"}
    BY DEF JobRecord, Markers
  <2>3. [r EXCEPT !.miner = m, !.st = st] \in JobRecord
    BY DEF JobRecord
  <2>4. job' = [job EXCEPT ![j] = [r EXCEPT !.miner = m, !.st = st]]
    BY <1>1, <2>1, <2>2 DEF settleOptimistic, IInv
  <2>5. job' \in [Jobs -> JobRecord]
    BY <2>3, <2>4 DEF IInv
  <2>6. job'[j].st = st
    BY <2>1, <2>4 DEF IInv, JobRecord
  <2>7. \A k \in Jobs : job[k].st \subseteq job'[k].st
    BY <2>1, <2>2, <2>4, <2>6 DEF IInv
  <2> QED BY <2>2, <2>5, <2>6, <2>7 DEF jobIsPaid
<1>9. Ledger'
  <2>1. acct' \in [Jobs -> Account]
    BY <1>5, <1>6 DEF IInv, Ledger
  <2>2. EscrowConserved'
    BY <1>5, <1>6 DEF IInv, Ledger, EscrowConserved
  <2>3. Unsettled'
    BY <1>6, <1>8 DEF IInv, Ledger, Unsettled, jobIsPaid, jobEscrowReturned
  <2> QED BY <2>1, <2>2, <2>3 DEF Ledger
<1>10. miner' \in [Miners -> MinerRecord]
  <2>1. PICK r \in MinerRecord : r = miner[m]
    BY DEF IInv
  <2>2. PICK c \in Nat : c = r.count + 1
    BY DEF MinerRecord
  <2>3. miner' = [miner EXCEPT ![m] = [r EXCEPT !.count = c]]
    BY <1>1, <2>1, <2>2 DEF settleOptimistic, IInv
  <2>4. [r EXCEPT !.count = c] \in MinerRecord
    BY DEF MinerRecord
  <2> QED BY <2>3, <2>4 DEF IInv
<1>11. q' \in [Queues -> SUBSET (Nat \X Jobs)]
  BY DEF settleOptimistic, Queues, IInv, BlockOK
<1>12. BlockOK'
  BY InTxBlock DEF settleOptimistic, IInv, BlockOK
<1> QED
  BY <1>7, <1>8, <1>9, <1>10, <1>11, <1>12 DEF settleOptimistic, IInv

(* DisputeVerdict escrows the bond and books the deadline.                  *)
LEMMA DisputeOK ==
  ASSUME IInv, NEW j \in Jobs, NEW redo \in SUBSET Miners, DisputeVerdict(j, redo)
  PROVE  IInv'
<1>1. PICK d \in Nat : d = params.DisputeBond
  BY ParamsOK DEF IInv, BlockOK, ParamsRecord
<1>2. BlockOK'
  BY InTxBlock DEF DisputeVerdict, IInv, BlockOK
<1>3. job' \in [Jobs -> JobRecord] /\ \A k \in Jobs : job[k].st \subseteq job'[k].st
  <2>1. PICK r \in JobRecord : r = job[j]
    BY DEF IInv
  <2>2. PICK st \in SUBSET Markers : st = r.st \union {"disputed"}
    BY DEF JobRecord, Markers
  <2>3. PICK h \in Nat : h = height
    BY DEF IInv, BlockOK
  <2>4. job' = [job EXCEPT ![j] = [r EXCEPT !.st = st, !.dheight = h]]
    BY <2>1, <2>2, <2>3 DEF DisputeVerdict, IInv
  <2>5. [r EXCEPT !.st = st, !.dheight = h] \in JobRecord
    BY DEF JobRecord
  <2>6. job' \in [Jobs -> JobRecord]
    BY <2>4, <2>5 DEF IInv
  <2>7. \A k \in Jobs : job[k].st \subseteq job'[k].st
    BY <2>1, <2>2, <2>4 DEF IInv, JobRecord
  <2> QED BY <2>6, <2>7
<1>4. Ledger'
  <2>1. PICK a \in Account : a = acct[j] /\ FeeConserved(a)
    BY DEF IInv, Ledger, EscrowConserved
  <2> DEFINE b == [a EXCEPT !.bond = d, !.bondIn = d]
  <2>2. acct' = [acct EXCEPT ![j] = b]
    BY <1>1, <2>1 DEF DisputeVerdict, IInv, Ledger
  <2>3. b \in Account
    BY DEF Account
  <2>4. FeeConserved(b) /\ b.fee = a.fee /\ b.escrow = a.escrow
    BY <2>1 DEF Account, FeeConserved, retainedTotal, FeeOut
  <2> HIDE DEF b
  <2>5. acct' \in [Jobs -> Account]
    BY <2>2, <2>3 DEF IInv, Ledger
  <2>6. EscrowConserved'
    BY <2>2, <2>4 DEF IInv, Ledger, EscrowConserved
  <2>7. Unsettled'
    BY <1>3, <2>1, <2>2, <2>4 DEF IInv, Ledger, Unsettled, jobIsPaid, jobEscrowReturned
  <2> QED BY <2>5, <2>6, <2>7 DEF Ledger
<1>5. bank' \in BankRecord
  BY <1>1 DEF DisputeVerdict, IInv, BankRecord
<1>6. seat' \in [Jobs -> SeatRecord]
  <2>1. PICK r \in SeatRecord : r = seat[j]
    BY DEF IInv
  <2>2. seat' = [seat EXCEPT ![j] = [r EXCEPT !.human = TRUE, !.redo = redo]]
    BY <2>1 DEF DisputeVerdict, IInv
  <2>3. [r EXCEPT !.human = TRUE, !.redo = redo] \in SeatRecord
    BY DEF SeatRecord
  <2> QED BY <2>2, <2>3 DEF IInv
<1>7. q' \in [Queues -> SUBSET (Nat \X Jobs)]
  <2>1. PICK n \in Nat : n = height + params.AuditResolveTimeout
    BY ParamsOK DEF IInv, BlockOK, ParamsRecord
  <2> QED BY <2>1 DEF DisputeVerdict, Queues, IInv
<1>8. opened' \in Nat
  BY DEF DisputeVerdict, IInv
<1> QED
  BY <1>2, <1>3, <1>4, <1>5, <1>6, <1>7, <1>8 DEF DisputeVerdict, IInv

(* Every account is typed and conserved.                                    *)
LEMMA AccountOf ==
  ASSUME IInv, NEW j \in Jobs
  PROVE  acct[j] \in Account /\ FeeConserved(acct[j])
BY DEF IInv, Ledger, EscrowConserved

(* A job closed by a release: every instance that decides for the miner.    *)
LEMMA ReleasedAndClosed ==
  ASSUME IInv, NEW j \in Jobs, NEW b, Onward(acct[j], b), Release(j, b),
         NEW marks \in SUBSET Markers,
         NEW by \in {"authority", "verdict", "redo", "silent", "unfounded", "jury"},
         Close(j, marks, by, FALSE)
  PROVE  /\ Ledger'
         /\ job' \in [Jobs -> JobRecord]
         /\ seat' \in [Jobs -> SeatRecord]
         /\ bank' \in BankRecord
         /\ pendingRelease' \subseteq Jobs
         /\ miner' \in [Miners -> MinerRecord]
<1>1. /\ job' \in [Jobs -> JobRecord] /\ seat' \in [Jobs -> SeatRecord]
      /\ \A k \in Jobs : job[k].st \subseteq job'[k].st
  BY CloseOK
<1>2. /\ acct' = [acct EXCEPT ![j] = b] /\ bank' \in BankRecord
      /\ pendingRelease' \subseteq Jobs /\ miner' \in [Miners -> MinerRecord]
  BY ReleaseOK
<1>3. Ledger'
  BY <1>1, <1>2, LedgerOnward DEF IInv
<1> QED BY <1>1, <1>2, <1>3

(* The authority rejects a dispute.                                         *)
LEMMA ResolveRejectedOK ==
  ASSUME IInv, NEW j \in Jobs, NEW no, ResolveRejected(j, no)
  PROVE  IInv'
<1>1. PICK b : b = Released(j, no)
  OBVIOUS
<1>2. Onward(acct[j], b)
  BY <1>1, ReleasedOnward
<1> DEFINE c == [b EXCEPT !.bondForfeit = b.bondForfeit + b.bond]
<1>3. Onward(acct[j], c)
  <2>1. b \in Account /\ FeeConserved(b)
    BY <1>2 DEF Onward
  <2>2. Onward(b, c)
    BY <2>1, BondMovesOnward
  <2> HIDE DEF c
  <2> QED BY <1>2, <2>2, AccountOf, OnwardTransitive
<1>4. Release(j, c) /\ Close(j, {}, "authority", FALSE)
  BY <1>1 DEF ResolveRejected
<1>5. /\ Ledger' /\ job' \in [Jobs -> JobRecord] /\ seat' \in [Jobs -> SeatRecord]
      /\ bank' \in BankRecord /\ pendingRelease' \subseteq Jobs
      /\ miner' \in [Miners -> MinerRecord]
  <2> HIDE DEF c
  <2>1. {} \in SUBSET Markers
    OBVIOUS
  <2> QED BY <1>3, <1>4, <2>1, ReleasedAndClosed
<1>6. BlockOK'
  BY InTxBlock DEF ResolveRejected, IInv, BlockOK
<1> QED BY <1>5, <1>6 DEF ResolveRejected, IInv

(* A release that forfeits the bond is onward.                              *)
LEMMA ForfeitOnward ==
  ASSUME IInv, NEW j \in Jobs, NEW no
  PROVE  Onward(acct[j], forfeitBond(Released(j, no)))
<1>1. PICK b : b = Released(j, no)
  OBVIOUS
<1>2. Onward(acct[j], b) /\ b \in Account /\ FeeConserved(b)
  BY <1>1, ReleasedOnward DEF Onward
<1>3. Onward(b, forfeitBond(b))
  BY <1>2, BondMovesOnward
<1> QED BY <1>1, <1>2, <1>3, AccountOf, OnwardTransitive

(* Returning the bond after an onward move is onward.                       *)
LEMMA ReturnOnward ==
  ASSUME IInv, NEW j \in Jobs, NEW no, NEW b, Onward(acct[j], b)
  PROVE  Onward(acct[j], refundDisputeBond(b, no))
<1>1. b \in Account /\ FeeConserved(b)
  BY DEF Onward
<1>2. Onward(b, refundDisputeBond(b, no))
  BY <1>1, BondMovesOnward
<1> QED BY <1>2, AccountOf, OnwardTransitive

(* An adjudication that acquits.                                            *)
LEMMA AdjudicateHonestOK ==
  ASSUME IInv, NEW j \in Jobs, NEW no, AdjudicateHonest(j, no)
  PROVE  IInv'
<1>1. PICK b : b = forfeitBond(Released(j, no))
  OBVIOUS
<1>2. Onward(acct[j], b)
  BY <1>1, ForfeitOnward
<1>3. PICK by \in {"verdict", "redo"} : Release(j, b) /\ Close(j, {"adjudicated"}, by, FALSE)
  BY <1>1 DEF AdjudicateHonest
<1>4. /\ Ledger' /\ job' \in [Jobs -> JobRecord] /\ seat' \in [Jobs -> SeatRecord]
      /\ bank' \in BankRecord /\ pendingRelease' \subseteq Jobs
      /\ miner' \in [Miners -> MinerRecord]
  <2>1. {"adjudicated"} \in SUBSET Markers
    BY DEF Markers
  <2> QED BY <1>2, <1>3, <2>1, ReleasedAndClosed
<1>5. BlockOK'
  BY InTxBlock DEF AdjudicateHonest, IInv, BlockOK
<1> QED BY <1>4, <1>5 DEF AdjudicateHonest, IInv

(* The authority upholds a dispute; the reward fits in the Treasury.        *)
LEMMA ResolveUpheldOK ==
  ASSUME IInv, NEW j \in Jobs, NEW no, ResolveUpheld(j, no)
  PROVE  IInv'
<1>1. PICK r : r = refundRetained(acct[j], no)
  OBVIOUS
<1>2. Onward(acct[j], r) /\ r \in Account /\ FeeConserved(r)
  BY <1>1, AccountOf, RefundOnward DEF Onward
<1>3. PICK b : b = [r EXCEPT !.bondBack = r.bondBack + r.bond]
  OBVIOUS
<1>4. Onward(acct[j], b)
  <2>1. Onward(r, b)
    BY <1>2, <1>3, BondMovesOnward
  <2> QED BY <1>2, <2>1, AccountOf, OnwardTransitive
<1>5. /\ acct' = [acct EXCEPT ![j] = b] /\ bank' = Book(PayDisputer(bank, j), acct[j], b)
      /\ miner' = DemandReversed(j) /\ Close(j, {}, "authority", TRUE)
  BY <1>1, <1>3 DEF ResolveUpheld
<1>6. PayDisputer(bank, j) \in BankRecord
  <2>1. PICK d \in Nat : d = acct[j].bond
    BY AccountOf DEF Account
  <2>2. PICK t \in Nat : t = bank.treasury
    BY DEF IInv, BankRecord
  <2>3. PICK w \in Nat : w = MinOf(d, t) /\ w <= t
    BY DEF MinOf
  <2>4. PICK u \in Nat : u = t - w
    BY <2>3
  <2>5. PICK l \in Int : l = bank.bal - w
    BY DEF IInv, BankRecord
  <2>6. PayDisputer(bank, j) = [bank EXCEPT !.bal = l, !.treasury = u]
    BY <2>1, <2>2, <2>3, <2>4, <2>5 DEF PayDisputer, Reward
  <2> QED BY <2>6 DEF IInv, BankRecord
<1>7. bank' \in BankRecord
  BY <1>4, <1>5, <1>6, AccountOf, BookOK
<1>8. miner' \in [Miners -> MinerRecord]
  BY <1>5, DemandReversedOK
<1>9. /\ job' \in [Jobs -> JobRecord] /\ seat' \in [Jobs -> SeatRecord]
      /\ \A k \in Jobs : job[k].st \subseteq job'[k].st
  <2>1. {} \in SUBSET Markers
    OBVIOUS
  <2> QED BY <1>5, <2>1, CloseOK
<1>10. Ledger'
  BY <1>4, <1>5, <1>9, LedgerOnward DEF IInv
<1>11. BlockOK'
  BY InTxBlock DEF ResolveUpheld, IInv, BlockOK
<1> QED BY <1>7, <1>8, <1>9, <1>10, <1>11 DEF ResolveUpheld, IInv

(* An adjudication that convicts; slash, then reward.                       *)
LEMMA AdjudicateCheatedOK ==
  ASSUME IInv, NEW j \in Jobs, NEW no, AdjudicateCheated(j, no)
  PROVE  IInv'
<1>1. PICK amt \in Nat : amt = SlashAmount(j)
  BY SlashAmountOK
<1>2. PICK c : c = AdjudicatedAccount(acct[j], amt, no)
  OBVIOUS
<1>3. Onward(acct[j], c) /\ amt - (c.comp - acct[j].comp) \in Nat
  BY <1>2, AccountOf, AdjudicatedOK
<1>4. PICK b : b = [c EXCEPT !.bondBack = c.bondBack + c.bond, !.bond = 0]
  OBVIOUS
<1>5. Onward(acct[j], b)
  <2>1. c \in Account /\ FeeConserved(c)
    BY <1>3 DEF Onward
  <2>2. Onward(c, b)
    BY <1>4, <2>1, BondMovesOnward
  <2> QED BY <1>3, <2>2, AccountOf, OnwardTransitive
<1>6. PICK k \in Nat : k = bank.treasury + (amt - (c.comp - acct[j].comp))
  BY <1>3 DEF IInv, BankRecord
<1>7. PICK rew \in Nat : rew = MinOf(acct[j].bond, k) /\ rew <= k
  BY AccountOf DEF MinOf, Account
<1>8. PICK u \in BankRecord : u = [bank EXCEPT !.bal = bank.bal - rew, !.treasury = k - rew]
  <2>1. PICK l \in Int : l = bank.bal - rew
    BY DEF IInv, BankRecord
  <2>2. PICK t \in Nat : t = k - rew
    BY <1>7
  <2>3. [bank EXCEPT !.bal = l, !.treasury = t] \in BankRecord
    BY DEF IInv, BankRecord
  <2> QED BY <2>1, <2>2, <2>3
<1>9. PICK by \in {"verdict", "redo"} :
        /\ acct' = [acct EXCEPT ![j] = b] /\ bank' = Book(u, acct[j], b)
        /\ miner' = TakeStake(DemandReversed(j), j, amt)
        /\ Close(j, {"adjudicated"}, by, TRUE)
  BY <1>1, <1>2, <1>4, <1>6, <1>7, <1>8 DEF AdjudicateCheated
<1>10. bank' \in BankRecord
  BY <1>5, <1>9, AccountOf, BookOK
<1>11. miner' \in [Miners -> MinerRecord]
  BY <1>1, <1>9, TakeStakeOK
<1>12. /\ job' \in [Jobs -> JobRecord] /\ seat' \in [Jobs -> SeatRecord]
       /\ \A k2 \in Jobs : job[k2].st \subseteq job'[k2].st
  <2>1. {"adjudicated"} \in SUBSET Markers
    BY DEF Markers
  <2> QED BY <1>9, <2>1, CloseOK
<1>13. Ledger'
  BY <1>5, <1>9, <1>12, LedgerOnward DEF IInv
<1>14. BlockOK'
  BY InTxBlock DEF AdjudicateCheated, IInv, BlockOK
<1> QED BY <1>10, <1>11, <1>12, <1>13, <1>14 DEF AdjudicateCheated, IInv

(* The registry.                                                            *)
LEMMA LeaveOK ==
  ASSUME IInv, NEW m \in Miners, Leave(m)
  PROVE  /\ miner' \in [Miners -> MinerRecord]
         /\ bank' \in BankRecord
         /\ job' \in [Jobs -> JobRecord]
         /\ \A k \in Jobs : job[k].st \subseteq job'[k].st
<1>1. miner' \in [Miners -> MinerRecord]
  <2>1. PICK r \in MinerRecord : r = miner[m]
    BY DEF IInv
  <2>2. [r EXCEPT !.reg = FALSE, !.fresh = FALSE, !.stake = 0, !.demand = 0] \in MinerRecord
    BY DEF MinerRecord
  <2>3. miner' = [miner EXCEPT ![m] = [r EXCEPT !.reg = FALSE, !.fresh = FALSE, !.stake = 0,
                                                !.demand = 0]]
    BY <2>1 DEF Leave, IInv
  <2> QED BY <2>2, <2>3 DEF IInv
<1>2. bank' \in BankRecord
  BY DEF Leave, IInv, BankRecord, MinerRecord
<1>3. \A k \in Jobs : [job[k] EXCEPT !.pool = job[k].pool \ {m}] \in JobRecord
  <2>1. TAKE k \in Jobs
  <2>2. PICK r \in JobRecord : r = job[k]
    BY DEF IInv
  <2>3. PICK s \in SUBSET Miners : s = r.pool \ {m}
    BY DEF JobRecord
  <2>4. [r EXCEPT !.pool = s] \in JobRecord
    BY DEF JobRecord
  <2> QED BY <2>2, <2>3, <2>4
<1>4. job' \in [Jobs -> JobRecord]
  BY <1>3 DEF Leave
<1>5. \A k \in Jobs : job[k].st \subseteq job'[k].st
  BY DEF Leave, IInv, JobRecord
<1> QED BY <1>1, <1>2, <1>4, <1>5

(* CreateMiner, UpdateMiner and DeleteMiner.                                *)
LEMMA RegistryOK ==
  ASSUME IInv, NEW m \in Miners, NEW x \in BOOLEAN,
         \/ UpdateMiner(m, x)
         \/ \E s \in Stakes : CreateMiner(m, s, x)
         \/ DeleteMiner(m, x)
  PROVE  IInv'
<1>1. CASE UpdateMiner(m, x)
  <2>1. PICK r \in MinerRecord : r = miner[m]
    BY DEF IInv
  <2>2. [r EXCEPT !.demand = 0, !.self = x] \in MinerRecord
    BY DEF MinerRecord
  <2>3. miner' = [miner EXCEPT ![m] = [r EXCEPT !.demand = 0, !.self = x]]
    BY <1>1, <2>1 DEF UpdateMiner, IInv
  <2>4. miner' \in [Miners -> MinerRecord]
    BY <2>2, <2>3 DEF IInv
  <2>5. BlockOK'
    BY <1>1, InTxBlock DEF UpdateMiner, IInv, BlockOK
  <2>6. Ledger'
    BY <1>1, LedgerSame DEF UpdateMiner, IInv
  <2> QED BY <1>1, <2>4, <2>5, <2>6 DEF UpdateMiner, IInv
<1>2. CASE \E s \in Stakes : CreateMiner(m, s, x)
  <2>1. PICK s \in Stakes : CreateMiner(m, s, x)
    BY <1>2
  <2>2. s \in Nat
    BY BoundsAssumption
  <2>3. miner' \in [Miners -> MinerRecord]
    BY <2>1, <2>2 DEF CreateMiner, IInv, MinerRecord
  <2>4. bank' \in BankRecord
    BY <2>1, <2>2 DEF CreateMiner, IInv, BankRecord
  <2>5. BlockOK'
    BY <2>1, InTxBlock DEF CreateMiner, IInv, BlockOK
  <2>6. Ledger'
    BY <2>1, LedgerSame DEF CreateMiner, IInv
  <2> QED BY <2>1, <2>3, <2>4, <2>5, <2>6 DEF CreateMiner, IInv
<1>3. CASE DeleteMiner(m, x)
  <2>1. /\ miner' \in [Miners -> MinerRecord] /\ bank' \in BankRecord
        /\ job' \in [Jobs -> JobRecord] /\ \A k \in Jobs : job[k].st \subseteq job'[k].st
    BY <1>3, LeaveOK DEF DeleteMiner
  <2>2. BlockOK'
    BY <1>3, InTxBlock DEF DeleteMiner, IInv, BlockOK
  <2>3. Ledger'
    BY <1>3, <2>1, LedgerSame DEF DeleteMiner, IInv
  <2> QED BY <1>3, <2>1, <2>2, <2>3 DEF DeleteMiner, IInv
<1> QED BY <1>1, <1>2, <1>3

(* Governance replaces the parameters.                                      *)
LEMMA UpdateParamsOK ==
  ASSUME IInv, NEW p \in ParamSets, UpdateParams(p)
  PROVE  IInv'
<1>1. BlockOK'
  BY InTxBlock DEF UpdateParams, IInv
<1>2. Ledger'
  BY LedgerSame DEF UpdateParams, IInv
<1> QED BY <1>1, <1>2 DEF UpdateParams, IInv

(* Every transaction keeps the invariant.                                   *)
LEMMA TxOK == ASSUME IInv, Tx PROVE IInv'
<1>1. CASE \E j \in Jobs, fee \in Fees : OpenJob(j, fee)
  BY <1>1, OpenJobOK
<1>2. CASE \E j \in Jobs, m \in Miners :
             \/ \E v \in {"vector", "garbage"} : CommitWork(j, m, v)
             \/ \E v \in {"valid", "invalid"}  : CommitVerdict(j, m, v)
             \/ \E v \in {"agree", "differ"}   : CommitRedo(j, m, v)
  BY <1>2, CommitOK
<1>3. CASE \E j \in Jobs, redo \in SUBSET Miners : DisputeVerdict(j, redo)
  BY <1>3, DisputeOK
<1>4. CASE \E j \in Jobs, no \in SUBSET Refusable :
             \/ ResolveRejected(j, no)
             \/ ResolveUpheld(j, no)
             \/ AdjudicateHonest(j, no)
             \/ AdjudicateCheated(j, no)
             \/ settleOptimistic(j, no)
  BY <1>4, ResolveRejectedOK, ResolveUpheldOK, AdjudicateHonestOK, AdjudicateCheatedOK, SettleOK
<1>5. CASE \E m \in Leavers, self \in BOOLEAN :
             \/ UpdateMiner(m, self)
             \/ \E s \in Stakes : CreateMiner(m, s, self)
  BY <1>5, BoundsAssumption, RegistryOK
<1>6. CASE \E m \in Leavers, live \in BOOLEAN : DeleteMiner(m, live)
  BY <1>6, BoundsAssumption, RegistryOK
<1>7. CASE \E p \in ParamSets : UpdateParams(p)
  BY <1>7, UpdateParamsOK
<1> QED BY <1>1, <1>2, <1>3, <1>4, <1>5, <1>6, <1>7 DEF Tx

-----------------------------------------------------------------------------
(* The EndBlocker.                                                          *)
LEMMA EntryOK ==
  ASSUME IInv, NEW e \in todo
  PROVE  IF phase = "prune" THEN e[2] \in Miners ELSE e[2] \in Jobs
BY DEF IInv, BlockOK, Entry

(* A batch holds entries of its phase.                                      *)
LEMMA BatchOK ==
  ASSUME IInv, NEW n \in Phases, NEW B \in Batches(n)
  PROVE  IF n = "prune" THEN B \subseteq Nat \X Miners ELSE B \subseteq Nat \X Jobs
<1>1. CASE n \in Queues
  <2>0. n # "prune" /\ n # "release"
    BY <1>1 DEF Queues
  <2>1. Due(n) \subseteq Nat \X Jobs
    <3>1. Due(n) = {e \in q[n] : e[1] <= height}
      BY <1>1, <2>0, Zenon DEF Due
    <3> QED BY <1>1, <3>1 DEF IInv
  <2>2. B \subseteq Due(n)
    <3>1. Batches(n) \subseteq SUBSET Due(n)
      <4>1. Batches(n) = {S \in SUBSET Due(n) :
                            /\ Cardinality(S) = MinOf(auditMaxPerBlock, Cardinality(Due(n)))
                            /\ \A e \in S, f \in Due(n) \ S : e[1] <= f[1]}
        BY <1>1, <2>0, Zenon DEF Batches
      <4> QED BY <4>1, Zenon
    <3> QED BY <3>1
  <2> QED BY <2>0, <2>1, <2>2
<1>2. CASE n = "prune"
  <2>1. Due("prune") \subseteq Nat \X Miners
    BY BoundsAssumption DEF Due, Queues
  <2>2. B \subseteq Due("prune")
    BY <1>2 DEF Batches, Queues, Doomed
  <2> QED BY <1>2, <2>1, <2>2
<1>3. CASE n = "release"
  <2>1. Due("release") \subseteq Nat \X Jobs
    BY DEF Due, Queues, IInv
  <2>2. B \subseteq Due("release")
    BY <1>3 DEF Batches, Queues
  <2> QED BY <1>3, <2>1, <2>2
<1> QED BY <1>1, <1>2, <1>3 DEF Phases

(* The EndBlocker enters a phase.                                           *)
LEMMA EndPhaseOK ==
  ASSUME IInv, NEW n \in Phases, EndPhase(n)
  PROVE  IInv'
<1>1. todo' \subseteq Entry'
  BY BatchOK DEF EndPhase, Entry
<1>2. BlockOK'
  BY <1>1 DEF EndPhase, IInv, BlockOK
<1>3. Ledger'
  BY LedgerSame DEF EndPhase, IInv
<1> QED BY <1>2, <1>3 DEF EndPhase, IInv

(* The next block begins.                                                   *)
LEMMA NextBlockOK ==
  ASSUME IInv, NextBlock
  PROVE  IInv'
<1>1. BlockOK'
  BY BoundsAssumption DEF NextBlock, IInv, BlockOK, Entry
<1>2. miner' \in [Miners -> MinerRecord]
  BY DEF NextBlock, IInv, MinerRecord
<1>3. Ledger'
  BY LedgerSame DEF NextBlock, IInv
<1> QED BY <1>1, <1>2, <1>3 DEF NextBlock, IInv

(* unwindStrandedRetention on one job.                                      *)
LEMMA UnwindOK ==
  ASSUME IInv, NEW j \in Jobs, NEW no, NEW drawn \in {"none", "selected", "passed"},
         Unwind(j, no, drawn)
  PROVE  /\ Ledger'
         /\ job' \in [Jobs -> JobRecord]
         /\ seat' \in [Jobs -> SeatRecord]
         /\ bank' \in BankRecord
         /\ miner' \in [Miners -> MinerRecord]
<1>1. PICK b : b = refundDisputeBond(refundRetained(acct[j], no), no)
  OBVIOUS
<1>2. Onward(acct[j], b)
  BY <1>1, AccountOf, RefundOnward, ReturnOnward
<1>3. /\ acct' = [acct EXCEPT ![j] = b] /\ bank' = Book(bank, acct[j], b)
      /\ miner' = DemandReversed(j)
  BY <1>1 DEF Unwind
<1>4. bank' \in BankRecord /\ miner' \in [Miners -> MinerRecord]
  BY <1>2, <1>3, AccountOf, BookOK, DemandReversedOK DEF IInv
<1>5. seat' \in [Jobs -> SeatRecord]
  BY DEF Unwind, IInv, NoSeat, SeatRecord
<1>6. PICK r \in JobRecord : r = job[j]
  BY DEF IInv
<1>7. PICK s \in SUBSET Markers : s = r.st \union {"resolved", "unwound"}
  BY DEF JobRecord, Markers
<1>8. [r EXCEPT !.st = s, !.by = "unwind", !.drawn = drawn] \in JobRecord
  BY DEF JobRecord
<1>9. job' = [job EXCEPT ![j] = [r EXCEPT !.st = s, !.by = "unwind", !.drawn = drawn]]
  BY <1>6, <1>7 DEF Unwind, IInv
<1>10. job' \in [Jobs -> JobRecord]
  BY <1>8, <1>9 DEF IInv
<1>11. \A k \in Jobs : job[k].st \subseteq job'[k].st
  BY <1>6, <1>7, <1>9 DEF IInv, JobRecord
<1>12. Ledger'
  BY <1>2, <1>3, <1>11, LedgerOnward DEF IInv
<1> QED BY <1>4, <1>5, <1>10, <1>12

(* Entries that only leave or are booked again.                             *)
LEMMA RequeueOK ==
  ASSUME IInv, NEW e \in todo, NEW n, NEW again, Serve(e), Rebook(e, n, again),
         again \subseteq Nat \X Jobs,
         UNCHANGED <<job, acct, seat, miner, pendingRelease, bank, opened>>
  PROVE  IInv'
<1>1. BlockOK'
  BY ServeBlock DEF IInv
<1>2. Ledger'
  BY LedgerSame DEF IInv
<1>3. q' \in [Queues -> SUBSET (Nat \X Jobs)]
  BY RebookOK DEF IInv
<1> QED BY <1>1, <1>2, <1>3 DEF IInv, Serve

(* The height a deferral is booked for.                                     *)
LEMMA LaterOK ==
  ASSUME IInv
  PROVE  /\ height + jobExpiryRetryBlocks \in Nat
         /\ height + auditDeferStride \in Nat
         /\ height + params.AuditResolveTimeout \in Nat
         /\ height + params.AppealWindow \in Nat
<1>1. params.AuditResolveTimeout \in Nat /\ params.AppealWindow \in Nat /\ height \in Nat
  BY ParamsOK DEF IInv, BlockOK, ParamsRecord
<1> QED BY <1>1, BoundsAssumption

(* Entries that are dropped or deferred.                                    *)
LEMMA DeferralsOK ==
  ASSUME IInv, NEW e \in todo,
         \/ ExpireMoved(e) \/ RevealDeferred(e) \/ AuditDrop(e) \/ AuditNoSeedDefer(e)
         \/ ResolveStale(e) \/ ResolveDefer(e)
         \/ \E no \in SUBSET Refusable : ExpireLater(e, no)
  PROVE  IInv'
<1>1. phase # "prune" => e[2] \in Jobs
  BY EntryOK
<1>2. CASE ExpireMoved(e)
  BY <1>2, RequeueOK DEF ExpireMoved
<1>3. CASE AuditDrop(e)
  BY <1>3, RequeueOK DEF AuditDrop
<1>4. CASE ResolveStale(e)
  BY <1>4, RequeueOK DEF ResolveStale
<1>5. CASE RevealDeferred(e)
  <2>1. {<<height + auditDeferStride, e[2]>>} \subseteq Nat \X Jobs
    BY <1>1, <1>5, LaterOK DEF RevealDeferred
  <2> QED BY <1>5, <2>1, RequeueOK DEF RevealDeferred
<1>6. CASE AuditNoSeedDefer(e)
  <2>1. {<<height + auditDeferStride, e[2]>>} \subseteq Nat \X Jobs
    BY <1>1, <1>6, LaterOK DEF AuditNoSeedDefer, AuditDue
  <2> QED BY <1>6, <2>1, RequeueOK DEF AuditNoSeedDefer, AuditDue
<1>7. CASE \E no \in SUBSET Refusable : ExpireLater(e, no)
  <2>1. {<<height + jobExpiryRetryBlocks, e[2]>>} \subseteq Nat \X Jobs
    BY <1>1, <1>7, LaterOK DEF ExpireLater
  <2> QED BY <1>7, <2>1, RequeueOK DEF ExpireLater
<1>8. CASE ResolveDefer(e)
  <2>1. /\ {<<height + params.AppealWindow, e[2]>>} \subseteq Nat \X Jobs
        /\ {<<height + params.AuditResolveTimeout, e[2]>>} \subseteq Nat \X Jobs
    BY <1>1, <1>8, LaterOK DEF ResolveDefer, Undecided, Judged, ResolveDue
  <2>2. /\ Serve(e)
        /\ UNCHANGED <<job, acct, seat, miner, pendingRelease, bank, opened>>
        /\ \/ Rebook(e, "appeal", {<<height + params.AppealWindow, e[2]>>})
           \/ Rebook(e, "resolve", {<<height + params.AuditResolveTimeout, e[2]>>})
    BY <1>8 DEF ResolveDefer, Undecided, Judged, ResolveDue
  <2> QED BY <2>1, <2>2, RequeueOK
<1> QED BY <1>2, <1>3, <1>4, <1>5, <1>6, <1>7, <1>8

(* An unserved job is refunded.                                             *)
LEMMA ExpireRefundOK ==
  ASSUME IInv, NEW e \in todo, NEW no, ExpireRefund(e, no)
  PROVE  IInv'
<1>1. PICK j \in Jobs : j = e[2]
  BY EntryOK DEF ExpireRefund
<1>2. PICK a \in Account : a = acct[j] /\ FeeConserved(a)
  BY AccountOf
<1>3. PICK b : b = ExpireAccount(a)
  OBVIOUS
<1>4. /\ b \in Account /\ FeeConserved(b) /\ b.escrow = 0
      /\ b.toTreasury = a.toTreasury /\ b.bondForfeit = a.bondForfeit
      /\ b.toTeamPool = a.toTeamPool
  BY <1>2, <1>3, ExpireAccountOK
<1>5. acct' = [acct EXCEPT ![j] = b] /\ bank' = Book(bank, a, b)
  BY <1>1, <1>2, <1>3 DEF ExpireRefund
<1>6. bank' \in BankRecord
  <2>1. PICK l \in Int : l = bank.bal - (Spent(b) - Spent(a))
    BY <1>4 DEF IInv, BankRecord, Account, Spent
  <2>2. PICK t \in Nat : t = bank.treasury + (b.toTreasury - a.toTreasury)
                                          + (b.bondForfeit - a.bondForfeit)
    BY <1>4 DEF IInv, BankRecord, Account
  <2>3. PICK n \in Nat : n = bank.team + (b.toTeamPool - a.toTeamPool)
    BY <1>4 DEF IInv, BankRecord, Account
  <2>4. bank' = [bank EXCEPT !.bal = l, !.treasury = t, !.team = n]
    BY <1>5, <2>1, <2>2, <2>3 DEF Book
  <2> QED BY <2>4 DEF IInv, BankRecord
<1>7. job' \in [Jobs -> JobRecord] /\ jobEscrowReturned(job'[j].st)
        /\ \A k \in Jobs : job[k].st \subseteq job'[k].st
  <2>1. PICK r \in JobRecord : r = job[j]
    BY DEF IInv
  <2>2. PICK st \in SUBSET Markers : st = r.st \union {"expired", "refunded"}
    BY DEF JobRecord, Markers
  <2>3. [r EXCEPT !.st = st, !.by = "expiry"] \in JobRecord
    BY DEF JobRecord
  <2>4. job' = [job EXCEPT ![j] = [r EXCEPT !.st = st, !.by = "expiry"]]
    BY <1>1, <2>1, <2>2 DEF ExpireRefund, IInv
  <2>5. job' \in [Jobs -> JobRecord]
    BY <2>3, <2>4 DEF IInv
  <2>6. job'[j].st = st
    BY <2>1, <2>4 DEF IInv, JobRecord
  <2>7. \A k \in Jobs : job[k].st \subseteq job'[k].st
    BY <2>1, <2>2, <2>4, <2>6 DEF IInv
  <2> QED BY <2>2, <2>5, <2>6, <2>7 DEF jobEscrowReturned
<1>8. Ledger'
  <2>1. acct' \in [Jobs -> Account]
    BY <1>4, <1>5 DEF IInv, Ledger
  <2>2. EscrowConserved'
    BY <1>4, <1>5 DEF IInv, Ledger, EscrowConserved
  <2>3. Unsettled'
    BY <1>5, <1>7 DEF IInv, Ledger, Unsettled, jobIsPaid, jobEscrowReturned
  <2> QED BY <2>1, <2>2, <2>3 DEF Ledger
<1>9. q' \in [Queues -> SUBSET (Nat \X Jobs)]
  BY RebookOK DEF ExpireRefund, IInv
<1>10. BlockOK'
  BY ServeBlock DEF ExpireRefund, IInv
<1> QED BY <1>6, <1>7, <1>8, <1>9, <1>10 DEF ExpireRefund, Serve, IInv

(* The committee of a job is revealed.                                      *)
LEMMA RevealOK ==
  ASSUME IInv, NEW e \in todo, NEW com \in SUBSET Miners, NEW prim \in Miners \union {NoMiner},
         Reveal(e, com, prim)
  PROVE  IInv'
<1>1. PICK j \in Jobs : j = e[2]
  BY EntryOK DEF Reveal
<1>2. PICK r \in JobRecord : r = job[j]
  BY DEF IInv
<1>3. [r EXCEPT !.revealed = TRUE, !.com = com, !.prim = prim] \in JobRecord
  BY DEF JobRecord
<1>4. job' = [job EXCEPT ![j] = [r EXCEPT !.revealed = TRUE, !.com = com, !.prim = prim]]
  BY <1>1, <1>2 DEF Reveal, IInv
<1>5. job' \in [Jobs -> JobRecord]
  BY <1>3, <1>4 DEF IInv
<1>6. \A k \in Jobs : job[k].st \subseteq job'[k].st
  BY <1>2, <1>4 DEF IInv, JobRecord
<1>7. Ledger'
  BY <1>6, LedgerSame DEF Reveal, IInv
<1>8. q' \in [Queues -> SUBSET (Nat \X Jobs)]
  BY RebookOK DEF Reveal, IInv
<1>9. BlockOK'
  BY ServeBlock DEF Reveal, IInv
<1> QED BY <1>5, <1>7, <1>8, <1>9 DEF Reveal, Serve, IInv

(* The lottery unwinds: no seed, or no jury, for a debt that is too old.    *)
LEMMA UnwindsOK ==
  ASSUME IInv, NEW e \in todo, NEW no,
         \/ AuditNoSeedUnwind(e, no)
         \/ \E jury \in SUBSET Miners : AuditSmallJuryUnwind(e, jury, no)
         \/ ResolveUnwind(e, no)
  PROVE  IInv'
<1>1. e[2] \in Jobs
  BY EntryOK DEF AuditNoSeedUnwind, AuditSmallJuryUnwind, AuditDrawn, AuditDue, ResolveUnwind,
                 Undecided, Judged, ResolveDue
<1>2. PICK j \in Jobs : j = e[2]
  BY <1>1
<1>3. job[j].drawn \in {"none", "selected", "passed"}
  BY DEF IInv, JobRecord
<1>4. PICK d \in {"none", "selected", "passed"} : Unwind(j, no, d)
  BY <1>2, <1>3 DEF AuditNoSeedUnwind, AuditSmallJuryUnwind, ResolveUnwind
<1>5. /\ Serve(e) /\ UNCHANGED pendingRelease
      /\ \/ Rebook(e, "audit", {})
         \/ Rebook(e, phase, {})
  BY DEF AuditNoSeedUnwind, AuditSmallJuryUnwind, AuditDrawn, AuditDue, ResolveUnwind,
         Undecided, Judged, ResolveDue
<1>6. opened' \in Nat
  BY DEF AuditNoSeedUnwind, AuditSmallJuryUnwind, AuditDrawn, ResolveUnwind, IInv
<1>7. /\ Ledger' /\ job' \in [Jobs -> JobRecord] /\ seat' \in [Jobs -> SeatRecord]
      /\ bank' \in BankRecord /\ miner' \in [Miners -> MinerRecord]
  BY <1>4, UnwindOK
<1>8. q' \in [Queues -> SUBSET (Nat \X Jobs)]
  <2>1. {} \subseteq Nat \X Jobs
    OBVIOUS
  <2> QED BY <1>5, <2>1, RebookOK DEF IInv
<1>9. BlockOK'
  BY <1>5, ServeBlock DEF IInv
<1> QED BY <1>5, <1>6, <1>7, <1>8, <1>9 DEF IInv, Serve

(* A job whose record only changes its draw.                                *)
LEMMA DrawnOK ==
  ASSUME IInv, NEW j \in Jobs, NEW d \in {"none", "selected", "passed"},
         job' = [job EXCEPT ![j].drawn = d]
  PROVE  job' \in [Jobs -> JobRecord] /\ \A k \in Jobs : job[k].st \subseteq job'[k].st
<1>1. PICK r \in JobRecord : r = job[j]
  BY DEF IInv
<1>2. [r EXCEPT !.drawn = d] \in JobRecord
  BY DEF JobRecord
<1>3. job' = [job EXCEPT ![j] = [r EXCEPT !.drawn = d]]
  BY <1>1 DEF IInv
<1> QED BY <1>1, <1>2, <1>3 DEF IInv, JobRecord

(* The lottery passes the job over: the retention is released.              *)
LEMMA AuditPassOK ==
  ASSUME IInv, NEW e \in todo, NEW no, AuditPass(e, no)
  PROVE  IInv'
<1>1. PICK j \in Jobs : j = e[2]
  BY EntryOK DEF AuditPass, AuditDue
<1>2. PICK b : b = Released(j, no)
  OBVIOUS
<1>3. Onward(acct[j], b)
  BY <1>2, ReleasedOnward
<1>4. Release(j, b) /\ job' = [job EXCEPT ![j].drawn = "passed"] /\ Rebook(e, "audit", {})
        /\ Serve(e) /\ UNCHANGED <<seat, opened>>
  BY <1>1, <1>2 DEF AuditPass, AuditDue
<1>5. /\ acct' = [acct EXCEPT ![j] = b] /\ bank' \in BankRecord
      /\ pendingRelease' \subseteq Jobs /\ miner' \in [Miners -> MinerRecord]
  BY <1>3, <1>4, ReleaseOK
<1>6. job' \in [Jobs -> JobRecord] /\ \A k \in Jobs : job[k].st \subseteq job'[k].st
  BY <1>4, DrawnOK
<1>7. Ledger'
  BY <1>3, <1>5, <1>6, LedgerOnward DEF IInv
<1>8. q' \in [Queues -> SUBSET (Nat \X Jobs)]
  BY <1>4, RebookOK DEF IInv
<1>9. BlockOK'
  BY <1>4, ServeBlock DEF IInv
<1> QED BY <1>4, <1>5, <1>6, <1>7, <1>8, <1>9 DEF IInv, Serve

(* The lottery selects the job and seats a jury.                            *)
LEMMA AuditSelectOK ==
  ASSUME IInv, NEW e \in todo, NEW jury \in SUBSET Miners, AuditSelect(e, jury)
  PROVE  IInv'
<1>1. PICK j \in Jobs : j = e[2]
  BY EntryOK DEF AuditSelect, AuditDrawn, AuditDue
<1>2. job' \in [Jobs -> JobRecord] /\ \A k \in Jobs : job[k].st \subseteq job'[k].st
  <2>1. PICK r \in JobRecord : r = job[j]
    BY DEF IInv
  <2>2. PICK st \in SUBSET Markers : st = r.st \union {"disputed"}
    BY DEF JobRecord, Markers
  <2>3. PICK h \in Nat : h = IF ~jobIsDisputed(job[j].st) THEN height ELSE r.dheight
    BY DEF IInv, BlockOK, JobRecord
  <2>4. job' = [job EXCEPT ![j] = [r EXCEPT !.st = st, !.drawn = "selected", !.dheight = h]]
    BY <1>1, <2>1, <2>2, <2>3 DEF AuditSelect, IInv
  <2>5. [r EXCEPT !.st = st, !.drawn = "selected", !.dheight = h] \in JobRecord
    BY DEF JobRecord
  <2>6. job' \in [Jobs -> JobRecord]
    BY <2>4, <2>5 DEF IInv
  <2>7. \A k \in Jobs : job[k].st \subseteq job'[k].st
    BY <2>1, <2>2, <2>4 DEF IInv, JobRecord
  <2> QED BY <2>6, <2>7
<1>3. Ledger'
  <2>1. PICK a \in Account : a = acct[j] /\ FeeConserved(a)
    BY AccountOf
  <2>2. PICK d \in Nat : d = IF ~jobIsDisputed(job[j].st) THEN 0 ELSE a.bond
    BY DEF Account
  <2>3. PICK b : b = [a EXCEPT !.bond = d, !.bondBack = a.bondBack, !.bondForfeit = a.bondForfeit]
    OBVIOUS
  <2>4. Onward(a, b)
    <3>1. a.bondBack \in Nat /\ a.bondForfeit \in Nat /\ a.bondForfeit >= a.bondForfeit
      BY DEF Account
    <3> QED BY <2>1, <2>3, <3>1, BondOnward
  <2>5. acct' = [acct EXCEPT ![j].bond = d]
    BY <1>1, <2>1, <2>2 DEF AuditSelect
  <2>6. b = [a EXCEPT !.bond = d]
    BY <2>3 DEF Account
  <2>7. acct' = [acct EXCEPT ![j] = b]
    BY <2>1, <2>5, <2>6
  <2> QED BY <1>2, <2>1, <2>4, <2>7, LedgerOnward DEF IInv
<1>4. seat' \in [Jobs -> SeatRecord]
  <2>1. PICK r \in SeatRecord : r = seat[j]
    BY DEF IInv
  <2>2. seat' = [seat EXCEPT ![j] = [r EXCEPT !.jury = jury, !.selected = FALSE]]
    BY <1>1, <2>1 DEF AuditSelect, IInv
  <2>3. [r EXCEPT !.jury = jury, !.selected = FALSE] \in SeatRecord
    BY DEF SeatRecord
  <2> QED BY <2>2, <2>3 DEF IInv
<1>5. q' \in [Queues -> SUBSET (Nat \X Jobs)]
  <2>1. {<<height + params.AuditResolveTimeout, e[2]>>} \subseteq Nat \X Jobs
    BY <1>1, LaterOK
  <2> QED BY <2>1, RebookOK DEF AuditSelect, IInv
<1>6. Serve(e) /\ opened' \in Nat
  BY DEF AuditSelect, AuditDrawn, AuditDue, IInv
<1>7. BlockOK'
  BY <1>6, ServeBlock DEF IInv
<1> QED BY <1>2, <1>3, <1>4, <1>5, <1>6, <1>7 DEF AuditSelect, Serve, IInv

(* The lottery selects the job and finds too few judges.                    *)
LEMMA AuditSmallJuryOK ==
  ASSUME IInv, NEW e \in todo, NEW jury \in SUBSET Miners, AuditSmallJury(e, jury)
  PROVE  IInv'
<1>1. PICK j \in Jobs : j = e[2]
  BY EntryOK DEF AuditSmallJury, AuditDrawn, AuditDue
<1>2. job' \in [Jobs -> JobRecord] /\ \A k \in Jobs : job[k].st \subseteq job'[k].st
  <2>1. job' = [job EXCEPT ![j].drawn = "selected"]
    BY <1>1 DEF AuditSmallJury
  <2> QED BY <2>1, DrawnOK
<1>3. Ledger'
  BY <1>2, LedgerSame DEF AuditSmallJury, IInv
<1>4. seat' \in [Jobs -> SeatRecord]
  <2>1. PICK r \in SeatRecord : r = seat[j]
    BY DEF IInv
  <2>2. seat' = [seat EXCEPT ![j] = [r EXCEPT !.selected = TRUE]]
    BY <1>1, <2>1 DEF AuditSmallJury, IInv
  <2>3. [r EXCEPT !.selected = TRUE] \in SeatRecord
    BY DEF SeatRecord
  <2> QED BY <2>2, <2>3 DEF IInv
<1>5. q' \in [Queues -> SUBSET (Nat \X Jobs)]
  <2>1. {<<height + auditDeferStride, e[2]>>} \subseteq Nat \X Jobs
    BY <1>1, LaterOK
  <2> QED BY <2>1, RebookOK DEF AuditSmallJury, IInv
<1>6. Serve(e) /\ opened' \in Nat
  BY DEF AuditSmallJury, AuditDrawn, AuditDue, IInv
<1>7. BlockOK'
  BY <1>6, ServeBlock DEF IInv
<1> QED BY <1>2, <1>3, <1>4, <1>5, <1>6, <1>7 DEF AuditSmallJury, Serve, IInv

(* The deadline closes the job in the miner's favour.                       *)
LEMMA ResolvedForMinerOK ==
  ASSUME IInv, NEW e \in todo, NEW no,
         ResolveSilent(e, no) \/ ResolveUnfounded(e, no) \/ ResolveVindicate(e, no)
  PROVE  IInv'
<1>1. Serve(e) /\ phase \in {"resolve", "appeal"} /\ Rebook(e, phase, {}) /\ UNCHANGED opened
  BY DEF ResolveSilent, ResolveUnfounded, ResolveVindicate, Judged, ResolveDue
<1>2. PICK j \in Jobs : j = e[2]
  BY <1>1, EntryOK
<1>3. PICK b \in Account, marks \in SUBSET Markers, by \in {"silent", "unfounded", "jury"} :
        Onward(acct[j], b) /\ Release(j, b) /\ Close(j, marks, by, FALSE)
  <2>0. {} \in SUBSET Markers /\ {"vindicated", "quorum"} \in SUBSET Markers
    BY DEF Markers
  <2>1. CASE ResolveSilent(e, no)
    <3>1. Onward(acct[j], refundDisputeBond(Released(j, no), no))
      BY ReleasedOnward, ReturnOnward
    <3>2. Release(j, refundDisputeBond(Released(j, no), no)) /\ Close(j, {}, "silent", FALSE)
      BY <1>2, <2>1 DEF ResolveSilent
    <3> QED BY <2>0, <3>1, <3>2 DEF Onward
  <2>2. CASE ResolveUnfounded(e, no)
    <3>1. Release(j, forfeitBond(Released(j, no))) /\ Close(j, {}, "unfounded", FALSE)
      BY <1>2, <2>2 DEF ResolveUnfounded
    <3> QED BY <2>0, <3>1, ForfeitOnward DEF Onward
  <2>3. CASE ResolveVindicate(e, no)
    <3>1. /\ Release(j, forfeitBond(Released(j, no)))
          /\ Close(j, {"vindicated", "quorum"}, "jury", FALSE)
      BY <1>2, <2>3 DEF ResolveVindicate
    <3> QED BY <2>0, <3>1, ForfeitOnward DEF Onward
  <2> QED BY <2>1, <2>2, <2>3
<1>4. /\ Ledger' /\ job' \in [Jobs -> JobRecord] /\ seat' \in [Jobs -> SeatRecord]
      /\ bank' \in BankRecord /\ pendingRelease' \subseteq Jobs
      /\ miner' \in [Miners -> MinerRecord]
  BY <1>3, ReleasedAndClosed
<1>5. q' \in [Queues -> SUBSET (Nat \X Jobs)]
  BY <1>1, RebookOK DEF IInv
<1>6. BlockOK'
  BY <1>1, ServeBlock DEF IInv
<1> QED BY <1>1, <1>4, <1>5, <1>6 DEF Serve, IInv

(* The jury convicts.                                                       *)
LEMMA ResolveSlashOK ==
  ASSUME IInv, NEW e \in todo, NEW no, ResolveSlash(e, no)
  PROVE  IInv'
<1>0. /\ Serve(e) /\ phase \in {"resolve", "appeal"} /\ Rebook(e, phase, {})
      /\ UNCHANGED <<pendingRelease, opened>>
  BY DEF ResolveSlash, Judged, ResolveDue
<1>1. PICK j \in Jobs : j = e[2]
  BY <1>0, EntryOK
<1>2. PICK amt \in Nat : amt = SlashAmount(j)
  BY SlashAmountOK
<1>3. PICK c : c = SlashedAccount(acct[j], amt, no)
  OBVIOUS
<1>4. Onward(acct[j], c) /\ amt - (c.comp - acct[j].comp) \in Nat
  BY <1>3, AccountOf, SlashedOK
<1>5. PICK b : b = refundDisputeBond(c, no)
  OBVIOUS
<1>6. Onward(acct[j], b)
  BY <1>4, <1>5, ReturnOnward
<1>7. PICK k \in BankRecord : k = Book(bank, acct[j], b)
  BY <1>6, AccountOf, BookOK DEF IInv
<1>8. /\ acct' = [acct EXCEPT ![j] = b]
      /\ bank' = [k EXCEPT !.treasury = k.treasury + (amt - (c.comp - acct[j].comp))]
      /\ miner' = TakeStake(DemandReversed(j), j, amt)
      /\ Close(j, {"clawed", "quorum"}, "jury", TRUE)
  BY <1>1, <1>2, <1>3, <1>5, <1>7 DEF ResolveSlash
<1>9. bank' \in BankRecord
  <2>1. PICK n \in Nat : n = k.treasury + (amt - (c.comp - acct[j].comp))
    BY <1>4 DEF BankRecord
  <2> QED BY <1>8, <2>1 DEF BankRecord
<1>10. miner' \in [Miners -> MinerRecord]
  BY <1>2, <1>8, TakeStakeOK
<1>11. /\ job' \in [Jobs -> JobRecord] /\ seat' \in [Jobs -> SeatRecord]
       /\ \A k2 \in Jobs : job[k2].st \subseteq job'[k2].st
  <2>1. {"clawed", "quorum"} \in SUBSET Markers
    BY DEF Markers
  <2> QED BY <1>8, <2>1, CloseOK
<1>12. Ledger'
  BY <1>6, <1>8, <1>11, LedgerOnward DEF IInv
<1>13. q' \in [Queues -> SUBSET (Nat \X Jobs)]
  BY <1>0, RebookOK DEF IInv
<1>14. BlockOK'
  BY <1>0, ServeBlock DEF IInv
<1> QED BY <1>0, <1>9, <1>10, <1>11, <1>12, <1>13, <1>14 DEF Serve, IInv

(* The two sweeps of an epoch block.                                        *)
LEMMA SweepsOK ==
  ASSUME IInv, NEW e \in todo, NEW no, PruneMiner(e, no) \/ RetryRelease(e, no)
  PROVE  IInv'
<1>1. CASE PruneMiner(e, no)
  <2>1. e[2] \in Miners /\ Serve(e)
    BY <1>1, EntryOK DEF PruneMiner
  <2>2. /\ miner' \in [Miners -> MinerRecord] /\ bank' \in BankRecord
        /\ job' \in [Jobs -> JobRecord] /\ \A k \in Jobs : job[k].st \subseteq job'[k].st
    <3>1. CASE "owner" \in no
      BY <1>1, <3>1 DEF PruneMiner, IInv
    <3>2. CASE "owner" \notin no
      BY <1>1, <2>1, <3>2, LeaveOK DEF PruneMiner
    <3> QED BY <3>1, <3>2
  <2>3. Ledger'
    BY <1>1, <2>2, LedgerSame DEF PruneMiner, IInv
  <2>4. BlockOK'
    BY <2>1, ServeBlock DEF IInv
  <2> QED BY <1>1, <2>1, <2>2, <2>3, <2>4 DEF PruneMiner, Serve, IInv
<1>2. CASE RetryRelease(e, no)
  <2>1. PICK j \in Jobs : j = e[2]
    BY <1>2, EntryOK DEF RetryRelease
  <2>2. PICK b : b = Released(j, no)
    OBVIOUS
  <2>3. Onward(acct[j], b)
    BY <2>2, ReleasedOnward
  <2>4. Release(j, b) /\ Serve(e) /\ UNCHANGED <<job, seat, q, opened>>
    BY <1>2, <2>1, <2>2 DEF RetryRelease
  <2>5. /\ acct' = [acct EXCEPT ![j] = b] /\ bank' \in BankRecord
        /\ pendingRelease' \subseteq Jobs /\ miner' \in [Miners -> MinerRecord]
    BY <2>3, <2>4, ReleaseOK
  <2>6. Ledger'
    BY <2>3, <2>4, <2>5, LedgerOnward DEF IInv
  <2>7. BlockOK'
    BY <2>4, ServeBlock DEF IInv
  <2> QED BY <2>4, <2>5, <2>6, <2>7 DEF Serve, IInv
<1> QED BY <1>1, <1>2

(* Serving any entry of the batch keeps the invariant.                      *)
LEMMA ServeEntryOK == ASSUME IInv, NEW e \in todo, ServeEntry(e) PROVE IInv'
<1>1. CASE \/ ExpireMoved(e) \/ RevealDeferred(e) \/ AuditDrop(e) \/ AuditNoSeedDefer(e)
           \/ ResolveStale(e) \/ ResolveDefer(e)
           \/ \E no \in SUBSET Refusable : ExpireLater(e, no)
  BY <1>1, DeferralsOK
<1>2. CASE \E com \in SUBSET Miners, prim \in Miners \union {NoMiner} : Reveal(e, com, prim)
  BY <1>2, RevealOK
<1>3. CASE \E jury \in SUBSET Miners : AuditSelect(e, jury) \/ AuditSmallJury(e, jury)
  BY <1>3, AuditSelectOK, AuditSmallJuryOK
<1>4. CASE \E no \in SUBSET Refusable : ExpireRefund(e, no) \/ AuditPass(e, no)
  BY <1>4, ExpireRefundOK, AuditPassOK
<1>5. CASE \E no \in SUBSET Refusable :
             ResolveSilent(e, no) \/ ResolveUnfounded(e, no) \/ ResolveVindicate(e, no)
  BY <1>5, ResolvedForMinerOK
<1>6. CASE \E no \in SUBSET Refusable : PruneMiner(e, no) \/ RetryRelease(e, no)
  BY <1>6, SweepsOK
<1>7. CASE \E no \in SUBSET Refusable :
             \/ AuditNoSeedUnwind(e, no)
             \/ \E jury \in SUBSET Miners : AuditSmallJuryUnwind(e, jury, no)
             \/ ResolveUnwind(e, no)
  BY <1>7, UnwindsOK
<1>8. CASE \E no \in SUBSET Refusable : ResolveSlash(e, no)
  BY <1>8, ResolveSlashOK
<1> QED BY <1>1, <1>2, <1>3, <1>4, <1>5, <1>6, <1>7, <1>8 DEF ServeEntry

-----------------------------------------------------------------------------
(* The bonds of the registered miners add up.                               *)
LEMMA InitialBalanceOK ==
  InitialBalance = SumOf([m \in Miners |-> InitialStake[m]], Miners) /\ InitialBalance \in Nat
<1> DEFINE stakes == [m \in Miners |-> InitialStake[m]]
<1>1. InitialBalance = SumOf(stakes, Miners)
  BY DEF InitialBalance, MapThenSumSet, MapThenFoldSet, SumOf, SumsTo, Pick
<1>2. \A m \in Miners : stakes[m] \in Nat
  BY BoundsAssumption
<1> HIDE DEF stakes
<1>3. SumOf(stakes, Miners) \in Nat
  BY <1>2, FinitenessAssumption, SumOfType
<1> QED BY <1>1, <1>3 DEF stakes

(* The chain starts in the invariant.                                       *)
LEMMA InitOK == Init => IInv
<1> SUFFICES ASSUME Init PROVE IInv
  OBVIOUS
<1>1. BlockOK
  BY BoundsAssumption DEF Init, BlockOK, Entry
<1>2. Ledger
  <2>1. acct \in [Jobs -> Account] /\ \A j \in Jobs : FeeConserved(acct[j])
    BY EmptyAccountOK DEF Init
  <2>2. \A j \in Jobs : acct[j].escrow = acct[j].fee
    BY DEF Init, EmptyAccount
  <2> QED BY <2>1, <2>2 DEF Ledger, EscrowConserved, Unsettled
<1>3. job \in [Jobs -> JobRecord]
  BY DEF Init, NoJob, JobRecord
<1>4. seat \in [Jobs -> SeatRecord] /\ vote \in [Jobs -> VoteRecord]
  BY DEF Init, NoSeat, SeatRecord, NoVote, VoteRecord
<1>5. miner \in [Miners -> MinerRecord]
  BY BoundsAssumption DEF Init, MinerRecord
<1>6. bank \in BankRecord
  BY InitialBalanceOK DEF Init, BankRecord
<1> QED BY <1>1, <1>2, <1>3, <1>4, <1>5, <1>6 DEF Init, IInv

(* Every step of the chain keeps it.                                        *)
LEMMA StepOK == IInv /\ [Next]_vars => IInv'
<1> SUFFICES ASSUME IInv, [Next]_vars PROVE IInv'
  OBVIOUS
<1>1. CASE Tx
  BY <1>1, TxOK
<1>2. CASE EndBlock
  BY <1>2, EndPhaseOK, ServeEntryOK, NextBlockOK DEF EndBlock
<1>3. CASE UNCHANGED vars
  BY <1>3 DEF vars, IInv, BlockOK, Ledger, EscrowConserved, Unsettled, Entry
<1> QED BY <1>1, <1>2, <1>3 DEF Next, Horizon

(* Every store of the module keeps its type: no unsigned amount of the code *)
(* (a stake, a demand, a retained share, a pool) is driven below zero.      *)
THEOREM TypeCorrect == Spec => []TypeOK
<1>1. IInv => TypeOK
  BY IInvImplies
<1> QED BY <1>1, InitOK, StepOK, PTL DEF Spec

(* What a client paid for a job is at every moment in escrow, retained or   *)
(* paid out, whatever the parameters, the refusals and the interleaving.    *)
THEOREM Conserved == Spec => []EscrowConserved
<1>1. IInv => EscrowConserved
  BY IInvImplies
<1> QED BY <1>1, InitOK, StepOK, PTL DEF Spec

=============================================================================

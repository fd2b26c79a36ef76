----------------------- MODULE OptimisticJobs_books_proof -----------------------
(***************************************************************************)
(* Three results that need more than the single job, for any set of jobs   *)
(* and miners.                                                             *)
(*                                                                         *)
(* The module account of x/jobs covers exactly what it owes.  Both sides   *)
(* of the balance are sums, and a step moves at most one debt and one      *)
(* bond, by what it moves in the bank: Book, the one place where the       *)
(* accounts and the bank meet, moves the coins of a job by the change of   *)
(* what is owed on it, less what came out of the slashed bond of its       *)
(* miner.                                                                  *)
(*                                                                         *)
(* A retention is let go of in time.  Its age follows the queues: no entry *)
(* stays behind the clock, and the entry that will end the wait was booked *)
(* before the retention was old enough to be unwound.                      *)
(*                                                                         *)
(* The demand of a miner is covered by what it earned.  What it earned is  *)
(* a sum over its jobs; a step credits one right, once, or takes one back. *)
(***************************************************************************)
EXTENDS OptimisticJobs_safety_proof

-----------------------------------------------------------------------------
(* The two sides of the balance.                                            *)
Owed(a) ==
  a.escrow + retainedTotal(a) + a.stray + (a.bondIn - a.bondBack - a.bondForfeit)

(* The coins of the bank that are not in its own two pools.                 *)
Net(k) == k.bal - k.treasury - k.team

Debts == SumOf([j \in Jobs |-> Owed(acct[j])], Jobs)
Bonds == SumOf([m \in Miners |-> miner[m].stake], Miners)

(* The invariant: the balance; a bond only of a disputer, and a stake only  *)
(* of a registered miner, for OpenJob, DisputeVerdict and CreateMiner book  *)
(* the whole of what they take in.                                          *)
Balanced == Net(bank) = Debts + Bonds
NoBond(j) == ~disputed(j) => acct[j].bondIn = 0
NoStake(m) == ~miner[m].reg => miner[m].stake = 0

Backed == Safe /\ Balanced /\ (\A j \in Jobs : NoBond(j)) /\ (\A m \in Miners : NoStake(m))

LEMMA OwedInt == ASSUME NEW a \in Account PROVE Owed(a) \in Int
BY DEF Owed, retainedTotal, Account

LEMMA SidesInt == ASSUME IInv PROVE Debts \in Int /\ Bonds \in Int /\ Net(bank) \in Int
<1>1. Debts \in Int
  <2> DEFINE d == [j \in Jobs |-> Owed(acct[j])]
  <2>1. \A j \in Jobs : d[j] \in Int
    BY AccountOf, OwedInt
  <2> HIDE DEF d
  <2>2. SumOf(d, Jobs) \in Int
    BY <2>1, FinitenessAssumption, SumOfType
  <2> QED BY <2>2 DEF Debts, d
<1>2. Bonds \in Int
  <2> DEFINE s == [m \in Miners |-> miner[m].stake]
  <2>1. \A m \in Miners : s[m] \in Int
    BY DEF IInv, MinerRecord
  <2> HIDE DEF s
  <2>2. SumOf(s, Miners) \in Int
    BY <2>1, FinitenessAssumption, SumOfType
  <2> QED BY <2>2 DEF Bonds, s
<1>3. Net(bank) \in Int
  BY DEF Net, IInv, BankRecord
<1> QED BY <1>1, <1>2, <1>3

(* The balance as the property states it.                                   *)
LEMMA BalanceSaid == ASSUME IInv, Balanced PROVE BooksBalance
<1>1. MapThenSumSet(OwedOn, Jobs) = SumOf([j \in Jobs |-> OwedOn(j)], Jobs)
  BY DEF MapThenSumSet, MapThenFoldSet, SumOf, SumsTo, Pick
<1>2. [j \in Jobs |-> OwedOn(j)] = [j \in Jobs |-> Owed(acct[j])]
  BY DEF OwedOn, Owed
<1>3. StakeOf(Miners) = Bonds
  BY DEF StakeOf, Bonds, MapThenSumSet, MapThenFoldSet, SumOf, SumsTo, Pick
<1>4. bank.bal - bank.treasury - bank.team = Debts + Bonds
  BY DEF Balanced, Net
<1>5. bank.bal \in Int /\ bank.treasury \in Int /\ bank.team \in Int
  BY DEF IInv, BankRecord
<1>6. Debts \in Int /\ Bonds \in Int
  BY SidesInt
<1>7. bank.bal = Debts + Bonds + bank.treasury + bank.team
  BY <1>4, <1>5, <1>6
<1>8. MapThenSumSet(OwedOn, Jobs) = Debts
  BY <1>1, <1>2 DEF Debts
<1> QED BY <1>3, <1>7, <1>8 DEF BooksBalance

-----------------------------------------------------------------------------
(* How a side moves.                                                        *)
LEMMA DebtMoves ==
  ASSUME IInv, NEW j \in Jobs, NEW b \in Account, acct' = [acct EXCEPT ![j] = b]
  PROVE  Debts' = Debts + (Owed(b) - Owed(acct[j]))
<1> DEFINE d == [k \in Jobs |-> Owed(acct[k])]
           e == [k \in Jobs |-> Owed(acct'[k])]
<1>1. \A k \in Jobs : acct'[k] = IF k = j THEN b ELSE acct[k]
  BY DEF IInv, Ledger
<1>2. \A k \in Jobs : d[k] \in Int
  BY AccountOf, OwedInt
<1>3. \A k \in Jobs : e[k] \in Int
  BY <1>1, AccountOf, OwedInt
<1>4. \A k \in Jobs \ {j} : e[k] = d[k]
  BY <1>1
<1>5. d[j] = Owed(acct[j]) /\ e[j] = Owed(b)
  BY <1>1
<1>6. Debts = SumOf(d, Jobs) /\ Debts' = SumOf(e, Jobs)
  BY DEF Debts, Owed, retainedTotal
<1> HIDE DEF d, e
<1>7. SumOf(e, Jobs) = SumOf(d, Jobs) + (e[j] - d[j])
  <2>1. \A k \in Jobs : d[k] \in Int /\ e[k] \in Int
    BY <1>2, <1>3
  <2>2. IsFiniteSet(Jobs)
    BY FinitenessAssumption
  <2> QED BY <1>4, <2>1, <2>2, SumOfChange
<1> QED BY <1>5, <1>6, <1>7

LEMMA DebtSame ==
  ASSUME IInv, \A k \in Jobs : Owed(acct'[k]) = Owed(acct[k])
  PROVE  Debts' = Debts
<1> DEFINE d == [k \in Jobs |-> Owed(acct[k])]
           e == [k \in Jobs |-> Owed(acct'[k])]
<1>1. \A k \in Jobs : d[k] \in Int /\ e[k] = d[k]
  BY AccountOf, OwedInt
<1>2. Debts = SumOf(d, Jobs) /\ Debts' = SumOf(e, Jobs)
  BY DEF Debts, Owed, retainedTotal
<1>3. d = e
  BY <1>1
<1> HIDE DEF d, e
<1> QED BY <1>2, <1>3

LEMMA BondMovesBy ==
  ASSUME IInv, NEW m \in Miners, NEW s \in Int, miner'[m].stake = s,
         \A n \in Miners \ {m} : miner'[n].stake = miner[n].stake
  PROVE  Bonds' = Bonds + (s - miner[m].stake)
<1> DEFINE d == [n \in Miners |-> miner[n].stake]
           e == [n \in Miners |-> miner'[n].stake]
<1>1. \A n \in Miners : d[n] \in Int
  BY DEF IInv, MinerRecord
<1>2. \A n \in Miners : e[n] \in Int
  BY <1>1
<1>3. \A n \in Miners \ {m} : e[n] = d[n]
  OBVIOUS
<1>4. d[m] = miner[m].stake /\ e[m] = s
  OBVIOUS
<1>5. Bonds = SumOf(d, Miners) /\ Bonds' = SumOf(e, Miners)
  BY DEF Bonds
<1> HIDE DEF d, e
<1>6. SumOf(e, Miners) = SumOf(d, Miners) + (e[m] - d[m])
  <2>1. \A n \in Miners : d[n] \in Int /\ e[n] \in Int
    BY <1>1, <1>2
  <2>2. IsFiniteSet(Miners)
    BY FinitenessAssumption
  <2> QED BY <1>3, <2>1, <2>2, SumOfChange
<1> QED BY <1>4, <1>5, <1>6

SameStakes == \A m \in Miners : miner'[m].stake = miner[m].stake /\ miner'[m].reg = miner[m].reg

LEMMA BondsSame == ASSUME SameStakes PROVE Bonds' = Bonds
<1>1. [m \in Miners |-> miner'[m].stake] = [m \in Miners |-> miner[m].stake]
  BY DEF SameStakes
<1> QED BY <1>1 DEF Bonds

-----------------------------------------------------------------------------
(* Where the coins of a job are, grouped as Book and FeeConserved read them. *)
Rest(a)   == a.escrow + retainedTotal(a) + a.stray
PaidTo(a) == a.toClient + a.toMiner + a.toVal + a.toTeam + a.burned
Pooled(a) == a.toTreasury + a.toTeamPool

LEMMA Grouped ==
  ASSUME NEW a \in Account, FeeConserved(a)
  PROVE  /\ Rest(a) \in Nat /\ PaidTo(a) \in Nat /\ Pooled(a) \in Nat
         /\ a.fee = Rest(a) + PaidTo(a) + Pooled(a)
         /\ Spent(a) = PaidTo(a) + a.comp + a.bondBack
         /\ Owed(a) = Rest(a) + (a.bondIn - a.bondBack - a.bondForfeit)
<1>1. Rest(a) \in Nat /\ PaidTo(a) \in Nat /\ Pooled(a) \in Nat
  BY DEF Account, Rest, PaidTo, Pooled, retainedTotal
<1>2. a.fee = Rest(a) + PaidTo(a) + Pooled(a)
  BY DEF Account, FeeConserved, FeeOut, Rest, PaidTo, Pooled, retainedTotal
<1>3. Spent(a) = PaidTo(a) + a.comp + a.bondBack
  BY DEF Account, Spent, PaidTo
<1>4. Owed(a) = Rest(a) + (a.bondIn - a.bondBack - a.bondForfeit)
  BY DEF Account, Owed, Rest, retainedTotal
<1> QED BY <1>1, <1>2, <1>3, <1>4

AnyBank == [bal : Int, treasury : Int, team : Int]

(* What Book takes out of the bank is what is no longer owed, and what came *)
(* out of a stake.                                                          *)
LEMMA BookMoves ==
  ASSUME NEW k \in AnyBank, NEW a \in Account, NEW b \in Account,
         FeeConserved(a), FeeConserved(b), b.fee = a.fee, b.bondIn = a.bondIn
  PROVE  Net(Book(k, a, b)) = Net(k) + (Owed(b) - Owed(a)) - (b.comp - a.comp)
<1>1. PICK r \in Nat, p \in Nat, l \in Nat : r = Rest(a) /\ p = PaidTo(a) /\ l = Pooled(a)
  BY Grouped
<1>2. PICK r2 \in Nat, p2 \in Nat, l2 \in Nat :
        r2 = Rest(b) /\ p2 = PaidTo(b) /\ l2 = Pooled(b)
  BY Grouped
<1>3. r + p + l = r2 + p2 + l2
  BY <1>1, <1>2, Grouped
<1>4. PICK i \in Nat, x \in Nat, y \in Nat, c \in Nat :
        i = a.bondIn /\ x = a.bondBack /\ y = a.bondForfeit /\ c = a.comp
  BY DEF Account
<1>5. PICK x2 \in Nat, y2 \in Nat, c2 \in Nat :
        x2 = b.bondBack /\ y2 = b.bondForfeit /\ c2 = b.comp
  BY DEF Account
<1>6. Spent(b) - Spent(a) = (p2 + c2 + x2) - (p + c + x)
  BY <1>1, <1>2, <1>4, <1>5, Grouped
<1>7. Owed(b) - Owed(a) = (r2 + (i - x2 - y2)) - (r + (i - x - y))
  BY <1>1, <1>2, <1>4, <1>5, Grouped
<1>8. (b.toTreasury - a.toTreasury) + (b.toTeamPool - a.toTeamPool) = l2 - l
  BY <1>1, <1>2 DEF Pooled, Account
<1>9. PICK t \in Int, m \in Int :
        t = b.toTreasury - a.toTreasury /\ m = b.toTeamPool - a.toTeamPool /\ t + m = l2 - l
  BY <1>8 DEF Account
<1>10. PICK kb \in Int, kt \in Int, km \in Int : kb = k.bal /\ kt = k.treasury /\ km = k.team
  BY DEF AnyBank
<1>11. Book(k, a, b) = [k EXCEPT !.bal = kb - ((p2 + c2 + x2) - (p + c + x)),
                                 !.treasury = kt + t + (y2 - y), !.team = km + m]
  BY <1>4, <1>5, <1>6, <1>9, <1>10 DEF Book
<1>12. Net(Book(k, a, b)) = (kb - ((p2 + c2 + x2) - (p + c + x))) - (kt + t + (y2 - y)) - (km + m)
  BY <1>11 DEF Net, AnyBank
<1>13. Net(k) = kb - kt - km
  BY <1>10 DEF Net
<1>14. b.comp - a.comp = c2 - c
  BY <1>4, <1>5
<1>15. (kb - ((p2 + c2 + x2) - (p + c + x))) - (kt + t + (y2 - y)) - (km + m)
         = (kb - kt - km) + ((r2 + (i - x2 - y2)) - (r + (i - x - y))) - (c2 - c)
  BY <1>3, <1>9
<1> QED BY <1>7, <1>12, <1>13, <1>14, <1>15

-----------------------------------------------------------------------------
(* What the steps have in common.                                           *)
Grows == \A k \in Jobs : job[k].st \subseteq job'[k].st

SameBonds == \A k \in Jobs : acct'[k].bondIn = acct[k].bondIn

LEMMA NoBondKept ==
  ASSUME Backed, Grows, SameBonds
  PROVE  \A j \in Jobs : NoBond(j)'
BY DEF Backed, Grows, SameBonds, NoBond, disputed, jobIsDisputed

LEMMA NoStakeKept ==
  ASSUME Backed, SameStakes
  PROVE  \A m \in Miners : NoStake(m)'
BY DEF Backed, SameStakes, NoStake

(* A step that moves nothing.                                               *)
Quiet ==
  /\ Net(bank') = Net(bank) /\ SameStakes /\ SameBonds /\ Grows
  /\ \A k \in Jobs : Owed(acct'[k]) = Owed(acct[k])

LEMMA QuietBacked ==
  ASSUME Backed, Safe', Quiet
  PROVE  Backed'
<1>1. Debts' = Debts
  BY DebtSame DEF Backed, Safe, Quiet
<1>2. Bonds' = Bonds
  BY BondsSame DEF Quiet
<1>3. Net(bank)' = Net(bank)
  BY DEF Quiet, Net
<1>4. Balanced'
  BY <1>1, <1>2, <1>3 DEF Backed, Balanced
<1> QED BY <1>4, NoBondKept, NoStakeKept DEF Backed, Quiet

(* A step that moves the account of one job, without a slash.               *)
Settling(j, b) ==
  /\ b \in Account /\ FeeConserved(b) /\ b.fee = acct[j].fee
  /\ b.bondIn = acct[j].bondIn /\ b.comp = acct[j].comp
  /\ acct' = [acct EXCEPT ![j] = b]
  /\ \E k \in AnyBank : Net(k) = Net(bank) /\ bank' = Book(k, acct[j], b)
  /\ SameStakes /\ Grows

LEMMA OneAccount ==
  ASSUME IInv, NEW j \in Jobs, NEW b, b.bondIn = acct[j].bondIn, acct' = [acct EXCEPT ![j] = b]
  PROVE  SameBonds
BY DEF IInv, Ledger, SameBonds

LEMMA SettlingBacked ==
  ASSUME Backed, Safe', NEW j \in Jobs, NEW b, Settling(j, b)
  PROVE  Backed'
<1>1. IInv /\ acct[j] \in Account /\ FeeConserved(acct[j]) /\ b \in Account
  BY AccountOf DEF Backed, Safe, Settling
<1>2. Debts' = Debts + (Owed(b) - Owed(acct[j]))
  BY <1>1, DebtMoves DEF Settling
<1>3. Bonds' = Bonds
  BY BondsSame DEF Settling
<1>4. PICK k \in AnyBank : Net(k) = Net(bank) /\ bank' = Book(k, acct[j], b)
  BY DEF Settling
<1>5. Net(bank') = Net(k) + (Owed(b) - Owed(acct[j])) - (b.comp - acct[j].comp)
  BY <1>1, <1>4, BookMoves DEF Settling
<1>6. PICK c \in Nat : c = b.comp /\ c = acct[j].comp
  BY <1>1 DEF Settling, Account
<1>7. PICK o \in Int, o2 \in Int : o = Owed(acct[j]) /\ o2 = Owed(b)
  BY <1>1, OwedInt
<1>8. PICK n \in Int, d \in Int, s \in Int : n = Net(bank) /\ d = Debts /\ s = Bonds
  BY <1>1, SidesInt
<1>9. n = d + s
  BY <1>8 DEF Backed, Balanced
<1>10. Net(bank') = n + (o2 - o) - (c - c) /\ Debts' = d + (o2 - o) /\ Bonds' = s
  BY <1>2, <1>3, <1>4, <1>5, <1>6, <1>7, <1>8
<1>11. Net(bank)' = Net(bank')
  BY DEF Net
<1>12. Balanced'
  BY <1>9, <1>10, <1>11 DEF Balanced
<1>13. SameBonds
  BY <1>1, OneAccount DEF Settling
<1> QED BY <1>12, <1>13, NoBondKept, NoStakeKept DEF Backed, Settling

(* A step that convicts a miner: what is taken from its stake leaves what   *)
(* is owed to it.                                                           *)
Slashing(j, b, amt) ==
  /\ b \in Account /\ b.bondIn = acct[j].bondIn /\ acct' = [acct EXCEPT ![j] = b]
  /\ Net(bank') = Net(bank) + (Owed(b) - Owed(acct[j])) - amt
  /\ amt = SlashAmount(j) /\ miner' = TakeStake(DemandReversed(j), j, amt)
  /\ paid(j) /\ Grows

LEMMA OthersKeepStake ==
  ASSUME IInv, NEW j \in Jobs, NEW amt, miner' = TakeStake(DemandReversed(j), j, amt)
  PROVE  \A n \in Miners \ {job[j].miner} : miner'[n].stake = miner[n].stake
<1>1. PICK f \in [Miners -> MinerRecord] : f = DemandReversed(j)
  BY DemandReversedOK
<1>2. \A n \in Miners : f[n].stake = miner[n].stake
  BY <1>1 DEF DemandReversed, IInv, MinerRecord
<1>3. \A n \in Miners \ {job[j].miner} : miner'[n] = f[n]
  BY <1>1 DEF TakeStake
<1> QED BY <1>2, <1>3

LEMMA SlashingBacked ==
  ASSUME Backed, Safe', NEW j \in Jobs, NEW b, NEW amt \in Nat, Slashing(j, b, amt)
  PROVE  Backed'
<1>1. IInv /\ acct[j] \in Account /\ b \in Account
  BY AccountOf DEF Backed, Safe, Slashing
<1>2. PICK m \in Miners : m = job[j].miner
  BY DEF Backed, Safe, JobSafe, Staged, Slashing
<1>3. Debts' = Debts + (Owed(b) - Owed(acct[j]))
  BY <1>1, DebtMoves DEF Slashing
<1>4. PICK z \in Nat : z = miner[m].stake
  BY <1>1 DEF IInv, MinerRecord
<1>5. miner[m].stake - miner'[m].stake = amt
  BY <1>2, StakeTaken DEF Backed, Slashing
<1>6. PICK y \in Nat : y = miner'[m].stake
  <2>1. IInv'
    BY DEF Safe
  <2> QED BY <2>1 DEF IInv, MinerRecord
<1>7. \A n \in Miners \ {m} : miner'[n].stake = miner[n].stake
  BY <1>1, <1>2, OthersKeepStake DEF Slashing
<1>8. Bonds' = Bonds + (y - z)
  BY <1>1, <1>4, <1>6, <1>7, BondMovesBy
<1>9. PICK o \in Int, o2 \in Int : o = Owed(acct[j]) /\ o2 = Owed(b)
  BY <1>1, OwedInt
<1>10. PICK n \in Int, d \in Int, s \in Int : n = Net(bank) /\ d = Debts /\ s = Bonds
  BY <1>1, SidesInt
<1>11. n = d + s
  BY <1>10 DEF Backed, Balanced
<1>12. z - y = amt
  BY <1>4, <1>5, <1>6
<1>13. Net(bank') = n + (o2 - o) - amt /\ Debts' = d + (o2 - o) /\ Bonds' = s + (y - z)
  BY <1>3, <1>8, <1>9, <1>10 DEF Slashing
<1>14. n + (o2 - o) - amt = (d + (o2 - o)) + (s + (y - z))
  BY <1>11, <1>12
<1>15. Balanced'
  <2>1. Net(bank)' = Net(bank')
    BY DEF Net
  <2> QED BY <1>13, <1>14, <2>1 DEF Balanced
<1>16. \A k \in Miners : NoStake(k)'
  <2>1. SameRegistry
    BY <1>1, SlashKeepsRegistry DEF Slashing
  <2>2. \A k \in Miners \ {m} : NoStake(k)'
    BY <1>7, <2>1 DEF Backed, NoStake, SameRegistry
  <2>3. NoStake(m)'
    <3>1. ~miner[m].reg => amt = 0 /\ z = 0
      BY <1>2, <1>4 DEF Slashing, SlashAmount, Registered, Backed, NoStake
    <3> QED BY <1>6, <1>12, <2>1, <3>1 DEF SameRegistry, NoStake
  <2> QED BY <2>2, <2>3
<1>17. SameBonds
  BY <1>1, OneAccount DEF Slashing
<1> QED BY <1>15, <1>16, <1>17, NoBondKept DEF Backed, Slashing

-----------------------------------------------------------------------------
(* Registry and markers through the building blocks.                        *)
LEMMA StakesOnRelease ==
  ASSUME IInv, NEW j \in Jobs, NEW b, Release(j, b)
  PROVE  SameStakes
BY DEF IInv, MinerRecord, Release, SameStakes, Registered

LEMMA StakesOnReversal ==
  ASSUME IInv, NEW j \in Jobs, miner' = DemandReversed(j)
  PROVE  SameStakes
BY DEF IInv, MinerRecord, DemandReversed, SameStakes, Registered

LEMMA ClosingGrows ==
  ASSUME IInv, NEW j \in Jobs, NEW marks, NEW by, NEW against, Close(j, marks, by, against)
  PROVE  Grows
BY ClosedRecord DEF Grows

LEMMA BankAny == ASSUME IInv PROVE bank \in AnyBank
BY DEF IInv, BankRecord, AnyBank

LEMMA BookedBank ==
  ASSUME IInv, NEW a \in Account, NEW b \in Account
  PROVE  Book(bank, a, b) \in AnyBank
<1>1. PICK l \in Int, t \in Int, m \in Int :
        /\ l = bank.bal - (Spent(b) - Spent(a))
        /\ t = bank.treasury + (b.toTreasury - a.toTreasury) + (b.bondForfeit - a.bondForfeit)
        /\ m = bank.team + (b.toTeamPool - a.toTeamPool)
  BY DEF IInv, BankRecord, Account, Spent
<1>2. Book(bank, a, b) = [bank EXCEPT !.bal = l, !.treasury = t, !.team = m]
  BY <1>1 DEF Book
<1> QED BY <1>2, BankAny DEF AnyBank

(* A release that settles the bond settles.                                 *)
LEMMA ReleaseSettles ==
  ASSUME Safe, NEW j \in Jobs, NEW b, Release(j, b), Paying(acct[j], b),
         b.bondIn = acct[j].bondIn, Grows
  PROVE  Settling(j, b)
<1>1. IInv
  BY DEF Safe
<1>2. SameStakes /\ bank \in AnyBank
  BY <1>1, StakesOnRelease, BankAny
<1>3. acct' = [acct EXCEPT ![j] = b] /\ bank' = Book(bank, acct[j], b)
  BY DEF Release
<1> QED BY <1>2, <1>3 DEF Settling, Paying, Onward

(* A release that settles the bond leaves what was posted.                  *)
LEMMA ReleasedBondIn ==
  ASSUME Safe, NEW j \in Jobs, NEW no, NEW b,
         \/ b = refundDisputeBond(Released(j, no), no)
         \/ b = forfeitBond(Released(j, no))
         \/ b = [Released(j, no) EXCEPT
                   !.bondForfeit = Released(j, no).bondForfeit + Released(j, no).bond]
  PROVE  b.bondIn = acct[j].bondIn
<1>1. PICK c : c = Released(j, no)
  OBVIOUS
<1>2. Paying(acct[j], c) /\ SameBond(acct[j], c)
  BY <1>1, ReleasedAlone
<1>3. c \in Account /\ FeeConserved(c)
  BY <1>2 DEF Paying, Onward
<1>4. BondSettled(c, b)
  BY <1>1, <1>3, BondMoves
<1> QED BY <1>2, <1>4 DEF BondSettled, SameBond

(* Closed in the miner's favour.                                            *)
LEMMA ReleasedBacked ==
  ASSUME Backed, Safe', NEW j \in Jobs, ~resolved(j), NEW no, NEW b, Release(j, b), Grows,
         \/ b = refundDisputeBond(Released(j, no), no)
         \/ b = forfeitBond(Released(j, no))
         \/ b = [Released(j, no) EXCEPT
                   !.bondForfeit = Released(j, no).bondForfeit + Released(j, no).bond]
  PROVE  Backed'
<1>1. Paying(acct[j], b)
  BY ReleasedAccount DEF Backed
<1>2. b.bondIn = acct[j].bondIn
  BY ReleasedBondIn DEF Backed
<1>3. Settling(j, b)
  BY <1>1, <1>2, ReleaseSettles DEF Backed
<1> QED BY <1>3, SettlingBacked

(* Released with the bond left alone.                                       *)
LEMMA ReleasedAloneBacked ==
  ASSUME Backed, Safe', NEW j \in Jobs, NEW no, Release(j, Released(j, no)), Grows
  PROVE  Backed'
<1>1. PICK b : b = Released(j, no)
  OBVIOUS
<1>2. Paying(acct[j], b) /\ SameBond(acct[j], b)
  BY <1>1, ReleasedAlone DEF Backed
<1>3. Settling(j, b)
  BY <1>1, <1>2, ReleaseSettles DEF Backed, SameBond
<1> QED BY <1>3, SettlingBacked

(* Refunds of an unresolved job.                                            *)
LEMMA RefundSettles ==
  ASSUME IInv, NEW j \in Jobs, NEW no, NEW c, c = refundRetained(acct[j], no), NEW b,
         \/ b = refundDisputeBond(c, no)
         \/ b = [c EXCEPT !.bondBack = c.bondBack + c.bond]
  PROVE  /\ b \in Account /\ FeeConserved(b) /\ b.fee = acct[j].fee
         /\ b.bondIn = acct[j].bondIn /\ b.comp = acct[j].comp
<1>1. acct[j] \in Account /\ FeeConserved(acct[j])
  BY AccountOf
<1>2. Refunding(acct[j], c) /\ SameBond(acct[j], c) /\ c.comp = acct[j].comp
  BY <1>1, RefundStrips
<1>3. c \in Account /\ FeeConserved(c) /\ c.fee = acct[j].fee
  BY <1>2 DEF Refunding, Onward
<1>4. Onward(c, b) /\ BondSettled(c, b) /\ ButBond(b, c)
  BY <1>3, BondMoves
<1> QED BY <1>2, <1>3, <1>4 DEF Onward, BondSettled, ButBond, SameBond

-----------------------------------------------------------------------------
(* Transactions.                                                            *)

(* The whole fee comes in: nothing was owed on a job not yet opened.        *)
LEMMA OpenJobBacked ==
  ASSUME Backed, Safe', NEW j \in Jobs, NEW fee \in Fees, OpenJob(j, fee)
  PROVE  Backed'
<1>1. IInv /\ fee \in Nat /\ acct[j] \in Account /\ FeeConserved(acct[j])
  BY BoundsAssumption, AccountOf DEF Backed, Safe
<1>2. PICK b : b = OpenAccount(fee)
  OBVIOUS
<1>3. acct' = [acct EXCEPT ![j] = b] /\ bank' = [bank EXCEPT !.bal = @ + fee] /\ miner' = miner
      /\ job[j].st = {}
  BY <1>2 DEF OpenJob
<1>4. b \in Account /\ Owed(b) = fee /\ b.bondIn = 0
  <2>1. b \in Account
    BY <1>1, <1>2, OpenAccountOK
  <2>2. b.bondIn = 0 /\ Owed(b) = fee
    BY <1>1, <1>2 DEF OpenAccount, EmptyAccount, Owed, retainedTotal
  <2> QED BY <2>1, <2>2
<1>5. Owed(acct[j]) = 0 /\ acct[j].bondIn = 0
  <2>1. ~paid(j) /\ ~resolved(j) /\ ~disputed(j) /\ ~jobEscrowReturned(job[j].st)
        /\ job[j].st # {"open"}
    BY <1>3 DEF paid, resolved, disputed, jobIsPaid, jobIsResolved, jobIsDisputed,
                jobEscrowReturned
  <2>2. acct[j].bondIn = 0
    BY <2>1 DEF Backed, NoBond
  <2>3. acct[j].bondBack = 0 /\ acct[j].bondForfeit = 0
    BY <2>1 DEF Backed, Safe, JobSafe, Unresolved, Undecided0
  <2>4. acct[j].escrow = 0
    BY <1>1, <2>1 DEF Backed, Safe, JobSafe, Ahead, Account
  <2>5. acct[j].escrow = acct[j].fee
    BY <1>1, <2>1 DEF IInv, Ledger, Unsettled, paid
  <2>6. /\ acct[j].held = 0 /\ acct[j].burn = 0 /\ acct[j].val = 0 /\ acct[j].team = 0
        /\ acct[j].treas = 0 /\ acct[j].stray = 0
    BY <1>1, <2>5, Untouched
  <2> QED BY <2>2, <2>3, <2>4, <2>6 DEF Owed, retainedTotal
<1>6. Debts' = Debts + (Owed(b) - Owed(acct[j]))
  BY <1>1, <1>3, <1>4, DebtMoves
<1>7. SameStakes
  BY <1>3 DEF SameStakes
<1>8. PICK n \in Int, d \in Int, s \in Int : n = Net(bank) /\ d = Debts /\ s = Bonds /\ n = d + s
  BY <1>1, SidesInt DEF Backed, Balanced
<1>9. Net(bank') = n + fee
  BY <1>1, <1>3, <1>8 DEF Net, IInv, BankRecord
<1>10. Balanced'
  <2>1. Net(bank)' = Net(bank')
    BY DEF Net
  <2>2. Debts' = d + fee /\ Bonds' = s
    BY <1>1, <1>4, <1>5, <1>6, <1>7, <1>8, BondsSame
  <2>3. n + fee = (d + fee) + s
    BY <1>1, <1>8
  <2> QED BY <1>9, <2>1, <2>2, <2>3 DEF Balanced
<1>11. SameBonds
  BY <1>1, <1>3, <1>4, <1>5, OneAccount
<1>12. Grows
  BY <1>1, <1>3 DEF OpenJob, Grows, IInv, JobRecord
<1> QED BY <1>7, <1>10, <1>11, <1>12, NoBondKept, NoStakeKept DEF Backed

(* The whole bond comes in: a disputer of the job is the first.             *)
LEMMA DisputeBacked ==
  ASSUME Backed, Safe', NEW j \in Jobs, NEW redo, DisputeVerdict(j, redo)
  PROVE  Backed'
<1>1. IInv /\ acct[j] \in Account
  BY AccountOf DEF Backed, Safe
<1>2. PICK bnd \in Nat : bnd = params.DisputeBond
  BY <1>1, ParamsOK DEF IInv, BlockOK, ParamsRecord
<1>3. PICK b : b = [acct[j] EXCEPT !.bond = bnd, !.bondIn = bnd]
  OBVIOUS
<1>4. /\ acct' = [acct EXCEPT ![j] = b] /\ bank' = [bank EXCEPT !.bal = @ + bnd]
      /\ miner' = miner /\ ~disputed(j)
  BY <1>1, <1>2, <1>3 DEF DisputeVerdict, disputed, IInv, Ledger
<1>5. acct[j].bondIn = 0
  BY <1>4 DEF Backed, NoBond
<1>6. b \in Account /\ b.bondIn = bnd /\ Owed(b) - Owed(acct[j]) = bnd
  <2>1. b \in Account /\ b.bondIn = bnd
    BY <1>1, <1>3 DEF Account
  <2>2. PICK r \in Int, x \in Int : r = Rest(acct[j]) /\ x = acct[j].bondBack + acct[j].bondForfeit
    BY <1>1 DEF Account, Rest, retainedTotal
  <2>3. Rest(b) = r /\ b.bondBack = acct[j].bondBack /\ b.bondForfeit = acct[j].bondForfeit
    BY <1>1, <1>3, <2>2 DEF Account, Rest, retainedTotal
  <2>4. PICK y \in Nat, z \in Nat : y = acct[j].bondBack /\ z = acct[j].bondForfeit
    BY <1>1 DEF Account
  <2>5. Owed(acct[j]) = r + (0 - y - z) /\ Owed(b) = r + (bnd - y - z)
    BY <1>1, <1>5, <2>1, <2>2, <2>3, <2>4 DEF Owed, Rest
  <2> QED BY <2>1, <2>2, <2>4, <2>5
<1>7. Debts' = Debts + (Owed(b) - Owed(acct[j]))
  BY <1>1, <1>4, <1>6, DebtMoves
<1>8. SameStakes
  BY <1>4 DEF SameStakes
<1>9. PICK n \in Int, d \in Int, s \in Int : n = Net(bank) /\ d = Debts /\ s = Bonds /\ n = d + s
  BY <1>1, SidesInt DEF Backed, Balanced
<1>10. Net(bank') = n + bnd
  BY <1>1, <1>4, <1>9 DEF Net, IInv, BankRecord
<1>11. Balanced'
  <2>1. Net(bank)' = Net(bank')
    BY DEF Net
  <2>2. Debts' = d + bnd /\ Bonds' = s
    BY <1>6, <1>7, <1>8, <1>9, BondsSame
  <2>3. n + bnd = (d + bnd) + s
    BY <1>9
  <2> QED BY <1>10, <2>1, <2>2, <2>3 DEF Balanced
<1>12. \A k \in Jobs : NoBond(k)'
  <2>1. disputed(j)'
    BY <1>1 DEF DisputeVerdict, disputed, jobIsDisputed, IInv, JobRecord
  <2>2. \A k \in Jobs \ {j} : acct'[k] = acct[k] /\ job'[k] = job[k]
    BY <1>1, <1>4 DEF DisputeVerdict, IInv, Ledger
  <2> QED BY <2>1, <2>2 DEF Backed, NoBond, disputed
<1> QED BY <1>8, <1>11, <1>12, NoStakeKept DEF Backed

LEMMA SettleBacked ==
  ASSUME Backed, Safe', NEW j \in Jobs, NEW no, settleOptimistic(j, no)
  PROVE  Backed'
<1>1. IInv /\ acct[j] \in Account /\ FeeConserved(acct[j])
  BY AccountOf DEF Backed, Safe
<1>2. PICK m : m = job[j].prim
  OBVIOUS
<1>3. PICK own : own = miner[m].self
  OBVIOUS
<1>4. PICK b : b = SettleAccount(acct[j], params, no, own, height)
  OBVIOUS
<1>5. /\ acct' = [acct EXCEPT ![j] = b] /\ bank' = Book(bank, acct[j], b)
      /\ miner' = [miner EXCEPT ![m].count = @ + 1]
      /\ job' = [job EXCEPT ![j].miner = m, ![j].st = @ \union {"paid", "optimistic"}]
  BY <1>2, <1>3, <1>4 DEF settleOptimistic
<1>6. m \in Miners /\ own \in BOOLEAN
  BY <1>1, <1>2, <1>3 DEF settleOptimistic, Registered, IInv, MinerRecord
<1>7. b \in Account /\ FeeConserved(b)
  <2>1. acct[j].escrow = acct[j].fee
    BY <1>1 DEF settleOptimistic, IInv, Ledger, Unsettled
  <2>2. BurnShare(params, acct[j].fee) + Cut(params, acct[j].fee) <= acct[j].fee
    BY DEF settleOptimistic
  <2>3. ValidRates(params) /\ height \in Nat
    BY <1>1, ParamsOK DEF IInv, BlockOK
  <2> QED BY <1>1, <1>4, <1>6, <2>1, <2>2, <2>3, SettleAccountOK
<1>8. b.fee = acct[j].fee /\ b.bondIn = acct[j].bondIn /\ b.comp = acct[j].comp
  BY <1>1, <1>4 DEF SettleAccount, Account
<1>9. SameStakes
  BY <1>1, <1>5, <1>6 DEF SameStakes, IInv, MinerRecord
<1>10. Grows
  BY <1>1, <1>5 DEF Grows, IInv, JobRecord
<1>11. Settling(j, b)
  BY <1>1, <1>5, <1>7, <1>8, <1>9, <1>10, BankAny DEF Settling
<1> QED BY <1>11, SettlingBacked

(* The authority upholds: the reward leaves the Treasury with its coins.    *)
LEMMA ResolveUpheldBacked ==
  ASSUME Backed, Safe', NEW j \in Jobs, NEW no, ResolveUpheld(j, no)
  PROVE  Backed'
<1>1. IInv /\ acct[j] \in Account
  BY AccountOf DEF Backed, Safe
<1>2. PICK c : c = refundRetained(acct[j], no)
  OBVIOUS
<1>3. PICK b : b = [c EXCEPT !.bondBack = c.bondBack + c.bond]
  OBVIOUS
<1>4. PICK k : k = PayDisputer(bank, j)
  OBVIOUS
<1>5. /\ acct' = [acct EXCEPT ![j] = b] /\ bank' = Book(k, acct[j], b)
      /\ miner' = DemandReversed(j) /\ Close(j, {}, "authority", TRUE)
  BY <1>2, <1>3, <1>4 DEF ResolveUpheld
<1>6. k \in AnyBank /\ Net(k) = Net(bank)
  <2>1. PICK w \in Int : w = Reward(j)
    BY <1>1 DEF Reward, MinOf, Account, IInv, BankRecord
  <2>2. k = [bank EXCEPT !.bal = bank.bal - w, !.treasury = bank.treasury - w]
    BY <1>4, <2>1 DEF PayDisputer
  <2>3. bank \in AnyBank
    BY <1>1, BankAny
  <2>4. k \in AnyBank
    <3>1. PICK l \in Int, t \in Int : l = bank.bal - w /\ t = bank.treasury - w
      BY <2>3 DEF AnyBank
    <3>2. k = [bank EXCEPT !.bal = l, !.treasury = t]
      BY <2>2, <3>1
    <3> QED BY <2>3, <3>2 DEF AnyBank
  <2>5. k.bal = bank.bal - w /\ k.treasury = bank.treasury - w /\ k.team = bank.team
    BY <2>2, <2>3 DEF AnyBank
  <2>6. Net(k) = Net(bank)
    BY <2>3, <2>5 DEF Net, AnyBank
  <2> QED BY <2>4, <2>6
<1>7. Settling(j, b)
  <2>1. /\ b \in Account /\ FeeConserved(b) /\ b.fee = acct[j].fee
        /\ b.bondIn = acct[j].bondIn /\ b.comp = acct[j].comp
    <3>1. b = refundDisputeBond(c, no) \/ b = [c EXCEPT !.bondBack = c.bondBack + c.bond]
      BY <1>3, Zenon
    <3> QED BY <1>1, <1>2, <3>1, RefundSettles
  <2>2. SameStakes /\ Grows
    BY <1>1, <1>5, StakesOnReversal, ClosingGrows
  <2> QED BY <1>5, <1>6, <2>1, <2>2 DEF Settling
<1> QED BY <1>7, SettlingBacked

(* Decided for the miner.                                                   *)
LEMMA AcquittedBacked ==
  ASSUME Backed, Safe', NEW j \in Jobs, NEW no, ResolveRejected(j, no) \/ AdjudicateHonest(j, no)
  PROVE  Backed'
<1>1. ~resolved(j)
  BY DEF ResolveRejected, AdjudicateHonest, Admissible, OpenDispute, resolved
<1>2. PICK b, marks, by :
        /\ Release(j, b) /\ Close(j, marks, by, FALSE)
        /\ \/ b = forfeitBond(Released(j, no))
           \/ b = [Released(j, no) EXCEPT
                     !.bondForfeit = Released(j, no).bondForfeit + Released(j, no).bond]
  BY DEF ResolveRejected, AdjudicateHonest
<1>3. Grows
  BY <1>2, ClosingGrows DEF Backed, Safe
<1> QED BY <1>1, <1>2, <1>3, ReleasedBacked

(* Both slashes: the account after the compensation, the bond then returned.*)
LEMMA SlashedAccounts ==
  ASSUME IInv, NEW j \in Jobs, NEW amt \in Nat, NEW no, NEW c, NEW b,
         c = SlashedAccount(acct[j], amt, no) \/ c = AdjudicatedAccount(acct[j], amt, no),
         OpenDispute(j), Safe,
         \/ b = refundDisputeBond(c, no)
         \/ b = [c EXCEPT !.bondBack = c.bondBack + c.bond, !.bond = 0]
  PROVE  /\ b \in Account /\ FeeConserved(b) /\ b.fee = acct[j].fee
         /\ b.bondIn = acct[j].bondIn /\ b.comp = c.comp
         /\ c.comp \in Nat /\ acct[j].comp \in Nat
<1>1. /\ acct[j] \in Account /\ FeeConserved(acct[j])
      /\ Undecided0(acct[j]) /\ acct[j].toClient = 0
  BY OpenDisputeFacts
<1>2. Refunding(acct[j], c) /\ SameBond(acct[j], c)
  BY <1>1, CompensatedAccount
<1>3. c \in Account /\ FeeConserved(c) /\ c.fee = acct[j].fee
  BY <1>2 DEF Refunding, Onward
<1>4. Onward(c, b) /\ BondSettled(c, b) /\ ButBond(b, c)
  BY <1>3, BondMoves
<1>5. c.comp \in Nat /\ acct[j].comp \in Nat
  BY <1>1, <1>3 DEF Account
<1> QED BY <1>2, <1>3, <1>4, <1>5 DEF Onward, BondSettled, ButBond, SameBond

(* The coins: the slash enters the Treasury but for the compensation, and   *)
(* the reward leaves it.                                                    *)
LEMMA SlashBank ==
  ASSUME IInv, NEW j \in Jobs, NEW b \in Account, FeeConserved(b), b.fee = acct[j].fee,
         b.bondIn = acct[j].bondIn, NEW amt \in Int, NEW rew \in Int, NEW tre \in Int,
         tre = bank.treasury + (amt - (b.comp - acct[j].comp)), NEW k \in AnyBank,
         k.bal = bank.bal - rew, k.treasury = tre - rew, k.team = bank.team
  PROVE  Net(Book(k, acct[j], b)) = Net(bank) + (Owed(b) - Owed(acct[j])) - amt
<1>1. acct[j] \in Account /\ FeeConserved(acct[j])
  BY AccountOf
<1>2. Net(Book(k, acct[j], b)) = Net(k) + (Owed(b) - Owed(acct[j])) - (b.comp - acct[j].comp)
  BY <1>1, BookMoves
<1>3. PICK x \in Int : x = b.comp - acct[j].comp
  BY <1>1 DEF Account
<1>4. PICK bal \in Int, t \in Int, m \in Int :
        bal = bank.bal /\ t = bank.treasury /\ m = bank.team
  BY DEF IInv, BankRecord
<1>5. Net(k) = (bal - rew) - (t + (amt - x) - rew) - m
  BY <1>3, <1>4 DEF Net
<1>6. Net(bank) = bal - t - m
  BY <1>4 DEF Net
<1>7. PICK o \in Int, o2 \in Int : o = Owed(acct[j]) /\ o2 = Owed(b)
  BY <1>1, OwedInt
<1>8. ((bal - rew) - (t + (amt - x) - rew) - m) + (o2 - o) - x = (bal - t - m) + (o2 - o) - amt
  OBVIOUS
<1> QED BY <1>2, <1>3, <1>5, <1>6, <1>7, <1>8

LEMMA AdjudicateCheatedBacked ==
  ASSUME Backed, Safe', NEW j \in Jobs, NEW no, AdjudicateCheated(j, no)
  PROVE  Backed'
<1>1. IInv /\ Safe /\ OpenDispute(j) /\ paid(j)
  BY OpenDisputeFacts DEF AdjudicateCheated, Admissible, Backed, Safe
<1>2. PICK amt \in Nat : amt = SlashAmount(j)
  BY <1>1, SlashAmountOK
<1>3. PICK c : c = AdjudicatedAccount(acct[j], amt, no)
  OBVIOUS
<1>4. PICK b : b = [c EXCEPT !.bondBack = c.bondBack + c.bond, !.bond = 0]
  OBVIOUS
<1>5. /\ b \in Account /\ FeeConserved(b) /\ b.fee = acct[j].fee
      /\ b.bondIn = acct[j].bondIn /\ b.comp = c.comp
      /\ c.comp \in Nat /\ acct[j].comp \in Nat
  <2>1. c = SlashedAccount(acct[j], amt, no) \/ c = AdjudicatedAccount(acct[j], amt, no)
    BY <1>3, Zenon
  <2>2. \/ b = refundDisputeBond(c, no)
        \/ b = [c EXCEPT !.bondBack = c.bondBack + c.bond, !.bond = 0]
    BY <1>4, Zenon
  <2> QED BY <1>1, <2>1, <2>2, SlashedAccounts
<1>6. PICK k \in Int : k = bank.treasury + (amt - (c.comp - acct[j].comp))
  BY <1>1, <1>5 DEF IInv, BankRecord
<1>7. PICK rew \in Int : rew = MinOf(acct[j].bond, k)
  BY <1>1, AccountOf DEF MinOf, Account
<1>8. PICK u : u = [bank EXCEPT !.bal = bank.bal - rew, !.treasury = k - rew]
  OBVIOUS
<1>9. u \in AnyBank
  <2>1. bank \in AnyBank
    BY <1>1, BankAny
  <2>2. PICK l \in Int, t \in Int : l = bank.bal - rew /\ t = k - rew
    BY <2>1 DEF AnyBank
  <2>3. u = [bank EXCEPT !.bal = l, !.treasury = t]
    BY <1>8, <2>2
  <2> QED BY <2>1, <2>3 DEF AnyBank
<1>10. PICK by : /\ acct' = [acct EXCEPT ![j] = b] /\ bank' = Book(u, acct[j], b)
                /\ miner' = TakeStake(DemandReversed(j), j, amt)
                /\ Close(j, {"adjudicated"}, by, TRUE)
  BY <1>2, <1>3, <1>4, <1>6, <1>7, <1>8 DEF AdjudicateCheated
<1>11. u.bal = bank.bal - rew /\ u.treasury = k - rew /\ u.team = bank.team
  BY <1>1, <1>8, BankAny DEF AnyBank
<1>12. k = bank.treasury + (amt - (b.comp - acct[j].comp))
  BY <1>5, <1>6, Zenon
<1>13. Net(bank') = Net(bank) + (Owed(b) - Owed(acct[j])) - amt
  <2>1. Net(Book(u, acct[j], b)) = Net(bank) + (Owed(b) - Owed(acct[j])) - amt
    BY <1>1, <1>5, <1>9, <1>11, <1>12, SlashBank
  <2> QED BY <1>10, <2>1
<1>14. Grows
  BY <1>1, <1>10, ClosingGrows
<1>15. Slashing(j, b, amt)
  BY <1>1, <1>2, <1>5, <1>10, <1>13, <1>14 DEF Slashing
<1> QED BY <1>15, SlashingBacked

(* The registry takes in a whole stake, and gives it back.                  *)
LEMMA StakeMoves ==
  ASSUME Backed, Safe', NEW m \in Miners, NEW s \in Int, miner'[m].stake = s,
         ~miner'[m].reg => s = 0,
         \A n \in Miners \ {m} : miner'[n] = miner[n],
         bank' = [bank EXCEPT !.bal = bank.bal + (s - miner[m].stake)],
         acct' = acct, Grows
  PROVE  Backed'
<1>1. IInv
  BY DEF Backed, Safe
<1>2. PICK z \in Int : z = miner[m].stake
  BY <1>1 DEF IInv, MinerRecord
<1>3. Bonds' = Bonds + (s - z)
  BY <1>1, <1>2, BondMovesBy
<1>4. Debts' = Debts
  BY <1>1, DebtSame
<1>5. PICK n \in Int, d \in Int, t \in Int : n = Net(bank) /\ d = Debts /\ t = Bonds /\ n = d + t
  BY <1>1, SidesInt DEF Backed, Balanced
<1>6. Net(bank') = n + (s - z)
  BY <1>1, <1>2, <1>5 DEF Net, IInv, BankRecord
<1>7. Balanced'
  <2>1. Net(bank)' = Net(bank')
    BY DEF Net
  <2> QED BY <1>3, <1>4, <1>5, <1>6, <2>1 DEF Balanced
<1>8. \A k \in Miners : NoStake(k)'
  BY DEF Backed, NoStake
<1>9. SameBonds
  BY DEF SameBonds
<1> QED BY <1>7, <1>8, <1>9, NoBondKept DEF Backed

LEMMA CreateMinerBacked ==
  ASSUME Backed, Safe', NEW m \in Miners, NEW s \in Stakes, NEW self, CreateMiner(m, s, self)
  PROVE  Backed'
<1>1. s \in Int /\ IInv
  BY BoundsAssumption DEF Backed, Safe
<1>2. miner[m].stake = 0
  BY DEF CreateMiner, Backed, NoStake
<1>3. miner'[m].stake = s /\ miner'[m].reg /\ \A n \in Miners \ {m} : miner'[n] = miner[n]
  BY <1>1 DEF CreateMiner, IInv
<1>4. bank' = [bank EXCEPT !.bal = bank.bal + (s - miner[m].stake)]
  BY <1>1, <1>2 DEF CreateMiner, IInv, BankRecord
<1>5. acct' = acct /\ Grows
  BY DEF CreateMiner, Grows
<1> QED BY <1>1, <1>3, <1>4, <1>5, StakeMoves

LEMMA LeaveBacked ==
  ASSUME Backed, Safe', NEW m \in Miners, Leave(m), acct' = acct
  PROVE  Backed'
<1>1. IInv
  BY DEF Backed, Safe
<1>2. miner'[m].stake = 0 /\ \A n \in Miners \ {m} : miner'[n] = miner[n]
  BY <1>1 DEF Leave, IInv, MinerRecord
<1>3. bank' = [bank EXCEPT !.bal = bank.bal + (0 - miner[m].stake)]
  <2>1. bank.bal \in Int /\ miner[m].stake \in Int
    BY <1>1 DEF IInv, BankRecord, MinerRecord
  <2>2. bank.bal + (0 - miner[m].stake) = bank.bal - miner[m].stake
    BY <2>1
  <2> QED BY <2>2 DEF Leave
<1>4. Grows
  BY <1>1 DEF Leave, Grows, IInv, JobRecord
<1> QED BY <1>2, <1>3, <1>4, StakeMoves

LEMMA QuietTx ==
  ASSUME Backed, Safe', bank' = bank, acct' = acct, job' = job, SameStakes
  PROVE  Backed'
<1>1. Quiet
  BY DEF Quiet, SameBonds, Grows
<1> QED BY <1>1, QuietBacked

LEMMA TxBacked == ASSUME Backed, Safe', Tx PROVE Backed'
<1>1. CASE \E j \in Jobs, fee \in Fees : OpenJob(j, fee)
  BY <1>1, OpenJobBacked
<1>2. CASE \E j \in Jobs, m \in Miners :
             \/ \E v \in {"vector", "garbage"} : CommitWork(j, m, v)
             \/ \E v \in {"valid", "invalid"}  : CommitVerdict(j, m, v)
             \/ \E v \in {"agree", "differ"}   : CommitRedo(j, m, v)
  <2>1. bank' = bank /\ acct' = acct /\ job' = job /\ miner' = miner
    BY <1>2 DEF CommitWork, CommitVerdict, CommitRedo
  <2> QED BY <2>1, QuietTx DEF SameStakes
<1>3. CASE \E j \in Jobs, redo \in SUBSET Miners : DisputeVerdict(j, redo)
  BY <1>3, DisputeBacked
<1>4. CASE \E j \in Jobs, no \in SUBSET Refusable :
             ResolveRejected(j, no) \/ AdjudicateHonest(j, no)
  BY <1>4, AcquittedBacked
<1>5. CASE \E j \in Jobs, no \in SUBSET Refusable : ResolveUpheld(j, no)
  BY <1>5, ResolveUpheldBacked
<1>6. CASE \E j \in Jobs, no \in SUBSET Refusable : AdjudicateCheated(j, no)
  BY <1>6, AdjudicateCheatedBacked
<1>7. CASE \E j \in Jobs, no \in SUBSET Refusable : settleOptimistic(j, no)
  BY <1>7, SettleBacked
<1>8. CASE \E m \in Leavers, self \in BOOLEAN : UpdateMiner(m, self)
  <2>1. bank' = bank /\ acct' = acct /\ job' = job
    BY <1>8 DEF UpdateMiner
  <2>2. SameStakes
    BY <1>8 DEF UpdateMiner, SameStakes, Backed, Safe, IInv, MinerRecord
  <2> QED BY <2>1, <2>2, QuietTx
<1>9. CASE \E m \in Leavers, self \in BOOLEAN, s \in Stakes : CreateMiner(m, s, self)
  BY <1>9, CreateMinerBacked, BoundsAssumption
<1>10. CASE \E m \in Leavers, live \in BOOLEAN : DeleteMiner(m, live)
  <2>1. PICK m \in Miners : Leave(m) /\ acct' = acct
    BY <1>10, BoundsAssumption DEF DeleteMiner
  <2> QED BY <2>1, LeaveBacked
<1>11. CASE \E p \in ParamSets : UpdateParams(p)
  <2>1. bank' = bank /\ acct' = acct /\ job' = job /\ miner' = miner
    BY <1>11 DEF UpdateParams
  <2> QED BY <2>1, QuietTx DEF SameStakes
<1> QED BY <1>1, <1>2, <1>3, <1>4, <1>5, <1>6, <1>7, <1>8, <1>9, <1>10, <1>11 DEF Tx

-----------------------------------------------------------------------------
(* The EndBlocker.                                                          *)
LEMMA QuietEntry ==
  ASSUME Backed, Safe', bank' = bank, acct' = acct, SameStakes, Grows
  PROVE  Backed'
<1>1. Quiet
  BY DEF Quiet, SameBonds
<1> QED BY <1>1, QuietBacked

(* Deferrals, draws and stale appointments move no coin.                    *)
LEMMA DeferredBacked ==
  ASSUME Backed, Safe', NEW e \in todo,
         \/ ExpireMoved(e) \/ RevealDeferred(e) \/ AuditDrop(e) \/ AuditNoSeedDefer(e)
         \/ ResolveStale(e) \/ ResolveDefer(e) \/ \E no : ExpireLater(e, no)
  PROVE  Backed'
<1>1. UNCHANGED <<job, acct, miner, bank>>
  BY DEF ExpireMoved, RevealDeferred, AuditDrop, AuditNoSeedDefer, ResolveStale, ResolveDefer,
         ExpireLater
<1> QED BY <1>1, QuietTx DEF SameStakes

LEMMA RevealBacked ==
  ASSUME Backed, Safe', NEW e \in todo, NEW com, NEW prim, Reveal(e, com, prim)
  PROVE  Backed'
<1>1. bank' = bank /\ acct' = acct /\ SameStakes
  BY DEF Reveal, SameStakes
<1>2. PICK j \in Jobs : j = e[2]
  BY EntryOK DEF Reveal, Backed, Safe
<1>3. Grows
  BY <1>2 DEF Reveal, Grows, Backed, Safe, IInv, JobRecord
<1> QED BY <1>1, <1>3, QuietEntry

LEMMA SmallJuryBacked ==
  ASSUME Backed, Safe', NEW e \in todo, NEW jury, AuditSmallJury(e, jury)
  PROVE  Backed'
<1>1. bank' = bank /\ acct' = acct /\ SameStakes
  BY DEF AuditSmallJury, SameStakes
<1>2. PICK j \in Jobs : j = e[2]
  BY EntryOK DEF AuditSmallJury, AuditDrawn, AuditDue, Backed, Safe
<1>3. Grows
  BY <1>2 DEF AuditSmallJury, Grows, Backed, Safe, IInv, JobRecord
<1> QED BY <1>1, <1>3, QuietEntry

(* A new dispute of the lottery writes no bond over the one posted: what    *)
(* is owed of a bond is counted from what came in and went out.             *)
LEMMA SelectBacked ==
  ASSUME Backed, Safe', NEW e \in todo, NEW jury, AuditSelect(e, jury)
  PROVE  Backed'
<1>1. IInv
  BY DEF Backed, Safe
<1>2. PICK j \in Jobs : j = e[2]
  BY <1>1, EntryOK DEF AuditSelect, AuditDrawn, AuditDue
<1>3. PICK bnd : acct' = [acct EXCEPT ![j].bond = bnd]
  BY <1>2 DEF AuditSelect
<1>4. \A k \in Jobs : Owed(acct'[k]) = Owed(acct[k]) /\ acct'[k].bondIn = acct[k].bondIn
  <2>1. \A k \in Jobs \ {j} : acct'[k] = acct[k]
    BY <1>1, <1>3 DEF IInv, Ledger
  <2>2. acct'[j] = [acct[j] EXCEPT !.bond = bnd] /\ acct[j] \in Account
    BY <1>1, <1>3, AccountOf DEF IInv, Ledger
  <2>3. Owed(acct'[j]) = Owed(acct[j]) /\ acct'[j].bondIn = acct[j].bondIn
    BY <2>2 DEF Owed, retainedTotal, Account
  <2> QED BY <2>1, <2>3
<1>5. Grows
  BY <1>1, <1>2 DEF AuditSelect, Grows, IInv, JobRecord
<1>6. bank' = bank /\ SameStakes
  BY DEF AuditSelect, SameStakes
<1>7. Quiet
  BY <1>4, <1>5, <1>6 DEF Quiet, SameBonds
<1> QED BY <1>7, QuietBacked

LEMMA ExpireRefundBacked ==
  ASSUME Backed, Safe', NEW e \in todo, NEW no, ExpireRefund(e, no)
  PROVE  Backed'
<1>1. IInv
  BY DEF Backed, Safe
<1>2. PICK j \in Jobs : j = e[2]
  BY <1>1, EntryOK DEF ExpireRefund
<1>3. PICK b : b = ExpireAccount(acct[j])
  OBVIOUS
<1>4. acct' = [acct EXCEPT ![j] = b] /\ bank' = Book(bank, acct[j], b) /\ miner' = miner
  BY <1>2, <1>3 DEF ExpireRefund
<1>5. b \in Account /\ FeeConserved(b)
  BY <1>1, <1>3, AccountOf, ExpireAccountOK
<1>6. b.fee = acct[j].fee /\ b.bondIn = acct[j].bondIn /\ b.comp = acct[j].comp
  BY <1>1, <1>3, AccountOf DEF ExpireAccount, Account
<1>7. Grows
  BY <1>1, <1>2 DEF ExpireRefund, Grows, IInv, JobRecord
<1>8. Settling(j, b)
  BY <1>1, <1>4, <1>5, <1>6, <1>7, BankAny DEF Settling, SameStakes
<1> QED BY <1>8, SettlingBacked

LEMMA PassBacked ==
  ASSUME Backed, Safe', NEW e \in todo, NEW no, AuditPass(e, no)
  PROVE  Backed'
<1>1. IInv
  BY DEF Backed, Safe
<1>2. PICK j \in Jobs : j = e[2]
  BY <1>1, EntryOK DEF AuditPass, AuditDue
<1>3. Release(j, Released(j, no))
  BY <1>2 DEF AuditPass
<1>4. Grows
  BY <1>1, <1>2 DEF AuditPass, Grows, IInv, JobRecord
<1> QED BY <1>3, <1>4, ReleasedAloneBacked

LEMMA RetryBacked ==
  ASSUME Backed, Safe', NEW e \in todo, NEW no, RetryRelease(e, no)
  PROVE  Backed'
<1>1. PICK j \in Jobs : j = e[2]
  BY EntryOK DEF RetryRelease, Backed, Safe
<1>2. Release(j, Released(j, no)) /\ Grows
  BY <1>1 DEF RetryRelease, Grows
<1> QED BY <1>2, ReleasedAloneBacked

LEMMA ClosedForMinerBacked ==
  ASSUME Backed, Safe', NEW e \in todo, NEW no,
         ResolveSilent(e, no) \/ ResolveUnfounded(e, no) \/ ResolveVindicate(e, no)
  PROVE  Backed'
<1>1. ResolveDue(e)
  BY DEF ResolveSilent, ResolveUnfounded, ResolveVindicate, Judged
<1>2. PICK j \in Jobs : j = e[2]
  BY <1>1, EntryOK DEF Backed, Safe, ResolveDue
<1>3. ~resolved(j)
  BY <1>1, <1>2 DEF ResolveDue, OpenDispute, resolved
<1>4. PICK b, marks, by :
        /\ Release(j, b) /\ Close(j, marks, by, FALSE)
        /\ b = refundDisputeBond(Released(j, no), no) \/ b = forfeitBond(Released(j, no))
  BY <1>2 DEF ResolveSilent, ResolveUnfounded, ResolveVindicate
<1>5. Grows
  BY <1>4, ClosingGrows DEF Backed, Safe
<1> QED BY <1>3, <1>4, <1>5, ReleasedBacked

LEMMA UnwindBacked ==
  ASSUME Backed, Safe', NEW j \in Jobs, NEW no, NEW d, Unwind(j, no, d)
  PROVE  Backed'
<1>1. IInv
  BY DEF Backed, Safe
<1>2. PICK c : c = refundRetained(acct[j], no)
  OBVIOUS
<1>3. PICK b : b = refundDisputeBond(c, no)
  OBVIOUS
<1>4. /\ acct' = [acct EXCEPT ![j] = b] /\ bank' = Book(bank, acct[j], b)
      /\ miner' = DemandReversed(j)
  BY <1>2, <1>3 DEF Unwind
<1>5. /\ b \in Account /\ FeeConserved(b) /\ b.fee = acct[j].fee
      /\ b.bondIn = acct[j].bondIn /\ b.comp = acct[j].comp
  <2>1. b = refundDisputeBond(c, no) \/ b = [c EXCEPT !.bondBack = c.bondBack + c.bond]
    BY <1>3, Zenon
  <2> QED BY <1>1, <1>2, <2>1, RefundSettles
<1>6. SameStakes
  BY <1>1, <1>4, StakesOnReversal
<1>7. Grows
  BY <1>1 DEF Unwind, Grows, IInv, JobRecord
<1>8. Settling(j, b)
  BY <1>1, <1>4, <1>5, <1>6, <1>7, BankAny DEF Settling
<1> QED BY <1>8, SettlingBacked

LEMMA UnwindsBacked ==
  ASSUME Backed, Safe', NEW e \in todo, NEW no,
         \/ AuditNoSeedUnwind(e, no)
         \/ \E jury \in SUBSET Miners : AuditSmallJuryUnwind(e, jury, no)
         \/ ResolveUnwind(e, no)
  PROVE  Backed'
<1>1. PICK d : Unwind(e[2], no, d)
  BY DEF AuditNoSeedUnwind, AuditSmallJuryUnwind, ResolveUnwind
<1>2. phase # "prune"
  BY DEF AuditNoSeedUnwind, AuditSmallJuryUnwind, ResolveUnwind, AuditDrawn, AuditDue, Undecided,
         Judged, ResolveDue
<1>3. e[2] \in Jobs
  BY <1>2, EntryOK DEF Backed, Safe
<1> QED BY <1>1, <1>3, UnwindBacked

LEMMA SlashBacked ==
  ASSUME Backed, Safe', NEW e \in todo, NEW no, ResolveSlash(e, no)
  PROVE  Backed'
<1>1. IInv /\ Safe
  BY DEF Backed, Safe
<1>2. ResolveDue(e)
  BY DEF ResolveSlash, Judged
<1>3. PICK j \in Jobs : j = e[2]
  BY <1>1, <1>2, EntryOK DEF ResolveDue
<1>4. OpenDispute(j) /\ paid(j)
  BY <1>1, <1>2, <1>3, OpenDisputeFacts DEF ResolveDue
<1>5. PICK amt \in Nat : amt = SlashAmount(j)
  BY <1>1, SlashAmountOK
<1>6. PICK c : c = SlashedAccount(acct[j], amt, no)
  OBVIOUS
<1>7. PICK b : b = refundDisputeBond(c, no)
  OBVIOUS
<1>8. /\ b \in Account /\ FeeConserved(b) /\ b.fee = acct[j].fee
      /\ b.bondIn = acct[j].bondIn /\ b.comp = c.comp
      /\ c.comp \in Nat /\ acct[j].comp \in Nat
  <2>1. c = SlashedAccount(acct[j], amt, no) \/ c = AdjudicatedAccount(acct[j], amt, no)
    BY <1>6, Zenon
  <2>2. \/ b = refundDisputeBond(c, no)
        \/ b = [c EXCEPT !.bondBack = c.bondBack + c.bond, !.bond = 0]
    BY <1>7, Zenon
  <2> QED BY <1>1, <1>4, <2>1, <2>2, SlashedAccounts
<1>9. PICK k : k = Book(bank, acct[j], b)
  OBVIOUS
<1>10. /\ acct' = [acct EXCEPT ![j] = b]
      /\ bank' = [k EXCEPT !.treasury = @ + (amt - (c.comp - acct[j].comp))]
      /\ miner' = TakeStake(DemandReversed(j), j, amt)
      /\ Close(j, {"clawed", "quorum"}, "jury", TRUE)
  BY <1>3, <1>5, <1>6, <1>7, <1>9 DEF ResolveSlash
<1>11. PICK x \in Int : x = b.comp - acct[j].comp /\ x = c.comp - acct[j].comp
  BY <1>8
<1>12. Net(k) = Net(bank) + (Owed(b) - Owed(acct[j])) - x
  BY <1>1, <1>8, <1>9, <1>11, AccountOf, BankAny, BookMoves
<1>13. k \in AnyBank
  BY <1>1, <1>8, <1>9, AccountOf, BookedBank
<1>14. PICK kb \in Int, kt \in Int, km \in Int : kb = k.bal /\ kt = k.treasury /\ km = k.team
  BY <1>13 DEF AnyBank
<1>15. Net(bank') = kb - (kt + (amt - x)) - km /\ Net(k) = kb - kt - km
  BY <1>10, <1>11, <1>13, <1>14 DEF Net, AnyBank
<1>16. PICK n \in Int, o \in Int, o2 \in Int :
         n = Net(bank) /\ o = Owed(acct[j]) /\ o2 = Owed(b)
  BY <1>1, <1>8, SidesInt, AccountOf, OwedInt
<1>17. Net(bank') = Net(bank) + (Owed(b) - Owed(acct[j])) - amt
  BY <1>12, <1>15, <1>16
<1>18. Grows
  BY <1>1, <1>10, ClosingGrows
<1>19. Slashing(j, b, amt)
  BY <1>4, <1>5, <1>8, <1>10, <1>17, <1>18 DEF Slashing
<1> QED BY <1>19, SlashingBacked

(* A refused eviction moves nothing; the other returns a whole stake.       *)
LEMMA PruneBacked ==
  ASSUME Backed, Safe', NEW e \in todo, NEW no, PruneMiner(e, no)
  PROVE  Backed'
<1>1. e[2] \in Miners /\ acct' = acct
  BY EntryOK DEF PruneMiner, Backed, Safe
<1>2. CASE "owner" \in no
  BY <1>1, <1>2, QuietEntry DEF PruneMiner, SameStakes, Grows
<1>3. CASE "owner" \notin no
  BY <1>1, <1>3, LeaveBacked DEF PruneMiner
<1> QED BY <1>2, <1>3

LEMMA ServeEntryBacked == ASSUME Backed, Safe', NEW e \in todo, ServeEntry(e) PROVE Backed'
<1>1. CASE \/ ExpireMoved(e) \/ RevealDeferred(e) \/ AuditDrop(e) \/ AuditNoSeedDefer(e)
           \/ ResolveStale(e) \/ ResolveDefer(e) \/ \E no \in SUBSET Refusable : ExpireLater(e, no)
  BY <1>1, DeferredBacked
<1>2. CASE \E com \in SUBSET Miners, prim \in Miners \union {NoMiner} : Reveal(e, com, prim)
  BY <1>2, RevealBacked
<1>3. CASE \E jury \in SUBSET Miners : AuditSelect(e, jury) \/ AuditSmallJury(e, jury)
  BY <1>3, SelectBacked, SmallJuryBacked
<1>4. CASE \E no \in SUBSET Refusable :
             ExpireRefund(e, no) \/ AuditPass(e, no) \/ RetryRelease(e, no) \/ PruneMiner(e, no)
  BY <1>4, ExpireRefundBacked, PassBacked, RetryBacked, PruneBacked
<1>5. CASE \E no \in SUBSET Refusable :
             ResolveSilent(e, no) \/ ResolveUnfounded(e, no) \/ ResolveVindicate(e, no)
  BY <1>5, ClosedForMinerBacked
<1>6. CASE \E no \in SUBSET Refusable :
             \/ AuditNoSeedUnwind(e, no)
             \/ \E jury \in SUBSET Miners : AuditSmallJuryUnwind(e, jury, no)
             \/ ResolveUnwind(e, no)
  BY <1>6, UnwindsBacked
<1>7. CASE \E no \in SUBSET Refusable : ResolveSlash(e, no)
  BY <1>7, SlashBacked
<1> QED BY <1>1, <1>2, <1>3, <1>4, <1>5, <1>6, <1>7 DEF ServeEntry

-----------------------------------------------------------------------------
(* The chain starts balanced: no job, and the bonds of the genesis miners.  *)
LEMMA InitBacked == Init => Backed
<1> SUFFICES ASSUME Init PROVE Backed
  OBVIOUS
<1>1. Safe
  BY InitSafe
<1>2. \A j \in Jobs : acct[j] = EmptyAccount
  BY DEF Init
<1>3. Owed(EmptyAccount) = 0 /\ EmptyAccount.bondIn = 0
  BY DEF EmptyAccount, Owed, retainedTotal
<1>4. Debts = 0
  <2> DEFINE d == [j \in Jobs |-> Owed(acct[j])]
  <2>1. \A j \in Jobs : d[j] = 0
    BY <1>2, <1>3
  <2> HIDE DEF d
  <2>2. SumOf(d, Jobs) = 0
    BY <2>1, FinitenessAssumption, SumOfZero
  <2> QED BY <2>2 DEF Debts, d
<1>5. Bonds = InitialBalance /\ InitialBalance \in Nat
  <2>1. [m \in Miners |-> miner[m].stake] = [m \in Miners |-> InitialStake[m]]
    BY DEF Init
  <2> QED BY <2>1, InitialBalanceOK DEF Bonds
<1>6. Net(bank) = InitialBalance
  BY <1>5 DEF Init, Net
<1>7. Balanced
  BY <1>4, <1>5, <1>6 DEF Balanced
<1>8. \A j \in Jobs : NoBond(j)
  BY <1>2, <1>3 DEF NoBond
<1>9. \A m \in Miners : NoStake(m)
  BY DEF Init, NoStake
<1> QED BY <1>1, <1>7, <1>8, <1>9 DEF Backed

LEMMA StepBacked == Backed /\ [Next]_vars => Backed'
<1> SUFFICES ASSUME Backed, [Next]_vars PROVE Backed'
  OBVIOUS
<1>1. Safe'
  BY StepSafe DEF Backed
<1>2. CASE Tx
  BY <1>1, <1>2, TxBacked
<1>3. CASE \E e \in todo : ServeEntry(e)
  BY <1>1, <1>3, ServeEntryBacked
<1>4. CASE \E n \in Phases : EndPhase(n)
  BY <1>1, <1>4, QuietTx DEF EndPhase, SameStakes
<1>5. CASE NextBlock
  <2>1. bank' = bank /\ acct' = acct /\ job' = job
    BY <1>5 DEF NextBlock
  <2>2. SameStakes
    BY <1>5 DEF NextBlock, SameStakes, Backed, Safe, IInv, MinerRecord
  <2> QED BY <1>1, <2>1, <2>2, QuietTx
<1>6. CASE UNCHANGED vars
  BY <1>1, <1>6, QuietTx DEF vars, SameStakes
<1> QED BY <1>2, <1>3, <1>4, <1>5, <1>6 DEF Next, EndBlock, Horizon

(* At every step the balance of the module account of x/jobs is what the    *)
(* jobs still hold (escrows, retained shares, strays, open dispute bonds),  *)
(* plus the stakes of the registry, plus the two pools: settlement, release,*)
(* refund, expiry, slash, reward, bond and eviction each move the coins and *)
(* the entries that name them together.                                     *)
THEOREM BooksBalanced == Spec => []BooksBalance
<1>1. Backed => BooksBalance
  BY BalanceSaid DEF Backed, Safe
<1> QED BY <1>1, InitBacked, StepBacked, PTL DEF Spec

(* However few entries a block serves (auditMaxPerBlock may be 1), no       *)
(* retention loses its instance while it waits for its turn, and the books  *)
(* balance between any two of the entries.                                  *)
THEOREM BatchesSound == Spec => []FullBatchSound
<1>1. Backed => FullBatchSound
  BY BalanceSaid, SafeHasInstance DEF Backed, Safe, FullBatchSound
<1> QED BY <1>1, InitBacked, StepBacked, PTL DEF Spec

-----------------------------------------------------------------------------
(* How old a retention may grow.                                            *)

(* The three queues of an audit, and the load the bound supposes: what is   *)
(* due is served in the block it is due in.                                 *)
AuditQueues == {"audit", "resolve", "appeal"}

BatchesFit == \A n \in AuditQueues : Cardinality(Due(n)) <= auditMaxPerBlock

AlwaysUnwinds == \A p \in ParamSets : p.AuditUnwindBlocks > 0

(* No entry is behind the clock, and what its phase left is ahead of it.    *)
OnTime ==
  \A n \in AuditQueues : \A e \in q[n] :
    /\ e[1] >= height
    /\ Rank[phase] > Rank[n] \/ (phase = n /\ e \notin todo) => e[1] > height

(* A retention that waits has a draw ahead of it, booked before its unwind  *)
(* age; or, once disputed, a deadline within its bound.                     *)
Waiting(k) == acct[k].held > 0 /\ paid(k) /\ ~resolved(k) /\ ~passed(k)

DrawBy(k, t) ==
  \E p \in ParamSets : t - acct[k].since <= p.AuditUnwindBlocks - 1 + auditDeferStride

Within(k, t) == \E p, r \in ParamSets : t - acct[k].since <= MaxAge(p, r)

DrawAhead(k) == \E e \in q["audit"] : e[2] = k /\ DrawBy(k, e[1])

DeadlineAhead(k) ==
  /\ disputed(k)
  /\ \E n \in {"resolve", "appeal"} : \E e \in q[n] : e[2] = k /\ Within(k, e[1])

Dated(k) == acct[k].since > 0 /\ acct[k].since <= height

Timely(k) == Waiting(k) => Dated(k) /\ (DrawAhead(k) \/ DeadlineAhead(k))

Aging == Safe /\ OnTime /\ \A k \in Jobs : Timely(k)

LEMMA AuditQueuesAre == AuditQueues \subseteq Queues /\ "expiry" \notin AuditQueues
                        /\ "reveal" \notin AuditQueues
BY DEF AuditQueues, Queues

LEMMA Ranked ==
  ASSUME NEW m \in AuditQueues, NEW f \in Phases \union {"tx"}, f # m
  PROVE  (Rank[f] > Rank[m] \/ Rank[m] > Rank[f]) /\ ~(Rank["tx"] > Rank[m]) /\ m # "tx"
BY DEF Rank, AuditQueues, Phases, Queues

(* The parameters that bound an age.                                        *)
LEMMA AgesOK ==
  ASSUME AlwaysUnwinds, NEW p \in ParamSets
  PROVE  /\ p.AuditUnwindBlocks \in Nat /\ p.AuditResolveTimeout \in Nat /\ p.AppealWindow \in Nat
         /\ p.AuditUnwindBlocks >= 2 /\ p.AuditResolveTimeout >= 2
         /\ auditDeferStride \in Nat /\ auditDeferStride >= 1
<1>1. ValidParams(p) /\ p.AuditUnwindBlocks > 0
  BY ParamsAssumption DEF AlwaysUnwinds
<1> QED BY <1>1, BoundsAssumption DEF ValidParams, ParamsRecord

LEMMA EntryIs ==
  ASSUME IInv, NEW n \in AuditQueues, NEW e \in q[n]
  PROVE  e \in Nat \X Jobs /\ e[1] \in Nat /\ e[2] \in Jobs /\ e = <<e[1], e[2]>>
<1>1. q[n] \subseteq Nat \X Jobs
  BY AuditQueuesAre DEF IInv
<1> QED BY <1>1

(* A batch that fits is all that is due.                                    *)
LEMMA WholeBatch ==
  ASSUME IInv, BatchesFit, NEW n \in AuditQueues, NEW B \in Batches(n)
  PROVE  B = {e \in q[n] : e[1] <= height}
<1>1. n \in Queues /\ n # "prune" /\ n # "release"
  BY DEF AuditQueues, Queues
<1>2. Due(n) = {e \in q[n] : e[1] <= height}
  BY <1>1, Zenon DEF Due
<1>3. Batches(n) = {C \in SUBSET Due(n) :
                      /\ Cardinality(C) = MinOf(auditMaxPerBlock, Cardinality(Due(n)))
                      /\ \A e \in C, f \in Due(n) \ C : e[1] <= f[1]}
  BY <1>1, Zenon DEF Batches
<1>4. IsFiniteSet(Due(n))
  <2>1. height \in Nat /\ 0 \in Int /\ height \in Int
    BY DEF IInv, BlockOK
  <2>2. IsFiniteSet(0 .. height)
    BY <2>1, FS_Interval
  <2>3. IsFiniteSet((0 .. height) \X Jobs)
    BY <2>2, FinitenessAssumption, FS_Product
  <2>4. Due(n) \subseteq (0 .. height) \X Jobs
    BY <1>2, <2>1, EntryIs
  <2> QED BY <2>3, <2>4, FS_Subset
<1>5. Cardinality(Due(n)) \in Nat /\ Cardinality(Due(n)) <= auditMaxPerBlock
  BY <1>4, FS_CardinalityType DEF BatchesFit
<1>6. B \subseteq Due(n) /\ Cardinality(B) = Cardinality(Due(n))
  <2>1. B \in SUBSET Due(n) /\ Cardinality(B) = MinOf(auditMaxPerBlock, Cardinality(Due(n)))
    BY <1>3
  <2>2. MinOf(auditMaxPerBlock, Cardinality(Due(n))) = Cardinality(Due(n))
    BY <1>5, BoundsAssumption DEF MinOf
  <2> QED BY <2>1, <2>2
<1>7. B = Due(n)
  BY <1>4, <1>6, FS_Subset
<1> QED BY <1>2, <1>7

-----------------------------------------------------------------------------
(* The clock and the queues.                                                *)

(* Within a phase: entries that come are ahead of the clock, and those the  *)
(* batch no longer holds were served or never in it.                        *)
LEMMA OnTimeKept ==
  ASSUME IInv, IInv', OnTime, height' = height, phase' = phase,
         \A n \in AuditQueues : \A e \in q'[n] :
           \/ e[1] > height
           \/ e \in q[n] /\ (phase = n /\ e \notin todo' => e \notin todo)
  PROVE  OnTime'
<1>1. AuditQueues' = AuditQueues
  BY DEF AuditQueues
<1> SUFFICES ASSUME NEW n \in AuditQueues, NEW e \in q'[n]
             PROVE  /\ e[1] >= height
                    /\ Rank[phase] > Rank[n] \/ (phase = n /\ e \notin todo') => e[1] > height
  BY <1>1 DEF OnTime
<1>2. CASE e[1] > height
  <2>1. q'[n] \subseteq Nat \X Jobs /\ height \in Nat
    BY AuditQueuesAre DEF IInv, BlockOK
  <2> QED BY <1>2, <2>1
<1>3. CASE e \in q[n] /\ (phase = n /\ e \notin todo' => e \notin todo)
  BY <1>3 DEF OnTime
<1> QED BY <1>2, <1>3

LEMMA TxIsInTx == ASSUME Tx PROVE InTx
<1>1. CASE \E j \in Jobs, fee \in Fees : OpenJob(j, fee)
  BY <1>1, Zenon DEF OpenJob
<1>2. CASE \E j \in Jobs, m \in Miners :
             \/ \E v \in {"vector", "garbage"} : CommitWork(j, m, v)
             \/ \E v \in {"valid", "invalid"}  : CommitVerdict(j, m, v)
             \/ \E v \in {"agree", "differ"}   : CommitRedo(j, m, v)
  BY <1>2, Zenon DEF CommitWork, CommitVerdict, CommitRedo, MayCommit
<1>3. CASE \E j \in Jobs, redo \in SUBSET Miners : DisputeVerdict(j, redo)
  BY <1>3, Zenon DEF DisputeVerdict
<1>4. CASE \E j \in Jobs, no \in SUBSET Refusable :
             ResolveRejected(j, no) \/ ResolveUpheld(j, no) \/ AdjudicateHonest(j, no)
  BY <1>4, Zenon DEF ResolveRejected, ResolveUpheld, AdjudicateHonest
<1>5. CASE \E j \in Jobs, no \in SUBSET Refusable : AdjudicateCheated(j, no)
  BY <1>5, Zenon DEF AdjudicateCheated
<1>6. CASE \E j \in Jobs, no \in SUBSET Refusable : settleOptimistic(j, no)
  BY <1>6, Zenon DEF settleOptimistic
<1>7. CASE \E m \in Leavers, self \in BOOLEAN :
             \/ UpdateMiner(m, self)
             \/ \E s \in Stakes : CreateMiner(m, s, self)
  BY <1>7, Zenon DEF UpdateMiner, CreateMiner
<1>8. CASE \E m \in Leavers, live \in BOOLEAN : DeleteMiner(m, live)
  BY <1>8, Zenon DEF DeleteMiner
<1>9. CASE \E p \in ParamSets : UpdateParams(p)
  BY <1>9, Zenon DEF UpdateParams
<1> QED BY <1>1, <1>2, <1>3, <1>4, <1>7, <1>8, <1>9, <1>5, <1>6 DEF Tx

LEMMA OnTimeInTx == ASSUME Safe, Safe', OnTime, Tx PROVE OnTime'
<1>1. /\ phase = "tx" /\ UNCHANGED <<height, phase, todo>> /\ IInv /\ IInv'
  BY TxIsInTx DEF InTx, Safe
<1>2. SUFFICES \A n \in AuditQueues : \A e \in q'[n] : e \in q[n] \/ e[1] > height
  BY <1>1, OnTimeKept
<1>3. /\ height \in Nat /\ q \in [Queues -> SUBSET (Nat \X Jobs)]
      /\ params.AuditResolveTimeout \in Nat /\ params.AuditResolveTimeout > 0
  <2>1. ValidParams(params)
    BY <1>1, ParamsAssumption DEF IInv, BlockOK
  <2> QED BY <1>1, <2>1 DEF IInv, BlockOK, ValidParams, ParamsRecord
<1>4. CASE UNCHANGED q
  BY <1>4
<1>5. CASE \E j \in Jobs, fee \in Fees : OpenJob(j, fee)
  <2>1. PICK j \in Jobs, fee \in Fees : OpenJob(j, fee)
    BY <1>5
  <2>2. \A n \in AuditQueues : q'[n] = q[n]
    BY <1>3, <2>1, AuditQueuesAre DEF OpenJob
  <2> QED BY <2>2
<1>6. CASE \E j \in Jobs, no \in SUBSET Refusable : settleOptimistic(j, no)
  <2>1. PICK j \in Jobs, no \in SUBSET Refusable : settleOptimistic(j, no)
    BY <1>6
  <2>2. \A n \in AuditQueues : \A e \in q'[n] : e \in q[n] \/ e = <<height + 1, j>>
    BY <1>3, <2>1, AuditQueuesAre DEF settleOptimistic
  <2> QED BY <1>3, <2>2
<1>7. CASE \E j \in Jobs, redo \in SUBSET Miners : DisputeVerdict(j, redo)
  <2>1. PICK j \in Jobs, redo \in SUBSET Miners : DisputeVerdict(j, redo)
    BY <1>7
  <2>2. \A n \in AuditQueues : \A e \in q'[n] :
          e \in q[n] \/ e = <<height + params.AuditResolveTimeout, j>>
    BY <1>3, <2>1, AuditQueuesAre DEF DisputeVerdict
  <2> QED BY <1>3, <2>2
<1> QED BY <1>4, <1>5, <1>6, <1>7
        DEF Tx, CommitWork, CommitVerdict, CommitRedo, ResolveRejected, ResolveUpheld,
            AdjudicateHonest, AdjudicateCheated, UpdateMiner, CreateMiner, DeleteMiner, UpdateParams

(* Serving an entry: what it books is ahead.                                *)
LEMMA ServedOnTime ==
  ASSUME IInv, IInv', OnTime, NEW e, Serve(e), NEW n, NEW again, Rebook(e, n, again),
         \A f \in again : f[1] > height
  PROVE  OnTime'
<1>1. \A x \in AuditQueues : \A f \in q'[x] :
        f[1] > height \/ (f \in q[x] /\ (phase = x /\ f \notin todo' => f \notin todo))
  <2> SUFFICES ASSUME NEW x \in AuditQueues, NEW f \in q'[x], f \notin again
               PROVE  f \in q[x] /\ (phase = x /\ f \notin todo' => f \notin todo)
    OBVIOUS
  <2>1. q'[x] = (IF x = phase THEN q[x] \ {e} ELSE q[x]) \union (IF x = n THEN again ELSE {})
    BY Rebooked, AuditQueuesAre
  <2>2. todo' = todo \ {e}
    BY DEF Serve
  <2> QED BY <2>1, <2>2
<1> QED BY <1>1, OnTimeKept DEF Serve

LEMMA OnTimeOnEntry ==
  ASSUME Safe, Safe', OnTime, NEW e \in todo, ServeEntry(e)
  PROVE  OnTime'
<1>1. IInv /\ IInv' /\ height \in Nat /\ auditDeferStride \in Nat /\ auditDeferStride > 0
      /\ jobExpiryRetryBlocks \in Nat /\ jobExpiryRetryBlocks > 0
  BY BoundsAssumption DEF Safe, IInv, BlockOK
<1>2. params.AuditResolveTimeout \in Nat /\ params.AuditResolveTimeout > 0
      /\ params.AppealWindow \in Nat
  <2>1. ValidParams(params)
    BY <1>1, ParamsAssumption DEF IInv, BlockOK
  <2> QED BY <2>1 DEF ValidParams, ParamsRecord
<1>3. CASE \E no \in SUBSET Refusable : PruneMiner(e, no) \/ RetryRelease(e, no)
  <2>1. Serve(e) /\ q' = q /\ phase \in {"prune", "release"}
    BY <1>3 DEF PruneMiner, RetryRelease
  <2>2. \A n \in AuditQueues : phase # n
    BY <2>1 DEF AuditQueues
  <2> QED BY <1>1, <2>1, <2>2, OnTimeKept DEF Serve
<1>4. Serve(e) /\ (\E n : Rebook(e, n, {})) => OnTime'
  <2> SUFFICES ASSUME Serve(e), NEW n, Rebook(e, n, {}) PROVE OnTime'
    OBVIOUS
  <2>1. \A f \in {} : f[1] > height
    OBVIOUS
  <2> QED BY <1>1, <2>1, ServedOnTime
<1>5. CASE \/ ExpireMoved(e) \/ AuditDrop(e) \/ ResolveStale(e)
           \/ \E com \in SUBSET Miners, prim \in Miners \union {NoMiner} : Reveal(e, com, prim)
  BY <1>4, <1>5, Zenon DEF ExpireMoved, AuditDrop, ResolveStale, Reveal
<1>6. CASE \E no \in SUBSET Refusable : ExpireRefund(e, no)
  BY <1>4, <1>6, Zenon DEF ExpireRefund
<1>7. CASE \E no \in SUBSET Refusable : AuditPass(e, no)
  <2>1. PICK no : AuditPass(e, no)
    BY <1>7
  <2>2. Serve(e) /\ Rebook(e, "audit", {})
    BY <2>1 DEF AuditPass, AuditDue
  <2> QED BY <1>4, <2>2
<1>8. CASE \E no \in SUBSET Refusable :
             \/ AuditNoSeedUnwind(e, no)
             \/ \E jury \in SUBSET Miners : AuditSmallJuryUnwind(e, jury, no)
             \/ ResolveUnwind(e, no)
  BY <1>4, <1>8, Zenon DEF AuditNoSeedUnwind, AuditSmallJuryUnwind, AuditDrawn, AuditDue,
                           ResolveUnwind, Undecided, Judged, ResolveDue
<1>9. CASE \E no \in SUBSET Refusable :
             ResolveSilent(e, no) \/ ResolveUnfounded(e, no) \/ ResolveVindicate(e, no)
  BY <1>4, <1>9, Zenon DEF ResolveSilent, ResolveUnfounded, ResolveVindicate, Judged, ResolveDue
<1>10. CASE \E no \in SUBSET Refusable : ResolveSlash(e, no)
  BY <1>4, <1>10, Zenon DEF ResolveSlash, Judged, ResolveDue
<1>11. CASE \/ RevealDeferred(e) \/ AuditNoSeedDefer(e) \/ ResolveDefer(e)
           \/ \E no \in SUBSET Refusable : ExpireLater(e, no)
           \/ \E jury \in SUBSET Miners : AuditSelect(e, jury) \/ AuditSmallJury(e, jury)
  <2>1. Serve(e)
    BY <1>11, Zenon DEF RevealDeferred, AuditNoSeedDefer, ResolveDefer, ExpireLater, AuditSelect,
             AuditSmallJury, AuditDue, AuditDrawn, ResolveDue, Judged, Undecided
  <2>2. \/ Rebook(e, "expiry", {<<height + jobExpiryRetryBlocks, e[2]>>})
        \/ Rebook(e, "reveal", {<<height + auditDeferStride, e[2]>>})
        \/ Rebook(e, "audit", {<<height + auditDeferStride, e[2]>>})
        \/ Rebook(e, "resolve", {<<height + params.AuditResolveTimeout, e[2]>>})
        \/ params.AppealWindow > 0 /\ Rebook(e, "appeal", {<<height + params.AppealWindow, e[2]>>})
    BY <1>11, Zenon DEF RevealDeferred, AuditNoSeedDefer, ResolveDefer, ExpireLater, AuditSelect,
             AuditSmallJury
  <2>3. \E n : \E t \in Nat : t > height /\ Rebook(e, n, {<<t, e[2]>>})
    <3> DEFINE t1 == height + jobExpiryRetryBlocks
               t2 == height + auditDeferStride
               t3 == height + params.AuditResolveTimeout
               t4 == height + params.AppealWindow
    <3>1. /\ t1 \in Nat /\ t1 > height /\ t2 \in Nat /\ t2 > height
          /\ t3 \in Nat /\ t3 > height /\ t4 \in Nat /\ (params.AppealWindow > 0 => t4 > height)
      BY <1>1, <1>2
    <3>2. \/ Rebook(e, "expiry", {<<t1, e[2]>>}) \/ Rebook(e, "reveal", {<<t2, e[2]>>})
          \/ Rebook(e, "audit", {<<t2, e[2]>>}) \/ Rebook(e, "resolve", {<<t3, e[2]>>})
          \/ params.AppealWindow > 0 /\ Rebook(e, "appeal", {<<t4, e[2]>>})
      BY <2>2
    <3> HIDE DEF t1, t2, t3, t4
    <3> QED BY <3>1, <3>2, Zenon
  <2>4. PICK n : \E t \in Nat : t > height /\ Rebook(e, n, {<<t, e[2]>>})
    BY <2>3
  <2>5. PICK t \in Nat : t > height /\ Rebook(e, n, {<<t, e[2]>>})
    BY <2>4
  <2>6. \A f \in {<<t, e[2]>>} : f[1] > height
    BY <2>5
  <2> QED BY <1>1, <2>1, <2>5, <2>6, ServedOnTime
<1> QED BY <1>3, <1>11, <1>5, <1>6, <1>8, <1>9, <1>10, <1>7 DEF ServeEntry

(* The next phase takes all that is due; the next block finds nothing due.  *)
LEMMA OnTimeInBlock ==
  ASSUME Safe, Safe', OnTime, BatchesFit, NextBlock \/ \E n \in Phases : EndPhase(n)
  PROVE  OnTime'
<1>1. /\ IInv /\ height \in Nat /\ phase \in Phases \union {"tx"} /\ todo = {} /\ q' = q
      /\ AuditQueues' = AuditQueues
  BY DEF Safe, IInv, BlockOK, NextBlock, EndPhase, AuditQueues
<1>2. \A m \in AuditQueues : \A e \in q[m] : Idle(m) => e[1] > height
  <2> SUFFICES ASSUME NEW m \in AuditQueues, NEW e \in q[m], Idle(m) PROVE e[1] > height
    OBVIOUS
  <2>1. m \in Queues /\ m # "prune" /\ m # "release"
    BY DEF AuditQueues, Queues
  <2>2. Due(m) = {f \in q[m] : f[1] <= height} /\ Due(m) = {}
    BY <2>1, Zenon DEF Due, Idle
  <2>3. e[1] \in Nat
    BY <1>1, EntryIs
  <2> QED BY <1>1, <2>2, <2>3
<1>3. \A m \in AuditQueues : \A e \in q[m] : ~(Rank[m] > Rank[phase]) => e[1] > height
  <2> SUFFICES ASSUME NEW m \in AuditQueues, NEW e \in q[m], ~(Rank[m] > Rank[phase])
               PROVE  e[1] > height
    OBVIOUS
  <2>1. CASE phase = m
    BY <1>1, <2>1 DEF OnTime
  <2>2. CASE phase # m
    <3>1. Rank[phase] > Rank[m]
      BY <1>1, <2>2, Ranked
    <3> QED BY <3>1 DEF OnTime
  <2> QED BY <2>1, <2>2
<1>4. CASE NextBlock
  <2>1. height' = height + 1 /\ phase' = "tx"
        /\ \A k \in Phases : Rank[phase] < Rank[k] => Idle(k)
    BY <1>4 DEF NextBlock
  <2> SUFFICES ASSUME NEW m \in AuditQueues, NEW e \in q'[m]
               PROVE  /\ e[1] >= height'
                      /\ Rank[phase'] > Rank[m] \/ (phase' = m /\ e \notin todo') => e[1] > height'
    BY <1>1 DEF OnTime
  <2>2. e \in q[m] /\ e[1] \in Nat /\ m \in Phases
    BY <1>1, EntryIs, AuditQueuesAre DEF Phases
  <2>3. Rank[m] \in Nat /\ Rank[phase] \in Nat
    BY <1>1, <2>2 DEF Rank, Phases, Queues
  <2>4. e[1] > height
    BY <1>2, <1>3, <2>1, <2>2, <2>3
  <2>5. ~(Rank["tx"] > Rank[m]) /\ m # "tx"
    BY Ranked DEF Phases, AuditQueues
  <2> QED BY <1>1, <2>1, <2>2, <2>4, <2>5
<1>5. CASE \E n \in Phases : EndPhase(n)
  <2>1. PICK n \in Phases : EndPhase(n)
    BY <1>5
  <2>2. /\ height' = height /\ phase' = n /\ todo' \in Batches(n)
        /\ \A k \in Phases : Rank[phase] < Rank[k] /\ Rank[k] < Rank[n] => Idle(k)
    BY <2>1 DEF EndPhase
  <2> SUFFICES ASSUME NEW m \in AuditQueues, NEW e \in q'[m]
               PROVE  /\ e[1] >= height
                      /\ Rank[n] > Rank[m] \/ (n = m /\ e \notin todo') => e[1] > height
    BY <1>1, <2>2 DEF OnTime
  <2>3. e \in q[m] /\ e[1] \in Nat /\ m \in Phases
    BY <1>1, EntryIs, AuditQueuesAre DEF Phases
  <2>4. Rank[m] \in Nat /\ Rank[phase] \in Nat /\ Rank[n] \in Nat
    BY <1>1, <2>3 DEF Rank, Phases, Queues
  <2>5. e[1] >= height
    BY <2>3 DEF OnTime
  <2>6. CASE Rank[n] > Rank[m]
    <3>1. e[1] > height
      BY <1>2, <1>3, <2>2, <2>3, <2>4, <2>6
    <3> QED BY <2>5, <3>1
  <2>7. CASE n = m /\ e \notin todo'
    <3>1. todo' = {f \in q[m] : f[1] <= height}
      BY <1>1, <2>2, <2>7, WholeBatch
    <3>2. e[1] > height
      BY <1>1, <2>3, <2>7, <3>1
    <3> QED BY <2>5, <3>2
  <2> QED BY <2>5, <2>6, <2>7
<1> QED BY <1>4, <1>5

LEMMA OnTimeStep == ASSUME Safe, Safe', OnTime, BatchesFit, [Next]_vars PROVE OnTime'
<1>1. CASE UNCHANGED vars
  BY <1>1, OnTimeKept DEF vars, Safe
<1> QED BY <1>1, OnTimeInTx, OnTimeOnEntry, OnTimeInBlock DEF Next, EndBlock, Horizon

-----------------------------------------------------------------------------
(* What a step does to a retention that waits.                              *)

(* The entries of an audit of k stay.                                       *)
EntriesStay(k) == \A n \in AuditQueues : \A e \in q[n] : e[2] = k => e \in q'[n]

(* A retention that goes on waiting as it did.                              *)
LEMMA WaitsOn ==
  ASSUME IInv, IInv', NEW k \in Jobs, Timely(k), EntriesStay(k), height' >= height,
         Waiting(k)' => Waiting(k) /\ acct'[k].since = acct[k].since /\ (disputed(k) => disputed(k)')
  PROVE  Timely(k)'
<1> SUFFICES ASSUME Waiting(k)' PROVE Dated(k)' /\ (DrawAhead(k)' \/ DeadlineAhead(k)')
  BY DEF Timely
<1>1. /\ Dated(k) /\ (DrawAhead(k) \/ DeadlineAhead(k)) /\ acct'[k].since = acct[k].since
      /\ (disputed(k) => disputed(k)')
  BY DEF Timely
<1>2. height \in Nat /\ height' \in Nat /\ acct[k].since \in Nat
  <2>1. acct[k] \in Account
    BY AccountOf
  <2> QED BY <2>1 DEF IInv, BlockOK, Account
<1>3. Dated(k)'
  BY <1>1, <1>2 DEF Dated
<1>4. CASE DrawAhead(k)
  <2>1. PICK e \in q["audit"] : e[2] = k /\ DrawBy(k, e[1])
    BY <1>4 DEF DrawAhead
  <2>2. e \in q'["audit"]
    BY <2>1 DEF EntriesStay, AuditQueues
  <2>3. DrawBy(k, e[1])'
    BY <1>1, <2>1 DEF DrawBy
  <2> QED BY <1>3, <2>1, <2>2, <2>3 DEF DrawAhead
<1>5. CASE DeadlineAhead(k)
  <2>1. PICK n \in {"resolve", "appeal"} : \E e \in q[n] : e[2] = k /\ Within(k, e[1])
    BY <1>5 DEF DeadlineAhead
  <2>2. PICK e \in q[n] : e[2] = k /\ Within(k, e[1])
    BY <2>1
  <2>3. e \in q'[n]
    BY <2>2 DEF EntriesStay, AuditQueues
  <2>4. Within(k, e[1])'
    BY <1>1, <2>2 DEF Within, MaxAge
  <2>5. disputed(k)'
    BY <1>1, <1>5 DEF DeadlineAhead
  <2> QED BY <1>3, <2>2, <2>3, <2>4, <2>5 DEF DeadlineAhead
<1> QED BY <1>1, <1>3, <1>4, <1>5

(* A job the step leaves alone.                                             *)
LEMMA StillTimely ==
  ASSUME IInv, IInv', NEW k \in Jobs, Timely(k), Still(k), EntriesStay(k), height' >= height
  PROVE  Timely(k)'
<1>1. Waiting(k)' => Waiting(k) /\ acct'[k].since = acct[k].since /\ (disputed(k) => disputed(k)')
  BY DEF Still, SameRecord, Waiting, paid, resolved, passed, disputed
<1> QED BY <1>1, WaitsOn

LEMMA NotWaiting == ASSUME NEW k, ~Waiting(k)' PROVE Timely(k)'
BY DEF Timely

(* What is not old enough to be unwound was settled less than the age ago.  *)
LEMMA Young ==
  ASSUME IInv, AlwaysUnwinds, NEW k \in Jobs, Waiting(k), Dated(k), ~Unwindable(k)
  PROVE  height - acct[k].since <= params.AuditUnwindBlocks - 1
<1>1. acct[k] \in Account /\ params \in ParamSets /\ height \in Nat
  BY AccountOf DEF IInv, BlockOK
<1>2. params.AuditUnwindBlocks \in Nat /\ params.AuditUnwindBlocks >= 2
  BY <1>1, AgesOK
<1>3. acct[k].held \in Nat /\ acct[k].since \in Nat
  BY <1>1 DEF Account
<1> QED BY <1>1, <1>2, <1>3 DEF Unwindable, Waiting, Dated

(* A new draw, booked by a retention that is not old enough.                *)
LEMMA DrawBooked ==
  ASSUME IInv, AlwaysUnwinds, NEW k \in Jobs, Waiting(k), Dated(k), ~Unwindable(k)
  PROVE  DrawBy(k, height + auditDeferStride)
<1>1. acct[k] \in Account /\ params \in ParamSets /\ height \in Nat
  BY AccountOf DEF IInv, BlockOK
<1>2. params.AuditUnwindBlocks \in Nat /\ auditDeferStride \in Nat /\ acct[k].since \in Nat
  BY <1>1, AgesOK DEF Account
<1> QED BY <1>1, <1>2, Young DEF DrawBy

(* A new deadline of an undecided dispute.                                  *)
LEMMA DeadlineBooked ==
  ASSUME IInv, AlwaysUnwinds, NEW k \in Jobs, Waiting(k), Dated(k), ~Unwindable(k)
  PROVE  Within(k, height + params.AppealWindow) /\ Within(k, height + params.AuditResolveTimeout)
<1>1. acct[k] \in Account /\ params \in ParamSets /\ height \in Nat
  BY AccountOf DEF IInv, BlockOK
<1>2. /\ params.AuditUnwindBlocks \in Nat /\ params.AuditResolveTimeout \in Nat
      /\ params.AppealWindow \in Nat /\ auditDeferStride \in Nat /\ acct[k].since \in Nat
  BY <1>1, AgesOK DEF Account
<1>3. height - acct[k].since <= params.AuditUnwindBlocks - 1
  BY Young
<1>4. /\ (height + params.AppealWindow) - acct[k].since <= MaxAge(params, params)
      /\ (height + params.AuditResolveTimeout) - acct[k].since <= MaxAge(params, params)
  BY <1>1, <1>2, <1>3 DEF MaxAge
<1> QED BY <1>1, <1>4, Zenon DEF Within

(* The deadline of a jury that sits when the draw comes.                    *)
LEMMA JuryBooked ==
  ASSUME IInv, AlwaysUnwinds, NEW k \in Jobs, NEW t \in Nat, t >= height, DrawBy(k, t)
  PROVE  Within(k, height + params.AuditResolveTimeout)
<1>1. acct[k] \in Account /\ params \in ParamSets /\ height \in Nat
  BY AccountOf DEF IInv, BlockOK
<1>2. PICK p \in ParamSets : t - acct[k].since <= p.AuditUnwindBlocks - 1 + auditDeferStride
  BY DEF DrawBy
<1>3. /\ p.AuditUnwindBlocks \in Nat /\ params.AuditResolveTimeout \in Nat
      /\ p.AppealWindow \in Nat /\ auditDeferStride \in Nat /\ acct[k].since \in Nat
  BY <1>1, AgesOK DEF Account
<1>4. (height + params.AuditResolveTimeout) - acct[k].since <= MaxAge(p, params)
  BY <1>1, <1>2, <1>3 DEF MaxAge
<1> QED BY <1>1, <1>4, Zenon DEF Within

(* A draw so close to settlement is within its bound.                       *)
LEMMA FirstDraw ==
  ASSUME IInv, AlwaysUnwinds, NEW k \in Jobs, acct'[k].since = height, NEW t, t = height + 1
  PROVE  DrawBy(k, t)'
<1>1. params \in ParamSets /\ height \in Nat
  BY DEF IInv, BlockOK
<1>2. /\ params.AuditUnwindBlocks \in Nat /\ params.AuditUnwindBlocks >= 2
      /\ auditDeferStride \in Nat /\ auditDeferStride >= 1
  BY <1>1, AgesOK
<1>3. t - acct'[k].since <= params.AuditUnwindBlocks - 1 + auditDeferStride
  BY <1>1, <1>2
<1> QED BY <1>1, <1>3, Zenon DEF DrawBy

-----------------------------------------------------------------------------
(* Transactions.                                                            *)
LEMMA TxEntriesStay == ASSUME Safe, Tx, NEW k \in Jobs PROVE EntriesStay(k)
<1>1. q \in [Queues -> SUBSET (Nat \X Jobs)]
  BY DEF Safe, IInv
<1>2. CASE UNCHANGED q
  BY <1>2 DEF EntriesStay
<1>3. CASE \E j \in Jobs, fee \in Fees : OpenJob(j, fee)
  BY <1>1, <1>3, AuditQueuesAre DEF OpenJob, EntriesStay
<1>4. CASE \E j \in Jobs, no \in SUBSET Refusable : settleOptimistic(j, no)
  <2>1. PICK t : q' = [q EXCEPT !["audit"] = @ \union {t}]
    BY <1>4 DEF settleOptimistic
  <2> QED BY <1>1, <2>1, AuditQueuesAre DEF EntriesStay
<1>5. CASE \E j \in Jobs, redo \in SUBSET Miners : DisputeVerdict(j, redo)
  <2>1. PICK t : q' = [q EXCEPT !["resolve"] = @ \union {t}]
    BY <1>5 DEF DisputeVerdict
  <2> QED BY <1>1, <2>1, AuditQueuesAre DEF EntriesStay
<1> QED BY <1>2, <1>3, <1>4, <1>5
        DEF Tx, CommitWork, CommitVerdict, CommitRedo, ResolveRejected, ResolveUpheld,
            AdjudicateHonest, AdjudicateCheated, UpdateMiner, CreateMiner, DeleteMiner, UpdateParams

(* The fee is held from the block it was settled in, and drawn in the next. *)
LEMMA SettleTimely ==
  ASSUME Safe, Safe', AlwaysUnwinds, NEW j \in Jobs, NEW no, settleOptimistic(j, no)
  PROVE  Timely(j)'
<1>1. IInv /\ IInv' /\ height' = height /\ height \in Nat \ {0}
  BY DEF Safe, IInv, BlockOK, settleOptimistic, InTx
<1> SUFFICES ASSUME Waiting(j)' PROVE Dated(j)' /\ DrawAhead(j)'
  BY DEF Timely
<1>2. PICK m : acct' = [acct EXCEPT ![j] = SettleAccount(acct[j], params, no, miner[m].self, height)]
  BY DEF settleOptimistic
<1>3. PICK b : b = SettleAccount(acct[j], params, no, miner[m].self, height)
  OBVIOUS
<1>4. acct'[j] = b /\ acct[j] \in Account
  BY <1>1, <1>2, <1>3, AccountOf DEF IInv, Ledger
<1>5. b.since = IF b.held > 0 THEN height ELSE 0
  BY <1>3, <1>4 DEF SettleAccount, Account
<1>6. acct'[j].since = height
  BY <1>4, <1>5 DEF Waiting
<1>7. Dated(j)'
  BY <1>1, <1>6 DEF Dated
<1>8. PICK t : t = height + 1
  OBVIOUS
<1>9. <<t, j>> \in q'["audit"]
  BY <1>1, <1>8, AuditQueuesAre DEF settleOptimistic, IInv, AuditQueues
<1>10. DrawBy(j, t)'
  BY <1>1, <1>6, <1>8, FirstDraw
<1> QED BY <1>7, <1>9, <1>10 DEF DrawAhead

LEMMA TimelyInTx ==
  ASSUME Safe, Safe', AlwaysUnwinds, \A k \in Jobs : Timely(k), Tx
  PROVE  \A k \in Jobs : Timely(k)'
<1>1. IInv /\ IInv' /\ height' >= height
  <2>1. IInv /\ IInv'
    BY DEF Safe
  <2>2. height' = height
    BY TxIsInTx DEF InTx
  <2> QED BY <2>1, <2>2 DEF IInv, BlockOK
<1>2. \A k \in Jobs : Still(k) => Timely(k)'
  BY <1>1, TxEntriesStay, StillTimely
<1>3. CASE \E j \in Jobs, fee \in Fees : OpenJob(j, fee)
  <2>1. PICK j \in Jobs, fee \in Fees : OpenJob(j, fee)
    BY <1>3
  <2>2. \A k \in Jobs \ {j} : Still(k)
    BY <1>1, <2>1 DEF OpenJob, Still, SameRecord, IInv, Ledger
  <2>3. ~paid(j)'
    <3>1. job \in [Jobs -> JobRecord]
      BY <1>1 DEF IInv
    <3>2. PICK pool : job' = [job EXCEPT ![j].st = {"open"}, ![j].pool = pool]
      BY <2>1 DEF OpenJob
    <3>3. job'[j].st = {"open"}
      BY <3>1, <3>2 DEF JobRecord
    <3> QED BY <3>3 DEF paid, jobIsPaid
  <2>4. Timely(j)'
    BY <2>3 DEF Timely, Waiting
  <2> QED BY <1>2, <2>2, <2>4
<1>4. CASE \E j \in Jobs, no \in SUBSET Refusable : settleOptimistic(j, no)
  <2>1. PICK j \in Jobs, no \in SUBSET Refusable : settleOptimistic(j, no)
    BY <1>4
  <2>2. \A k \in Jobs \ {j} : Still(k)
    BY <1>1, <2>1 DEF settleOptimistic, Still, SameRecord, IInv, Ledger
  <2> QED BY <1>2, <2>1, <2>2, SettleTimely
<1>5. CASE \E j \in Jobs, redo \in SUBSET Miners : DisputeVerdict(j, redo)
  <2>1. PICK j \in Jobs, redo \in SUBSET Miners : DisputeVerdict(j, redo)
    BY <1>5
  <2>2. \A k \in Jobs \ {j} : Still(k)
    BY <1>1, <2>1 DEF DisputeVerdict, Still, SameRecord, IInv, Ledger
  <2>3. /\ job'[j].st = job[j].st \union {"disputed"} /\ job'[j].drawn = job[j].drawn
        /\ acct'[j].held = acct[j].held /\ acct'[j].since = acct[j].since
    <3>1. acct[j] \in Account /\ acct \in [Jobs -> Account] /\ job \in [Jobs -> JobRecord]
      BY <1>1, AccountOf DEF IInv, Ledger
    <3> QED BY <2>1, <3>1 DEF DisputeVerdict, Account, JobRecord
  <2>4. Waiting(j)' => Waiting(j) /\ acct'[j].since = acct[j].since /\ (disputed(j) => disputed(j)')
    BY <2>3 DEF Waiting, paid, resolved, passed, disputed, jobIsPaid, jobIsResolved, jobIsDisputed
  <2>5. Timely(j)'
    BY <1>1, <2>4, TxEntriesStay, WaitsOn
  <2> QED BY <1>2, <2>2, <2>5
<1>6. CASE \E j \in Jobs, no \in SUBSET Refusable :
             \/ ResolveRejected(j, no) \/ ResolveUpheld(j, no)
             \/ AdjudicateHonest(j, no) \/ AdjudicateCheated(j, no)
  <2>1. PICK j \in Jobs, no \in SUBSET Refusable :
          \/ ResolveRejected(j, no) \/ ResolveUpheld(j, no)
          \/ AdjudicateHonest(j, no) \/ AdjudicateCheated(j, no)
    BY <1>6
  <2>2. PICK marks, by, against : Close(j, marks, by, against)
    BY <2>1 DEF ResolveRejected, ResolveUpheld, AdjudicateHonest, AdjudicateCheated
  <2>3. PICK b : acct' = [acct EXCEPT ![j] = b]
    BY <2>1 DEF ResolveRejected, ResolveUpheld, AdjudicateHonest, AdjudicateCheated, Release
  <2>4. \A k \in Jobs \ {j} : Still(k)
    BY <1>1, <2>2, <2>3, ClosedRecord DEF Still, SameRecord, IInv, Ledger
  <2>5. resolved(j)'
    BY <1>1, <2>2, ClosedRecord DEF resolved, jobIsResolved
  <2>6. Timely(j)'
    BY <2>5 DEF Timely, Waiting
  <2> QED BY <1>2, <2>4, <2>6
<1>7. CASE \E m \in Leavers, live \in BOOLEAN : DeleteMiner(m, live)
  <2>1. PICK m \in Leavers : Leave(m) /\ acct' = acct
    BY <1>7 DEF DeleteMiner
  <2>2. \A k \in Jobs : Still(k)
    BY <1>1, <2>1 DEF Leave, IInv, JobRecord, SameRecord, Still
  <2> QED BY <1>2, <2>2
<1>8. CASE job' = job /\ acct' = acct
  BY <1>2, <1>8 DEF Still, SameRecord
<1> QED BY <1>3, <1>4, <1>5, <1>6, <1>7, <1>8
        DEF Tx, CommitWork, CommitVerdict, CommitRedo, UpdateMiner, CreateMiner, UpdateParams

-----------------------------------------------------------------------------
(* Entries of a batch.                                                      *)

(* Serving an entry of e[2] leaves the entries of the other jobs.           *)
LEMMA OthersEntriesStay ==
  ASSUME IInv, NEW e, NEW n, NEW again, Rebook(e, n, again), NEW k,
         e[2] # k \/ phase \notin AuditQueues
  PROVE  EntriesStay(k)
BY Rebooked, AuditQueuesAre DEF EntriesStay

(* A job that was resolved, passed over or never paid does not wait; the    *)
(* others are as they were.                                                 *)
LEMMA ClosingTimely ==
  ASSUME IInv, IInv', \A k \in Jobs : Timely(k), height' = height,
         NEW e, NEW n, NEW again, Rebook(e, n, again), NEW j \in Jobs, j = e[2],
         \A k \in Jobs \ {j} : Still(k), ~Waiting(j)'
  PROVE  \A k \in Jobs : Timely(k)'
<1>1. height' >= height
  BY DEF IInv, BlockOK
<1>2. \A k \in Jobs \ {j} : Timely(k)'
  BY <1>1, OthersEntriesStay, StillTimely
<1>3. Timely(j)'
  BY DEF Timely
<1> QED BY <1>2, <1>3

LEMMA QuietTimely ==
  ASSUME Safe, Safe', \A k \in Jobs : Timely(k), NEW e \in todo,
         \/ ExpireMoved(e) \/ RevealDeferred(e)
         \/ \E com \in SUBSET Miners, prim \in Miners \union {NoMiner} : Reveal(e, com, prim)
         \/ \E no \in SUBSET Refusable : ExpireLater(e, no) \/ PruneMiner(e, no)
  PROVE  \A k \in Jobs : Timely(k)'
<1>1. IInv /\ IInv' /\ acct' = acct
  BY DEF Safe, ExpireMoved, RevealDeferred, Reveal, ExpireLater, PruneMiner
<1>2. height' >= height
  <2>1. height' = height
    BY DEF ExpireMoved, RevealDeferred, Reveal, ExpireLater, PruneMiner, Serve
  <2> QED BY <1>1, <2>1 DEF IInv, BlockOK
<1>3. \A k \in Jobs : EntriesStay(k)
  <2>1. CASE q' = q
    BY <2>1 DEF EntriesStay
  <2>2. CASE phase \in {"expiry", "reveal"} /\ \E n, again : Rebook(e, n, again)
    <3>1. phase \notin AuditQueues
      BY <2>2 DEF AuditQueues
    <3> QED BY <1>1, <2>2, <3>1, OthersEntriesStay
  <2> QED BY <2>1, <2>2, Zenon DEF ExpireMoved, RevealDeferred, Reveal, ExpireLater, PruneMiner
<1>4. \A k \in Jobs : SameRecord(k)
  <2>1. CASE job' = job
    BY <2>1 DEF SameRecord
  <2>2. CASE Leave(e[2])
    BY <1>1, <2>2 DEF Leave, IInv, JobRecord, SameRecord
  <2>3. CASE \E com \in SUBSET Miners, prim \in Miners \union {NoMiner} : Reveal(e, com, prim)
    <3>1. PICK j \in Jobs : j = e[2]
      BY <1>1, <2>3, EntryOK DEF Reveal
    <3>2. PICK com, prim : job' = [job EXCEPT ![j].revealed = TRUE, ![j].com = com,
                                              ![j].prim = prim]
      BY <2>3, <3>1 DEF Reveal
    <3>3. job \in [Jobs -> JobRecord]
      BY <1>1 DEF IInv
    <3>4. \A k \in Jobs \ {j} : SameRecord(k)
      BY <3>2, <3>3 DEF SameRecord
    <3>5. SameRecord(j)
      BY <3>2, <3>3 DEF SameRecord, JobRecord
    <3> QED BY <3>4, <3>5
  <2> QED BY <2>1, <2>2, <2>3, Zenon DEF ExpireMoved, RevealDeferred, ExpireLater, PruneMiner
<1> QED BY <1>1, <1>2, <1>3, <1>4, StillTimely DEF Still

(* The steps after which the job of the entry waits for nobody.             *)
LEMMA ClosesTimely ==
  ASSUME Safe, Safe', \A k \in Jobs : Timely(k), NEW e \in todo,
         \/ AuditDrop(e)
         \/ \E no \in SUBSET Refusable :
              \/ ExpireRefund(e, no) \/ AuditPass(e, no) \/ RetryRelease(e, no)
              \/ ResolveSilent(e, no) \/ ResolveUnfounded(e, no) \/ ResolveVindicate(e, no)
              \/ ResolveSlash(e, no) \/ AuditNoSeedUnwind(e, no) \/ ResolveUnwind(e, no)
              \/ \E jury \in SUBSET Miners : AuditSmallJuryUnwind(e, jury, no)
  PROVE  \A k \in Jobs : Timely(k)'
<1>1. /\ IInv /\ IInv' /\ acct \in [Jobs -> Account] /\ job \in [Jobs -> JobRecord]
      /\ height \in Nat
  BY DEF Safe, IInv, Ledger, BlockOK
<1>2. \A j \in Jobs :
        /\ j = e[2] /\ Serve(e) /\ (\A k \in Jobs \ {j} : Still(k)) /\ ~Waiting(j)'
        /\ \/ \E n, again : Rebook(e, n, again)
           \/ q' = q
        => \A k \in Jobs : Timely(k)'
  <2> SUFFICES ASSUME NEW j \in Jobs, j = e[2], Serve(e), \A k \in Jobs \ {j} : Still(k),
                      ~Waiting(j)', (\E n, again : Rebook(e, n, again)) \/ q' = q
               PROVE  \A k \in Jobs : Timely(k)'
    OBVIOUS
  <2>1. height' = height /\ height' >= height
    BY <1>1 DEF Serve
  <2>2. CASE \E n, again : Rebook(e, n, again)
    BY <1>1, <2>1, <2>2, ClosingTimely
  <2>3. CASE q' = q
    <3>1. \A k \in Jobs : EntriesStay(k)
      BY <2>3 DEF EntriesStay
    <3> QED BY <1>1, <2>1, <3>1, StillTimely, NotWaiting
  <2> QED BY <2>2, <2>3
<1>3. CASE AuditDrop(e)
  <2>1. PICK j \in Jobs : j = e[2]
    BY <1>1, <1>3, EntryOK DEF AuditDrop
  <2>2. Serve(e) /\ Rebook(e, "audit", {}) /\ job' = job /\ acct' = acct
        /\ (~paid(j) \/ resolved(j))
    BY <1>3, <2>1 DEF AuditDrop, paid, resolved
  <2>3. ~Waiting(j)' /\ \A k \in Jobs : Still(k)
    BY <2>2 DEF Waiting, paid, resolved, Still, SameRecord
  <2> QED BY <1>2, <2>1, <2>2, <2>3
<1>4. CASE \E no \in SUBSET Refusable : ExpireRefund(e, no)
  <2>1. PICK no \in SUBSET Refusable, j \in Jobs : j = e[2] /\ ExpireRefund(e, no)
    BY <1>1, <1>4, EntryOK DEF ExpireRefund
  <2>2. Serve(e) /\ Rebook(e, "expiry", {}) /\ job[j].st = {"open"}
    BY <2>1 DEF ExpireRefund
  <2>3. job' = [job EXCEPT ![j].st = @ \union {"expired", "refunded"}, ![j].by = "expiry"]
    BY <2>1 DEF ExpireRefund
  <2>4. \A k \in Jobs \ {j} : Still(k)
    BY <1>1, <2>1 DEF ExpireRefund, Still, SameRecord
  <2>5. job'[j].st = {"open", "expired", "refunded"}
    BY <1>1, <2>2, <2>3 DEF JobRecord
  <2>6. ~Waiting(j)'
    BY <2>5 DEF Waiting, paid, jobIsPaid
  <2> QED BY <1>2, <2>1, <2>2, <2>4, <2>6
<1>5. CASE \E no \in SUBSET Refusable : AuditPass(e, no)
  <2>1. PICK no \in SUBSET Refusable, j \in Jobs : j = e[2] /\ AuditPass(e, no)
    BY <1>1, <1>5, EntryOK DEF AuditPass, AuditDue
  <2>2. Serve(e) /\ Rebook(e, "audit", {}) /\ job' = [job EXCEPT ![j].drawn = "passed"]
    BY <2>1 DEF AuditPass, AuditDue
  <2>3. PICK b : Release(j, b)
    <3>1. Release(e[2], Released(e[2], no))
      BY ONLY <2>1 DEF AuditPass
    <3>2. Release(j, Released(e[2], no))
      BY <2>1, <3>1, Zenon
    <3> QED BY <3>2, Zenon
  <2>4. acct' = [acct EXCEPT ![j] = b]
    BY <2>3 DEF Release
  <2>5. \A k \in Jobs \ {j} : Still(k)
    BY <1>1, <2>2, <2>4 DEF Still, SameRecord
  <2>6. ~Waiting(j)'
    BY <1>1, <2>2 DEF JobRecord, Waiting, passed
  <2> QED BY <1>2, <2>1, <2>2, <2>5, <2>6
<1>6. CASE \E no \in SUBSET Refusable : RetryRelease(e, no)
  <2>1. PICK no \in SUBSET Refusable, j \in Jobs : j = e[2] /\ RetryRelease(e, no)
    BY <1>1, <1>6, EntryOK DEF RetryRelease
  <2>2. Serve(e) /\ q' = q /\ job' = job /\ phase = "release"
    BY <2>1 DEF RetryRelease
  <2>3. PICK b : acct' = [acct EXCEPT ![j] = b]
    BY <2>1 DEF RetryRelease, Release
  <2>4. \A k \in Jobs \ {j} : Still(k)
    BY <1>1, <2>2, <2>3 DEF Still, SameRecord
  <2>5. resolved(j) \/ passed(j)
    BY <2>1, <2>2 DEF Safe, BatchSafe
  <2>6. ~Waiting(j)'
    BY <2>2, <2>5 DEF Waiting, resolved, passed
  <2> QED BY <1>2, <2>1, <2>2, <2>4, <2>6
<1>7. \A j \in Jobs :
        /\ j = e[2] /\ Serve(e) /\ (\E n, again : Rebook(e, n, again))
        /\ \E marks, by, against : Close(j, marks, by, against)
        /\ \E b : acct' = [acct EXCEPT ![j] = b]
        => \A k \in Jobs : Timely(k)'
  <2> SUFFICES ASSUME NEW j \in Jobs, j = e[2], Serve(e), \E n, again : Rebook(e, n, again),
                      NEW marks, NEW by, NEW against, Close(j, marks, by, against),
                      NEW b, acct' = [acct EXCEPT ![j] = b]
               PROVE  \A k \in Jobs : Timely(k)'
    OBVIOUS
  <2>1. \A k \in Jobs \ {j} : Still(k)
    BY <1>1, ClosedRecord DEF Still, SameRecord
  <2>2. ~Waiting(j)'
    BY <1>1, ClosedRecord DEF Waiting, resolved, jobIsResolved
  <2> QED BY <1>2, <2>1, <2>2
<1>8. CASE \E no \in SUBSET Refusable :
             ResolveSilent(e, no) \/ ResolveUnfounded(e, no) \/ ResolveVindicate(e, no)
  <2>1. PICK no \in SUBSET Refusable, j \in Jobs :
          /\ j = e[2]
          /\ ResolveSilent(e, no) \/ ResolveUnfounded(e, no) \/ ResolveVindicate(e, no)
    BY <1>1, <1>8, EntryOK DEF ResolveSilent, ResolveUnfounded, ResolveVindicate, Judged, ResolveDue
  <2>2. Serve(e) /\ Rebook(e, phase, {})
    BY <2>1, Zenon DEF ResolveSilent, ResolveUnfounded, ResolveVindicate, Judged, ResolveDue
  <2>3. PICK marks, by, b : Close(j, marks, by, FALSE) /\ Release(j, b)
    <3>1. CASE ResolveSilent(e, no)
      BY <2>1, <3>1, Zenon DEF ResolveSilent
    <3>2. CASE ResolveUnfounded(e, no)
      BY <2>1, <3>2, Zenon DEF ResolveUnfounded
    <3>3. CASE ResolveVindicate(e, no)
      BY <2>1, <3>3, Zenon DEF ResolveVindicate
    <3> QED BY <2>1, <3>1, <3>2, <3>3
  <2>4. acct' = [acct EXCEPT ![j] = b]
    BY <2>3 DEF Release
  <2> QED BY <1>7, <2>1, <2>2, <2>3, <2>4, Zenon
<1>9. CASE \E no \in SUBSET Refusable : ResolveSlash(e, no)
  <2>1. PICK no \in SUBSET Refusable, j \in Jobs : j = e[2] /\ ResolveSlash(e, no)
    BY <1>1, <1>9, EntryOK DEF ResolveSlash, Judged, ResolveDue
  <2>2. Serve(e) /\ Rebook(e, phase, {})
    BY <2>1, Zenon DEF ResolveSlash, Judged, ResolveDue
  <2>3. PICK marks, by, b : Close(j, marks, by, TRUE) /\ acct' = [acct EXCEPT ![j] = b]
    BY <2>1 DEF ResolveSlash
  <2> QED BY <1>7, <2>1, <2>2, <2>3, Zenon
<1>10. CASE \E no \in SUBSET Refusable :
             \/ AuditNoSeedUnwind(e, no)
             \/ \E jury \in SUBSET Miners : AuditSmallJuryUnwind(e, jury, no)
             \/ ResolveUnwind(e, no)
  <2>1. PICK j \in Jobs : j = e[2]
    BY <1>1, <1>10, EntryOK DEF AuditNoSeedUnwind, AuditSmallJuryUnwind, AuditDrawn, AuditDue,
                               ResolveUnwind, Undecided, Judged, ResolveDue
  <2>2. PICK no, d : Unwind(j, no, d)
    BY <1>10, <2>1 DEF AuditNoSeedUnwind, AuditSmallJuryUnwind, ResolveUnwind
  <2>3. Serve(e)
    BY <1>10, Zenon DEF AuditNoSeedUnwind, AuditSmallJuryUnwind, AuditDrawn, AuditDue, ResolveUnwind,
                       Undecided, Judged, ResolveDue
  <2>4. \E n, again : Rebook(e, n, again)
    BY <1>10, Zenon DEF AuditNoSeedUnwind, AuditSmallJuryUnwind, ResolveUnwind
  <2>5. \A k \in Jobs \ {j} : Still(k)
    BY <1>1, <2>2 DEF Unwind, Still, SameRecord
  <2>6. ~Waiting(j)'
    BY <1>1, <2>2 DEF Unwind, JobRecord, Waiting, resolved, jobIsResolved
  <2> QED BY <1>2, <2>1, <2>3, <2>4, <2>5, <2>6, Zenon
<1> QED BY <1>3, <1>4, <1>5, <1>6, <1>8, <1>9, <1>10

(* A draw is put off, or the jury is drawn.                                 *)
LEMMA DrawTimely ==
  ASSUME Safe, Safe', OnTime, AlwaysUnwinds, \A k \in Jobs : Timely(k), NEW e \in todo,
         \/ AuditNoSeedDefer(e)
         \/ \E jury \in SUBSET Miners : AuditSelect(e, jury) \/ AuditSmallJury(e, jury)
  PROVE  \A k \in Jobs : Timely(k)'
<1>1. /\ IInv /\ IInv' /\ acct \in [Jobs -> Account] /\ job \in [Jobs -> JobRecord]
      /\ height \in Nat /\ phase = "audit" /\ Serve(e) /\ height' = height
  BY DEF Safe, IInv, Ledger, BlockOK, AuditNoSeedDefer, AuditSelect, AuditSmallJury, AuditDrawn,
         AuditDue, Serve
<1>2. PICK j \in Jobs : j = e[2] /\ JobSafe(j) /\ Timely(j)
  BY <1>1, EntryOK DEF Safe
<1>3. e \in q["audit"] /\ \A f \in q["audit"] : f[2] = j => f = e
  BY <1>1, <1>2 DEF Safe, BatchSafe, Queues, JobSafe, OneDraw
<1>4. paid(j) /\ ~passed(j)
  BY <1>2, <1>3 DEF JobSafe, OneDraw, Queued
<1>5. PICK n, at : Rebook(e, n, {<<at, j>>})
  BY <1>2, Zenon DEF AuditNoSeedDefer, AuditSelect, AuditSmallJury
<1>6. /\ \A k \in Jobs \ {j} : Still(k)
      /\ acct'[j].held = acct[j].held /\ acct'[j].since = acct[j].since
      /\ (resolved(j) => resolved(j)') /\ (disputed(j) => disputed(j)')
  <2>1. CASE AuditNoSeedDefer(e)
    BY <2>1 DEF AuditNoSeedDefer, Still, SameRecord, resolved, disputed
  <2>2. CASE \E jury \in SUBSET Miners : AuditSelect(e, jury)
    <3>1. PICK h : job' = [job EXCEPT ![j].st = @ \union {"disputed"}, ![j].drawn = "selected",
                                      ![j].dheight = h]
      BY <1>2, <2>2 DEF AuditSelect
    <3>2. PICK b : acct' = [acct EXCEPT ![j].bond = b]
      BY <1>2, <2>2 DEF AuditSelect
    <3>3. \A k \in Jobs \ {j} : Still(k)
      BY <1>1, <3>1, <3>2 DEF Still, SameRecord
    <3>4. acct'[j].held = acct[j].held /\ acct'[j].since = acct[j].since
      BY <1>1, <3>2 DEF Account
    <3>5. job'[j].st = job[j].st \union {"disputed"}
      BY <1>1, <3>1 DEF JobRecord
    <3> QED BY <3>3, <3>4, <3>5 DEF resolved, disputed, jobIsResolved, jobIsDisputed
  <2>3. CASE \E jury \in SUBSET Miners : AuditSmallJury(e, jury)
    BY <1>1, <1>2, <2>3 DEF AuditSmallJury, Still, SameRecord, resolved, disputed, JobRecord
  <2> QED BY <2>1, <2>2, <2>3
<1>7. \A k \in Jobs \ {j} : Timely(k)'
  <2>1. \A k \in Jobs \ {j} : EntriesStay(k)
    BY <1>1, <1>2, <1>5, OthersEntriesStay
  <2> QED BY <1>1, <1>6, <2>1, StillTimely
<1>8. SUFFICES ASSUME Waiting(j)' PROVE Dated(j)' /\ (DrawAhead(j)' \/ DeadlineAhead(j)')
  BY <1>7 DEF Timely
<1>9. Waiting(j) /\ Dated(j) /\ Dated(j)' /\ (DrawAhead(j) \/ DeadlineAhead(j))
  BY <1>1, <1>2, <1>4, <1>6, <1>8 DEF Waiting, Timely, Dated
<1>10. CASE AuditNoSeedDefer(e) \/ \E jury \in SUBSET Miners : AuditSmallJury(e, jury)
  <2>1. PICK t : t = height + auditDeferStride
    OBVIOUS
  <2>2. ~Unwindable(j) /\ Rebook(e, "audit", {<<t, j>>})
    BY <1>2, <1>10, <2>1 DEF AuditNoSeedDefer, AuditSmallJury
  <2>3. <<t, j>> \in q'["audit"]
    BY <1>1, <2>2, Rebooked DEF Queues
  <2>4. DrawBy(j, t)
    BY <1>1, <1>9, <2>1, <2>2, DrawBooked
  <2>5. DrawBy(j, t)'
    BY <1>6, <2>4 DEF DrawBy
  <2> QED BY <1>9, <2>3, <2>5 DEF DrawAhead
<1>11. CASE \E jury \in SUBSET Miners : AuditSelect(e, jury)
  <2>1. PICK t : t = height + params.AuditResolveTimeout
    OBVIOUS
  <2>2. Rebook(e, "resolve", {<<t, j>>})
    BY <1>2, <1>11, <2>1 DEF AuditSelect
  <2>3. <<t, j>> \in q'["resolve"] /\ \A x \in {"resolve", "appeal"} : q[x] \subseteq q'[x]
    BY <1>1, <2>2, Rebooked DEF Queues
  <2>4. disputed(j)'
    BY <1>1, <1>2, <1>11 DEF AuditSelect, disputed, jobIsDisputed, JobRecord
  <2>5. CASE DrawAhead(j)
    <3>1. DrawBy(j, e[1]) /\ e[1] \in Nat /\ e[1] >= height
      <4>1. DrawBy(j, e[1])
        BY <1>3, <2>5 DEF DrawAhead
      <4>2. e[1] \in Nat /\ e[1] >= height
        BY <1>1, <1>3, EntryIs DEF OnTime, AuditQueues
      <4> QED BY <4>1, <4>2
    <3>2. Within(j, t)
      BY <1>1, <2>1, <3>1, JuryBooked
    <3>3. Within(j, t)'
      BY <1>6, <3>2 DEF Within, MaxAge
    <3> QED BY <1>9, <2>3, <2>4, <3>3 DEF DeadlineAhead
  <2>6. CASE DeadlineAhead(j)
    <3>1. PICK x \in {"resolve", "appeal"} : \E g \in q[x] : g[2] = j /\ Within(j, g[1])
      BY <2>6 DEF DeadlineAhead
    <3>2. PICK g \in q[x] : g[2] = j /\ Within(j, g[1])
      BY <3>1
    <3>3. Within(j, g[1])' /\ g \in q'[x]
      BY <1>6, <2>3, <3>2 DEF Within, MaxAge
    <3> QED BY <1>9, <2>4, <3>2, <3>3 DEF DeadlineAhead
  <2> QED BY <1>9, <2>5, <2>6
<1> QED BY <1>10, <1>11

(* A deadline finds no open dispute, or books the next one.                 *)
LEMMA DeadlineTimely ==
  ASSUME Safe, Safe', AlwaysUnwinds, \A k \in Jobs : Timely(k), NEW e \in todo,
         ResolveStale(e) \/ ResolveDefer(e)
  PROVE  \A k \in Jobs : Timely(k)'
<1>1. /\ IInv /\ IInv' /\ height \in Nat /\ phase \in {"resolve", "appeal"} /\ Serve(e)
      /\ height' = height /\ job' = job /\ acct' = acct
  BY DEF Safe, IInv, BlockOK, ResolveStale, ResolveDefer, Undecided, Judged, ResolveDue, Serve
<1>2. PICK j \in Jobs : j = e[2] /\ Timely(j)
  BY <1>1, EntryOK
<1>3. PICK n \in {"resolve", "appeal"} : \E again : Rebook(e, n, again)
  BY <1>1 DEF ResolveStale, ResolveDefer
<1>4. \A k \in Jobs : Still(k)
  BY <1>1 DEF Still, SameRecord
<1>5. \A k \in Jobs \ {j} : Timely(k)'
  <2>1. \A k \in Jobs \ {j} : EntriesStay(k)
    BY <1>1, <1>2, <1>3, OthersEntriesStay
  <2> QED BY <1>1, <1>4, <2>1, StillTimely
<1>6. SUFFICES ASSUME Waiting(j)' PROVE Dated(j)' /\ (DrawAhead(j)' \/ DeadlineAhead(j)')
  BY <1>5 DEF Timely
<1>7. /\ Waiting(j) /\ Dated(j) /\ Dated(j)' /\ (DrawAhead(j) \/ DeadlineAhead(j))
      /\ disputed(j)' = disputed(j)
  BY <1>1, <1>2, <1>6 DEF Waiting, Timely, Dated, paid, resolved, passed, disputed
<1>8. DrawAhead(j) => DrawAhead(j)'
  <2>1. q["audit"] \subseteq q'["audit"]
    BY <1>1, <1>3, Rebooked DEF Queues
  <2>2. \A t : DrawBy(j, t) => DrawBy(j, t)'
    BY <1>1 DEF DrawBy
  <2> QED BY <2>1, <2>2 DEF DrawAhead
<1>9. CASE ResolveStale(e)
  <2>1. ~disputed(j)
    BY <1>2, <1>7, <1>9 DEF ResolveStale, OpenDispute, Waiting, resolved, disputed
  <2> QED BY <1>7, <1>8, <2>1 DEF DeadlineAhead
<1>10. CASE ResolveDefer(e)
  <2>1. ~Unwindable(j) /\ disputed(j)
    BY <1>2, <1>10 DEF ResolveDefer, Undecided, Judged, ResolveDue, OpenDispute, disputed
  <2>2. \/ Rebook(e, "appeal", {<<height + params.AppealWindow, j>>})
        \/ Rebook(e, "resolve", {<<height + params.AuditResolveTimeout, j>>})
    BY <1>2, <1>10 DEF ResolveDefer
  <2>3. Within(j, height + params.AppealWindow) /\ Within(j, height + params.AuditResolveTimeout)
    BY <1>1, <1>7, <2>1, DeadlineBooked
  <2>4. \E x \in {"resolve", "appeal"} : \E t : Within(j, t) /\ Rebook(e, x, {<<t, j>>})
    BY <2>2, <2>3, Zenon
  <2>5. PICK x \in {"resolve", "appeal"} : \E t : Within(j, t) /\ Rebook(e, x, {<<t, j>>})
    BY <2>4
  <2>6. PICK t : Within(j, t) /\ Rebook(e, x, {<<t, j>>})
    BY <2>5
  <2>7. <<t, j>> \in q'[x]
    BY <1>1, <2>6, Rebooked DEF Queues
  <2>8. Within(j, t)'
    BY <1>1, <2>6 DEF Within, MaxAge
  <2> QED BY <1>7, <2>1, <2>7, <2>8 DEF DeadlineAhead
<1> QED BY <1>9, <1>10

LEMMA TimelyOnEntry ==
  ASSUME Safe, Safe', OnTime, AlwaysUnwinds, \A k \in Jobs : Timely(k),
         NEW e \in todo, ServeEntry(e)
  PROVE  \A k \in Jobs : Timely(k)'
<1>1. CASE \/ ExpireMoved(e) \/ RevealDeferred(e)
           \/ \E com \in SUBSET Miners, prim \in Miners \union {NoMiner} : Reveal(e, com, prim)
           \/ \E no \in SUBSET Refusable : ExpireLater(e, no) \/ PruneMiner(e, no)
  BY <1>1, QuietTimely
<1>2. CASE \/ AuditDrop(e)
           \/ \E no \in SUBSET Refusable :
                \/ ExpireRefund(e, no) \/ AuditPass(e, no) \/ RetryRelease(e, no)
                \/ ResolveSilent(e, no) \/ ResolveUnfounded(e, no) \/ ResolveVindicate(e, no)
                \/ ResolveSlash(e, no) \/ AuditNoSeedUnwind(e, no) \/ ResolveUnwind(e, no)
                \/ \E jury \in SUBSET Miners : AuditSmallJuryUnwind(e, jury, no)
  BY <1>2, ClosesTimely
<1>3. CASE \/ AuditNoSeedDefer(e)
           \/ \E jury \in SUBSET Miners : AuditSelect(e, jury) \/ AuditSmallJury(e, jury)
  BY <1>3, DrawTimely
<1>4. CASE ResolveStale(e) \/ ResolveDefer(e)
  BY <1>4, DeadlineTimely
<1> QED BY <1>1, <1>2, <1>3, <1>4, Zenon DEF ServeEntry

-----------------------------------------------------------------------------
LEMMA InitAging == ASSUME Init PROVE Aging
<1>1. Safe
  BY InitSafe
<1>2. OnTime
  BY AuditQueuesAre DEF Init, OnTime
<1>3. \A k \in Jobs : Timely(k)
  BY DEF Init, Timely, Waiting, EmptyAccount
<1> QED BY <1>1, <1>2, <1>3 DEF Aging

LEMMA AgingStep == ASSUME AlwaysUnwinds, Aging, BatchesFit, [Next]_vars PROVE Aging'
<1>1. Safe /\ OnTime /\ (\A k \in Jobs : Timely(k)) /\ IInv
  BY DEF Aging, Safe
<1>2. Safe' /\ IInv'
  <2>1. Safe'
    BY <1>1, StepSafe
  <2> QED BY <2>1 DEF Safe
<1>3. OnTime'
  BY <1>1, <1>2, OnTimeStep
<1>4. \A k \in Jobs : Timely(k)'
  <2>1. CASE Tx
    BY <1>1, <1>2, <2>1, TimelyInTx
  <2>2. CASE \E e \in todo : ServeEntry(e)
    BY <1>1, <1>2, <2>2, TimelyOnEntry
  <2>3. CASE UNCHANGED vars \/ NextBlock \/ \E n \in Phases : EndPhase(n)
    <3>1. job' = job /\ acct' = acct /\ q' = q /\ (height' = height \/ height' = height + 1)
      BY <2>3, Zenon DEF vars, NextBlock, EndPhase
    <3>2. height' >= height
      BY <1>1, <3>1 DEF IInv, BlockOK
    <3>3. \A k \in Jobs : Still(k) /\ EntriesStay(k)
      BY <3>1 DEF Still, SameRecord, EntriesStay
    <3> QED BY <1>1, <1>2, <3>2, <3>3, StillTimely
  <2> QED BY <2>1, <2>2, <2>3 DEF Next, EndBlock, Horizon
<1> QED BY <1>2, <1>3, <1>4 DEF Aging

(* A draw that has not come bounds the age as much as a deadline does.      *)
LEMMA AgingDeadline == ASSUME Aging, AlwaysUnwinds PROVE RetentionDeadline
<1> SUFFICES ASSUME NEW j \in Jobs, acct[j].held > 0, j \notin pendingRelease
             PROVE  \E p, r \in ParamSets : height - acct[j].since <= MaxAge(p, r)
  BY DEF RetentionDeadline
<1>1. IInv /\ JobSafe(j) /\ OnTime /\ Timely(j)
  BY DEF Aging, Safe
<1>2. acct[j] \in Account /\ height \in Nat /\ acct[j].since \in Nat /\ acct[j].held \in Nat
  <2>1. acct[j] \in Account
    BY <1>1, AccountOf
  <2> QED BY <1>1, <2>1 DEF IInv, BlockOK, Account
<1>3. Waiting(j)
  <2>1. paid(j)
    BY <1>1, <1>2 DEF JobSafe, Unpaid
  <2>2. ~(resolved(j) \/ passed(j))
    BY <1>1 DEF JobSafe, Ahead, HasPart
  <2> QED BY <2>1, <2>2 DEF Waiting
<1>4. DrawAhead(j) \/ DeadlineAhead(j)
  BY <1>1, <1>3 DEF Timely
<1>5. CASE DrawAhead(j)
  <2>1. PICK e \in q["audit"] : DrawBy(j, e[1])
    BY <1>5 DEF DrawAhead
  <2>2. e[1] \in Nat /\ e[1] >= height
    BY <1>1, EntryIs DEF OnTime, AuditQueues
  <2>3. PICK p \in ParamSets : e[1] - acct[j].since <= p.AuditUnwindBlocks - 1 + auditDeferStride
    BY <2>1 DEF DrawBy
  <2>4. /\ p.AuditUnwindBlocks \in Nat /\ p.AuditResolveTimeout \in Nat
        /\ p.AppealWindow \in Nat /\ auditDeferStride \in Nat
    BY AgesOK
  <2>5. height - acct[j].since <= MaxAge(p, p)
    BY <1>2, <2>2, <2>3, <2>4 DEF MaxAge
  <2> QED BY <2>5
<1>6. CASE DeadlineAhead(j)
  <2>1. PICK n \in {"resolve", "appeal"} : \E e \in q[n] : Within(j, e[1])
    BY <1>6 DEF DeadlineAhead
  <2>2. PICK e \in q[n] : Within(j, e[1])
    BY <2>1
  <2>3. n \in AuditQueues
    BY DEF AuditQueues
  <2>4. e[1] \in Nat /\ e[1] >= height
    BY <1>1, <2>3, EntryIs DEF OnTime
  <2>5. PICK p, r \in ParamSets : e[1] - acct[j].since <= MaxAge(p, r)
    BY <2>2 DEF Within
  <2>6. MaxAge(p, r) \in Int
    <3>1. /\ p.AuditUnwindBlocks \in Nat /\ r.AuditResolveTimeout \in Nat
          /\ p.AppealWindow \in Nat /\ auditDeferStride \in Nat
      BY AgesOK
    <3> QED BY <3>1 DEF MaxAge
  <2>7. height - acct[j].since <= MaxAge(p, r)
    BY <1>2, <2>4, <2>5, <2>6
  <2> QED BY <2>7
<1> QED BY <1>4, <1>5, <1>6

(* A retained fee is released, refunded or being retried at the latest      *)
(* MaxAge blocks after its settlement, as long as each block serves what is *)
(* due in it: an audit that cannot be drawn or decided is put off only      *)
(* while AuditUnwindBlocks allow, whatever governance sets in between.      *)
THEOREM DeadlineKept == Spec /\ []BatchesFit => []RetentionDeadline
<1>1. CASE AlwaysUnwinds
  <2>1. Init => Aging
    BY InitAging
  <2>2. Aging /\ BatchesFit /\ [Next]_vars => Aging'
    BY <1>1, AgingStep
  <2>3. Aging => RetentionDeadline
    BY <1>1, AgingDeadline
  <2> QED BY <2>1, <2>2, <2>3, PTL DEF Spec
<1>2. CASE ~AlwaysUnwinds
  <2>1. RetentionDeadline
    BY <1>2 DEF AlwaysUnwinds, RetentionDeadline
  <2> QED BY <2>1, PTL
<1> QED BY <1>1, <1>2

-----------------------------------------------------------------------------
(* What a miner has earned.                                                 *)

(* The two hypotheses: governance leaves the rates of the subsidy alone,    *)
(* and a miner changes its operator only while no fee owes or credits it a  *)
(* right.                                                                   *)
RatesFixed ==
  \A p, r \in ParamSets : /\ p.ProtocolFeeBps = r.ProtocolFeeBps
                          /\ p.ValidatorRewardBps = r.ValidatorRewardBps

OperatorsWait ==
  \A m \in Miners :
    \/ miner'[m].self = miner[m].self
    \/ \A j \in Jobs : job[j].miner = m => acct[j].right = 0 /\ acct[j].credit = 0

(* The right that settling a fee gives, and its reversal takes back.        *)
Gain(p, fee) == Cut(p, fee) - ValShare(p, fee)

(* What job j has earned m.                                                 *)
Counts(j, m) == job[j].miner = m /\ ~job[j].against /\ job[j].by # "unwind"

Earned(j, m) == IF Counts(j, m) THEN acct[j].credit ELSE 0

Income(m) == SumOf([j \in Jobs |-> Earned(j, m)], Jobs)

(* The invariant: a right is credited once, whole, and never to an operator *)
(* that was its own client; who has left has no demand; and the demand of a *)
(* miner is within its income.                                              *)
Credited(j) ==
  /\ acct[j].right > 0 => acct[j].credit = 0
  /\ \A p \in ParamSets : /\ acct[j].right > 0 => acct[j].right <= Gain(p, acct[j].fee)
                          /\ acct[j].credit > 0 => acct[j].credit <= Gain(p, acct[j].fee)
  /\ \A m \in Miners : job[j].miner = m /\ miner[m].self => acct[j].right = 0 /\ acct[j].credit = 0

NoDemand(m) == ~miner[m].reg => miner[m].demand = 0

Covered(m) == miner[m].demand <= Income(m)

Earning ==
  Safe /\ (\A j \in Jobs : Credited(j)) /\ (\A m \in Miners : NoDemand(m) /\ Covered(m))

LEMMA GainFixed ==
  ASSUME RatesFixed, NEW p \in ParamSets, NEW r \in ParamSets, NEW fee
  PROVE  Gain(p, fee) = Gain(r, fee)
BY DEF RatesFixed, Gain, Cut, ValShare

LEMMA GainNat ==
  ASSUME NEW p \in ParamSets, NEW fee \in Nat
  PROVE  Gain(p, fee) \in Nat /\ Cut(p, fee) \in Nat /\ ValShare(p, fee) \in Nat
         /\ TeamShare(p, fee) \in Nat
<1>1. ValidRates(p)
  BY ParamsAssumption DEF ValidParams, ValidRates, ParamsRecord
<1>2. PICK c \in Nat : c = Cut(p, fee)
  <2>1. p.ProtocolFeeBps \in Nat /\ p.ProtocolFeeBps <= 10000
    BY <1>1 DEF ValidRates
  <2> QED BY <2>1, BpsBound DEF Cut
<1>3. PICK v \in Nat, t \in Nat : v = p.ValidatorRewardBps /\ t = p.TeamFeeBps
                                 /\ v <= 10000 /\ t <= 10000
  BY <1>1 DEF ValidRates
<1>4. Bps(c, v) \in Nat /\ Bps(c, v) <= c /\ Bps(c, t) \in Nat
  <2>1. v <= 10000 /\ t <= 10000
    BY <1>3
  <2>2. Bps(c, v) \in Nat /\ Bps(c, v) <= c
    BY <2>1, BpsBound
  <2>3. Bps(c, t) \in Nat
    BY <2>1, BpsBound
  <2> QED BY <2>2, <2>3
<1>5. ValShare(p, fee) = Bps(c, v) /\ TeamShare(p, fee) = Bps(c, t)
  BY <1>2, <1>3 DEF ValShare, TeamShare
<1> QED BY <1>2, <1>4, <1>5 DEF Gain

LEMMA EarnedNat == ASSUME IInv, NEW j \in Jobs, NEW m PROVE Earned(j, m) \in Nat
<1>1. acct[j] \in Account
  BY AccountOf
<1> QED BY <1>1 DEF Earned, Account

LEMMA IncomeNat == ASSUME IInv, NEW m PROVE Income(m) \in Nat
<1> DEFINE f == [j \in Jobs |-> Earned(j, m)]
<1>1. \A j \in Jobs : f[j] \in Nat
  BY EarnedNat
<1> HIDE DEF f
<1>2. SumOf(f, Jobs) \in Nat
  BY <1>1, FinitenessAssumption, SumOfType
<1> QED BY <1>2 DEF Income, f

(* The demand as the property states it.                                    *)
LEMMA CreditsSaid ==
  ASSUME NEW F
  PROVE  MapThenSumSet(LAMBDA j : acct[j].credit, F) = SumOf([j \in F |-> acct[j].credit], F)
BY DEF MapThenSumSet, MapThenFoldSet, SumOf, SumsTo, Pick

LEMMA DemandSaid == ASSUME IInv, \A m \in Miners : Covered(m) PROVE DemandEarned
<1> SUFFICES ASSUME NEW m \in Miners
             PROVE  miner[m].demand <= MapThenSumSet(LAMBDA j : acct[j].credit,
                                         {j \in Jobs : /\ job[j].miner = m /\ ~job[j].against
                                                       /\ job[j].by # "unwind"})
  BY DEF DemandEarned
<1> DEFINE F == {j \in Jobs : /\ job[j].miner = m /\ ~job[j].against
                              /\ job[j].by # "unwind"}
           c == [j \in F |-> acct[j].credit]
           f == [j \in Jobs |-> Earned(j, m)]
<1>1. MapThenSumSet(LAMBDA j : acct[j].credit, F) = SumOf(c, F)
  BY CreditsSaid
<1>2. \A j \in F : c[j] = f[j]
  BY DEF Earned, Counts
<1>3. \A j \in Jobs \ F : f[j] = 0
  BY DEF Earned, Counts
<1>4. \A j \in Jobs : f[j] \in Int
  BY EarnedNat
<1>5. F \in SUBSET Jobs
  OBVIOUS
<1>6. miner[m].demand <= SumOf(f, Jobs)
  BY DEF Covered, Income
<1> HIDE DEF F, c, f
<1>7. IsFiniteSet(F) /\ IsFiniteSet(Jobs \ F) /\ IsFiniteSet(Jobs)
  BY <1>5, FinitenessAssumption, FS_Subset
<1>8. SumOf(f, Jobs) = SumOf(f, F) + SumOf(f, Jobs \ F)
  BY <1>4, <1>5, <1>7, SumOfSplit
<1>9. SumOf(f, Jobs \ F) = 0
  BY <1>3, <1>7, SumOfZero
<1>10. SumOf(c, F) = SumOf(f, F)
  BY <1>2, <1>7, SumOfSame
<1>11. SumOf(f, F) \in Int
  <2>1. \A j \in F : f[j] \in Int
    BY <1>4, <1>5
  <2> QED BY <1>7, <2>1, SumOfType
<1> QED BY <1>1, <1>6, <1>8, <1>9, <1>10, <1>11 DEF F

-----------------------------------------------------------------------------
(* How an income moves.                                                     *)
LEMMA IncomeMoves ==
  ASSUME IInv, IInv', NEW m, NEW j \in Jobs, \A k \in Jobs \ {j} : Earned(k, m)' = Earned(k, m)
  PROVE  Income(m)' = Income(m) + (Earned(j, m)' - Earned(j, m))
<1> DEFINE f == [k \in Jobs |-> Earned(k, m)]
           g == [k \in Jobs |-> Earned(k, m)']
<1>1. \A k \in Jobs : f[k] \in Int /\ g[k] \in Int
  <2>1. \A k \in Jobs : Earned(k, m)' \in Nat
    <3> SUFFICES ASSUME NEW k \in Jobs PROVE Earned(k, m)' \in Nat
      OBVIOUS
    <3>1. acct'[k] \in Account
      BY DEF IInv, Ledger
    <3> QED BY <3>1 DEF Earned, Account
  <2> QED BY <2>1, EarnedNat
<1>2. \A k \in Jobs \ {j} : g[k] = f[k]
  OBVIOUS
<1>3. f[j] = Earned(j, m) /\ g[j] = Earned(j, m)'
  OBVIOUS
<1>4. Income(m) = SumOf(f, Jobs) /\ Income(m)' = SumOf(g, Jobs)
  BY DEF Income
<1> HIDE DEF f, g
<1>5. SumOf(g, Jobs) = SumOf(f, Jobs) + (g[j] - f[j])
  BY <1>1, <1>2, FinitenessAssumption, SumOfChange
<1> QED BY <1>3, <1>4, <1>5

LEMMA IncomeSame ==
  ASSUME IInv, NEW m, \A k \in Jobs : Earned(k, m)' = Earned(k, m)
  PROVE  Income(m)' = Income(m)
<1>1. [k \in Jobs |-> Earned(k, m)'] = [k \in Jobs |-> Earned(k, m)]
  OBVIOUS
<1> QED BY <1>1 DEF Income

(* What a step leaves of what a job earned.                                 *)
SameGain(k) ==
  /\ acct'[k].fee = acct[k].fee /\ acct'[k].right = acct[k].right
  /\ acct'[k].credit = acct[k].credit /\ job'[k].miner = job[k].miner
  /\ job'[k].against = job[k].against /\ (job'[k].by = "unwind" <=> job[k].by = "unwind")

LEMMA StillSameGain == ASSUME NEW k, Still(k) PROVE SameGain(k)
BY DEF Still, SameRecord, SameGain

LEMMA GainKept ==
  ASSUME NEW k \in Jobs, SameGain(k), OperatorsWait, Credited(k)
  PROVE  Credited(k)' /\ \A m : Earned(k, m)' = Earned(k, m)
<1>1. \A m : Counts(k, m)' <=> Counts(k, m)
  BY DEF SameGain, Counts
<1>2. \A m : Earned(k, m)' = Earned(k, m)
  BY <1>1 DEF SameGain, Earned
<1>3. Credited(k)'
  BY DEF SameGain, Credited, OperatorsWait, Gain, Cut, ValShare
<1> QED BY <1>2, <1>3

(* No demand grew, and no income moved.                                     *)
DemandsKept ==
  \A m \in Miners :
    \/ miner'[m].demand = miner[m].demand /\ miner'[m].reg = miner[m].reg
    \/ miner'[m].demand = 0

LEMMA QuietEarning ==
  ASSUME Earning, Safe', OperatorsWait, \A k \in Jobs : SameGain(k), DemandsKept
  PROVE  Earning'
<1>1. IInv /\ IInv'
  BY DEF Earning, Safe
<1>2. \A k \in Jobs : Credited(k)' /\ \A m : Earned(k, m)' = Earned(k, m)
  BY GainKept DEF Earning
<1>3. ASSUME NEW m \in Miners PROVE NoDemand(m)' /\ Covered(m)'
  <2>1. Income(m)' = Income(m) /\ Income(m) \in Nat
    BY <1>1, <1>2, IncomeSame, IncomeNat
  <2> QED BY <2>1 DEF Earning, DemandsKept, NoDemand, Covered
<1> QED BY <1>2, <1>3 DEF Earning

(* The step is about job j: no demand grew by more than what j earned more. *)
LEMMA EarnsOn ==
  ASSUME Earning, Safe', OperatorsWait, NEW j \in Jobs, \A k \in Jobs \ {j} : SameGain(k),
         Credited(j)', \A m \in Miners : NoDemand(m)',
         \A m \in Miners : \/ miner'[m].demand = 0
                           \/ miner'[m].demand - miner[m].demand <= Earned(j, m)' - Earned(j, m)
  PROVE  Earning'
<1>1. IInv /\ IInv'
  BY DEF Earning, Safe
<1>2. \A k \in Jobs \ {j} : Credited(k)' /\ \A m : Earned(k, m)' = Earned(k, m)
  BY GainKept DEF Earning
<1>3. ASSUME NEW m \in Miners PROVE Covered(m)'
  <2>1. Income(m)' = Income(m) + (Earned(j, m)' - Earned(j, m)) /\ Income(m) \in Nat
    BY <1>1, <1>2, IncomeMoves, IncomeNat
  <2>2. Earned(j, m)' \in Nat /\ Earned(j, m) \in Nat
    <3>1. acct'[j] \in Account
      BY <1>1 DEF IInv, Ledger
    <3> QED BY <1>1, <3>1, EarnedNat DEF Earned, Account
  <2>3. Income(m)' \in Nat
    <3> DEFINE g == [k \in Jobs |-> Earned(k, m)']
    <3>1. \A k \in Jobs : g[k] \in Nat
      BY <1>1, <1>2, <2>2, EarnedNat
    <3> HIDE DEF g
    <3>2. SumOf(g, Jobs) \in Nat
      BY <3>1, FinitenessAssumption, SumOfType
    <3> QED BY <3>2 DEF Income, g
  <2>4. miner[m].demand \in Nat /\ miner'[m].demand \in Nat /\ miner[m].demand <= Income(m)
    BY <1>1 DEF IInv, MinerRecord, Earning, Covered
  <2>5. CASE miner'[m].demand = 0
    BY <2>3, <2>5 DEF Covered
  <2>6. CASE miner'[m].demand - miner[m].demand <= Earned(j, m)' - Earned(j, m)
    BY <2>1, <2>2, <2>4, <2>6 DEF Covered
  <2> QED BY <2>5, <2>6
<1> QED BY <1>2, <1>3 DEF Earning

-----------------------------------------------------------------------------
(* The two moves of a demand.                                               *)

LEMMA RightReleased ==
  ASSUME NEW a \in Account, NEW p, NEW no, NEW reg \in BOOLEAN
  PROVE  /\ reg => /\ releaseHeld(a, p, no, reg).right = 0
                   /\ releaseHeld(a, p, no, reg).credit = a.credit + a.right
         /\ ~reg => /\ releaseHeld(a, p, no, reg).right = a.right
                    /\ releaseHeld(a, p, no, reg).credit = a.credit
<1> DEFINE b == releaseHeld(a, p, no, reg)
<1>1. b.right = IF reg THEN 0 ELSE a.right
  BY DEF releaseHeld, payRetainedCut, Account
<1>2. b.credit = a.credit + (IF reg THEN a.right ELSE 0)
  BY DEF releaseHeld, payRetainedCut, Account
<1>3. a.credit \in Nat
  BY DEF Account
<1> HIDE DEF b
<1>4. /\ reg => b.right = 0 /\ b.credit = a.credit + a.right
      /\ ~reg => b.right = a.right /\ b.credit = a.credit
  BY <1>1, <1>2, <1>3
<1> QED BY <1>4 DEF b

(* What a release makes of a right: credited if somebody is there for it.   *)
LEMMA ReleasedRight ==
  ASSUME Safe, NEW j \in Jobs, NEW no, NEW b,
         \/ b = Released(j, no)
         \/ b = refundDisputeBond(Released(j, no), no)
         \/ b = forfeitBond(Released(j, no))
         \/ b = [Released(j, no) EXCEPT
                   !.bondForfeit = Released(j, no).bondForfeit + Released(j, no).bond]
  PROVE  /\ b.fee = acct[j].fee
         /\ Registered(job[j].miner) => b.right = 0 /\ b.credit = acct[j].credit + acct[j].right
         /\ ~Registered(job[j].miner) => b.right = acct[j].right /\ b.credit = acct[j].credit
<1>1. PICK c : c = Released(j, no)
  OBVIOUS
<1>2. acct[j] \in Account /\ c \in Account /\ FeeConserved(c) /\ c.fee = acct[j].fee
  <2>1. Paying(acct[j], c)
    BY <1>1, ReleasedAlone
  <2> QED BY <2>1, AccountOf DEF Safe, Paying, Onward
<1>3. /\ Registered(job[j].miner) => c.right = 0 /\ c.credit = acct[j].credit + acct[j].right
      /\ ~Registered(job[j].miner) => c.right = acct[j].right /\ c.credit = acct[j].credit
  <2>1. PICK reg \in BOOLEAN : reg <=> Registered(job[j].miner)
    BY DEF Registered, Safe, IInv, MinerRecord
  <2>2. c = releaseHeld(acct[j], params, no, Registered(job[j].miner))
    BY <1>1 DEF Released
  <2>3. /\ reg => c.right = 0 /\ c.credit = acct[j].credit + acct[j].right
        /\ ~reg => c.right = acct[j].right /\ c.credit = acct[j].credit
    <3>1. releaseHeld(acct[j], params, no, Registered(job[j].miner))
            = releaseHeld(acct[j], params, no, reg)
      BY <2>1 DEF releaseHeld, payRetainedCut
    <3> QED BY <1>2, <2>2, <3>1, RightReleased
  <2> QED BY <2>1, <2>3
<1>4. b = c \/ (b.fee = c.fee /\ ButBond(b, c))
  <2>1. CASE b = c
    BY <2>1
  <2>2. CASE b # c
    <3>1. \/ b = refundDisputeBond(c, no) \/ b = forfeitBond(c)
          \/ b = [c EXCEPT !.bondForfeit = c.bondForfeit + c.bond]
      BY <1>1, <2>2
    <3>2. Onward(c, b) /\ ButBond(b, c)
      BY <1>2, <3>1, BondMoves
    <3> QED BY <3>2 DEF Onward
  <2> QED BY <2>1, <2>2
<1> QED BY <1>2, <1>3, <1>4 DEF ButBond

(* The release of j: whoever closes it, it is not against the primary.      *)
LEMMA ReleaseEarns ==
  ASSUME Earning, Safe', OperatorsWait, NEW j \in Jobs, NEW b, Release(j, b), NEW no,
         \/ b = Released(j, no)
         \/ b = refundDisputeBond(Released(j, no), no)
         \/ b = forfeitBond(Released(j, no))
         \/ b = [Released(j, no) EXCEPT
                   !.bondForfeit = Released(j, no).bondForfeit + Released(j, no).bond],
         \A k \in Jobs \ {j} : SameRecord(k), job'[j].miner = job[j].miner,
         Undone(j)' => Undone(j)
  PROVE  Earning'
<1>1. /\ Safe /\ IInv /\ acct[j] \in Account /\ Credited(j) /\ JobSafe(j)
      /\ acct[j].right \in Nat /\ acct[j].credit \in Nat
  <2>1. acct[j] \in Account
    BY AccountOf DEF Earning, Safe
  <2> QED BY <2>1 DEF Earning, Safe, Account
<1>2. PICK m : m = job[j].miner
  OBVIOUS
<1>3. /\ b.fee = acct[j].fee
      /\ Registered(m) => b.right = 0 /\ b.credit = acct[j].credit + acct[j].right
      /\ ~Registered(m) => b.right = acct[j].right /\ b.credit = acct[j].credit
  BY <1>1, <1>2, ReleasedRight
<1>4. /\ acct' = [acct EXCEPT ![j] = b]
      /\ miner' = IF Registered(m) THEN [miner EXCEPT ![m].demand = @ + (b.credit - acct[j].credit)]
                                   ELSE miner
  BY <1>2 DEF Release
<1>5. acct'[j] = b /\ miner \in [Miners -> MinerRecord]
  BY <1>1, <1>4 DEF IInv, Ledger
<1>6. \A k \in Jobs \ {j} : SameGain(k)
  BY <1>1, <1>4, StillSameGain DEF Still, IInv, Ledger
<1>7. Credited(j)'
  <2>1. ASSUME NEW p \in ParamSets
        PROVE  /\ b.right > 0 => b.right <= Gain(p, b.fee)
               /\ b.credit > 0 => b.credit <= Gain(p, b.fee)
    BY <1>1, <1>3, <2>1 DEF Credited
  <2>2. b.right > 0 => b.credit = 0
    BY <1>1, <1>3 DEF Credited
  <2>3. ASSUME NEW w \in Miners, job'[j].miner = w, miner'[w].self
        PROVE  b.right = 0 /\ b.credit = 0
    <3>1. job[j].miner = w
      BY <2>3
    <3>2. acct[j].right = 0 /\ acct[j].credit = 0
      BY <1>1, <2>3, <3>1 DEF Credited, OperatorsWait
    <3> QED BY <1>3, <3>2
  <2> QED BY <1>5, <2>1, <2>2, <2>3 DEF Credited, Gain, Cut, ValShare
<1>8. \A w \in Miners : miner'[w].reg = miner[w].reg /\ (w # m => miner'[w].demand = miner[w].demand)
  BY <1>4, <1>5 DEF MinerRecord, Registered
<1>9. Registered(m) => m \in Miners
                       /\ miner'[m].demand = miner[m].demand + acct[j].right /\ miner[m].reg
  <2>1. SUFFICES ASSUME Registered(m)
                 PROVE miner'[m].demand = miner[m].demand + acct[j].right
    BY DEF Registered
  <2>2. m \in Miners /\ b.credit - acct[j].credit = acct[j].right
    BY <1>1, <1>3, <2>1 DEF Registered
  <2>3. miner' = [miner EXCEPT ![m].demand = @ + acct[j].right]
    BY <1>4, <2>1, <2>2
  <2> QED BY <1>5, <2>2, <2>3 DEF MinerRecord
<1>10. ~Registered(m) => miner' = miner
  BY <1>4
<1>11. \A w \in Miners : NoDemand(w)'
  BY <1>5, <1>8, <1>9, <1>10 DEF NoDemand, Earning
<1>12. ASSUME NEW w \in Miners
       PROVE  miner'[w].demand - miner[w].demand <= Earned(j, w)' - Earned(j, w)
  <2>1. miner[w].demand \in Nat /\ b.credit \in Nat
    BY <1>1, <1>3, <1>5 DEF MinerRecord
  <2>2. CASE w # m
    <3>1. ~Counts(j, w)' /\ ~Counts(j, w)
      BY <1>2, <2>2 DEF Counts
    <3> QED BY <1>8, <2>1, <2>2, <3>1 DEF Earned
  <2>3. CASE w = m /\ Undone(j)
    <3>1. acct[j].right = 0
      BY <1>1, <2>3 DEF JobSafe, Stripped
    <3>2. miner'[w].demand = miner[w].demand
      BY <1>9, <1>10, <2>1, <2>3, <3>1
    <3>3. Earned(j, w) = 0
      BY <2>3 DEF Earned, Counts, Undone
    <3>4. Earned(j, w)' \in Nat
      BY <1>5, <2>1 DEF Earned
    <3> QED BY <2>1, <3>2, <3>3, <3>4
  <2>4. CASE w = m /\ ~Undone(j)
    <3>1. Counts(j, w) /\ Counts(j, w)'
      BY <1>2, <2>4 DEF Counts, Undone
    <3>2. Earned(j, w) = acct[j].credit /\ Earned(j, w)' = b.credit
      BY <1>5, <3>1 DEF Earned
    <3> QED BY <1>1, <1>3, <1>9, <1>10, <2>1, <2>4, <3>2
  <2> QED BY <2>2, <2>3, <2>4
<1> QED BY <1>6, <1>7, <1>11, <1>12, EarnsOn

(* j goes against its miner: what it was credited is taken back, or as much *)
(* of it as is left.                                                        *)
LEMMA ReversalEarns ==
  ASSUME Earning, Safe', OperatorsWait, NEW j \in Jobs, NEW b, acct' = [acct EXCEPT ![j] = b],
         b.fee = acct[j].fee, b.right = 0, b.credit = acct[j].credit,
         \A w \in Miners : /\ miner'[w].demand = DemandReversed(j)[w].demand
                           /\ miner'[w].reg = miner[w].reg,
         \A k \in Jobs \ {j} : SameRecord(k), job'[j].miner = job[j].miner, Undone(j)'
  PROVE  Earning'
<1>1. /\ Safe /\ IInv /\ acct[j] \in Account /\ Credited(j)
      /\ acct[j].right \in Nat /\ acct[j].credit \in Nat /\ acct[j].fee \in Nat
      /\ params \in ParamSets /\ miner \in [Miners -> MinerRecord]
  <2>1. acct[j] \in Account
    BY AccountOf DEF Earning, Safe
  <2> QED BY <2>1 DEF Earning, Safe, Account, IInv, BlockOK
<1>2. acct'[j] = b
  BY <1>1 DEF IInv, Ledger
<1>3. \A k \in Jobs \ {j} : SameGain(k)
  BY <1>1, StillSameGain DEF Still, IInv, Ledger
<1>4. Credited(j)'
  <2>1. \A w \in Miners : job'[j].miner = w /\ miner'[w].self => acct[j].credit = 0
    BY <1>1 DEF OperatorsWait, Credited
  <2> QED BY <1>1, <1>2, <2>1 DEF Credited, Gain, Cut, ValShare
<1>5. PICK rev \in Nat : rev = Gain(params, acct[j].fee)
  BY <1>1, GainNat
<1>6. ASSUME NEW w \in Miners
      PROVE  \/ miner'[w].demand = miner[w].demand
             \/ /\ w = job[j].miner /\ miner[w].reg /\ acct[j].right = 0 /\ ~miner[w].self
                /\ miner'[w].demand = miner[w].demand - MinOf(rev, miner[w].demand)
  <2>1. CASE Registered(job[j].miner) /\ acct[j].right = 0 /\ ~miner[job[j].miner].self
    <3>1. DemandReversed(j) = [miner EXCEPT ![job[j].miner].demand = @ - MinOf(rev, @)]
      BY <1>5, <2>1, Zenon DEF DemandReversed, Gain, ValShare
    <3>2. CASE w = job[j].miner
      BY <1>1, <2>1, <3>1, <3>2 DEF MinerRecord, Registered
    <3>3. CASE w # job[j].miner
      BY <1>1, <3>1, <3>3 DEF MinerRecord
    <3> QED BY <3>2, <3>3
  <2>2. CASE ~(Registered(job[j].miner) /\ acct[j].right = 0 /\ ~miner[job[j].miner].self)
    BY <2>2 DEF DemandReversed
  <2> QED BY <2>1, <2>2
<1>7. ASSUME NEW w \in Miners PROVE miner[w].demand \in Nat /\ miner'[w].demand \in Nat
  BY <1>1 DEF Safe, IInv, MinerRecord
<1>8. \A w \in Miners : NoDemand(w)'
  BY <1>6 DEF NoDemand, Earning
<1>9. ASSUME NEW w \in Miners
      PROVE  \/ miner'[w].demand = 0
             \/ miner'[w].demand - miner[w].demand <= Earned(j, w)' - Earned(j, w)
  <2>1. Earned(j, w)' = 0
    BY DEF Earned, Counts, Undone
  <2>2. CASE ~Counts(j, w)
    <3>1. Earned(j, w) = 0
      BY <2>2 DEF Earned
    <3> QED BY <1>5, <1>6, <1>7, <2>1, <3>1 DEF MinOf
  <2>3. CASE Counts(j, w)
    <3>1. Earned(j, w) = acct[j].credit /\ w = job[j].miner
      BY <2>3 DEF Earned, Counts
    <3>2. CASE ~miner[w].reg
      BY <1>6, <3>2 DEF Earning, NoDemand
    <3>3. CASE acct[j].right > 0 \/ miner[w].self
      <4>1. acct[j].credit = 0
        BY <1>1, <3>1, <3>3 DEF Credited
      <4> QED BY <1>1, <1>5, <1>6, <1>7, <2>1, <3>1, <4>1 DEF MinOf
    <3>4. CASE miner[w].reg /\ acct[j].right = 0 /\ ~miner[w].self
      <4>1. DemandReversed(j) = [miner EXCEPT ![w].demand = @ - MinOf(rev, @)]
        BY <1>5, <3>1, <3>4, Zenon DEF DemandReversed, Gain, ValShare, Registered
      <4>2. miner'[w].demand = miner[w].demand - MinOf(rev, miner[w].demand)
        BY <1>1, <4>1 DEF MinerRecord
      <4>3. acct[j].credit > 0 => acct[j].credit <= rev
        BY <1>1, <1>5 DEF Credited
      <4> QED BY <1>1, <1>5, <1>7, <2>1, <3>1, <4>2, <4>3 DEF MinOf
    <3> QED BY <1>1, <3>2, <3>3, <3>4
  <2> QED BY <2>2, <2>3
<1> QED BY <1>3, <1>4, <1>8, <1>9, EarnsOn

-----------------------------------------------------------------------------
(* Transactions.                                                            *)

(* Nobody earns from a job not yet opened.                                  *)
LEMMA OpenJobEarns ==
  ASSUME Earning, Safe', OperatorsWait, NEW j \in Jobs, NEW fee \in Fees, OpenJob(j, fee)
  PROVE  Earning'
<1>1. IInv /\ acct[j] \in Account /\ acct[j].credit = 0
  <2>1. ~paid(j)
    BY DEF OpenJob, paid, jobIsPaid
  <2> QED BY <2>1, AccountOf DEF Earning, Safe, JobSafe, Unpaid
<1>2. PICK b : b = OpenAccount(fee)
  OBVIOUS
<1>3. /\ acct' = [acct EXCEPT ![j] = b] /\ miner' = miner
      /\ job' = [job EXCEPT ![j].st = {"open"},
                            ![j].pool = {m \in Miners : miner[m].reg /\ ~miner[m].fresh}]
  BY <1>2 DEF OpenJob
<1>4. acct'[j] = b /\ b.right = 0 /\ b.credit = 0
  BY <1>1, <1>2, <1>3 DEF OpenAccount, EmptyAccount, IInv, Ledger
<1>5. \A k \in Jobs \ {j} : SameGain(k)
  BY <1>1, <1>3 DEF SameGain, IInv, Ledger, JobRecord
<1>6. Credited(j)'
  BY <1>4 DEF Credited
<1>7. \A m \in Miners : Earned(j, m)' = 0 /\ Earned(j, m) = 0
  BY <1>1, <1>4 DEF Earned
<1>8. \A m \in Miners : miner[m].demand \in Nat
  BY <1>1 DEF IInv, MinerRecord
<1>9. \A m \in Miners : NoDemand(m)'
  BY <1>3 DEF NoDemand, Earning
<1>10. \A m \in Miners : miner'[m].demand - miner[m].demand <= Earned(j, m)' - Earned(j, m)
  BY <1>3, <1>7, <1>8
<1> QED BY <1>5, <1>6, <1>9, <1>10, EarnsOn

(* Settling gives the whole right, and credits none of it yet.              *)
LEMMA SettleEarns ==
  ASSUME RatesFixed, Earning, Safe', OperatorsWait, NEW j \in Jobs, NEW no, settleOptimistic(j, no)
  PROVE  Earning'
<1>1. IInv /\ acct[j] \in Account /\ acct[j].credit = 0 /\ acct[j].fee \in Nat
      /\ params \in ParamSets
  <2>1. ~paid(j)
    BY DEF settleOptimistic, paid
  <2>2. IInv /\ acct[j].credit = 0
    BY <2>1 DEF Earning, Safe, JobSafe, Unpaid
  <2> QED BY <2>2, AccountOf DEF Account, IInv, BlockOK
<1>2. PICK m : m = job[j].prim
  OBVIOUS
<1>3. PICK own : own = miner[m].self
  OBVIOUS
<1>4. PICK b : b = SettleAccount(acct[j], params, no, own, height)
  OBVIOUS
<1>5. /\ acct' = [acct EXCEPT ![j] = b] /\ miner' = [miner EXCEPT ![m].count = @ + 1]
      /\ job' = [job EXCEPT ![j].miner = m, ![j].st = @ \union {"paid", "optimistic"}]
  BY <1>2, <1>3, <1>4 DEF settleOptimistic
<1>6. m \in Miners /\ own \in BOOLEAN
  BY <1>1, <1>2, <1>3 DEF settleOptimistic, Registered, IInv, MinerRecord
<1>7. acct'[j] = b /\ b.fee = acct[j].fee /\ b.credit = 0
      /\ b.right = IF own THEN 0 ELSE TreasShare(params, acct[j].fee) + TeamShare(params, acct[j].fee)
  BY <1>1, <1>4, <1>5 DEF SettleAccount, Account, IInv, Ledger
<1>8. TreasShare(params, acct[j].fee) + TeamShare(params, acct[j].fee) = Gain(params, acct[j].fee)
  <2>1. PICK c \in Nat, v \in Nat, t \in Nat :
          /\ c = Cut(params, acct[j].fee) /\ v = ValShare(params, acct[j].fee)
          /\ t = TeamShare(params, acct[j].fee)
    BY <1>1, GainNat
  <2>2. (c - v - t) + t = c - v
    BY <2>1
  <2> QED BY <2>1, <2>2 DEF TreasShare, Gain
<1>9. PICK g \in Nat : \A p \in ParamSets : g = Gain(p, acct[j].fee)
  <2>1. Gain(params, acct[j].fee) \in Nat
    BY <1>1, GainNat
  <2>2. \A p \in ParamSets : Gain(params, acct[j].fee) = Gain(p, acct[j].fee)
    BY <1>1, GainFixed
  <2> QED BY <2>1, <2>2
<1>10. b.right = IF own THEN 0 ELSE g
  BY <1>1, <1>7, <1>8, <1>9
<1>11. \A w \in Miners : /\ miner'[w].reg = miner[w].reg /\ miner'[w].self = miner[w].self
                         /\ miner'[w].demand = miner[w].demand /\ miner[w].demand \in Nat
  BY <1>1, <1>5, <1>6 DEF IInv, MinerRecord
<1>12. job'[j].miner = m
  BY <1>1, <1>5 DEF IInv, JobRecord
<1>13. Credited(j)'
  <2>1. \A p \in ParamSets : b.right > 0 => b.right <= Gain(p, b.fee)
    BY <1>7, <1>9, <1>10
  <2>2. \A w \in Miners : job'[j].miner = w /\ miner'[w].self => b.right = 0
    BY <1>3, <1>10, <1>11, <1>12
  <2> QED BY <1>7, <2>1, <2>2 DEF Credited, Gain, Cut, ValShare
<1>14. \A k \in Jobs \ {j} : SameGain(k)
  BY <1>1, <1>5 DEF SameGain, IInv, Ledger, JobRecord
<1>15. \A w \in Miners : Earned(j, w)' = 0 /\ Earned(j, w) = 0
  BY <1>1, <1>7 DEF Earned
<1>16. \A w \in Miners : NoDemand(w)'
  BY <1>11 DEF NoDemand, Earning
<1>17. \A w \in Miners : miner'[w].demand - miner[w].demand <= Earned(j, w)' - Earned(j, w)
  BY <1>11, <1>15
<1> QED BY <1>13, <1>14, <1>16, <1>17, EarnsOn

(* A refund leaves no right, whatever becomes of the bond.                  *)
RefundOf(j, no, c) ==
  \/ c = refundRetained(acct[j], no)
  \/ OpenDispute(j) /\ \E amt \in Nat : \/ c = SlashedAccount(acct[j], amt, no)
                                        \/ c = AdjudicatedAccount(acct[j], amt, no)

BondBackOn(c, no, b) ==
  \/ b = refundDisputeBond(c, no)
  \/ b = [c EXCEPT !.bondBack = c.bondBack + c.bond]
  \/ b = [c EXCEPT !.bondBack = c.bondBack + c.bond, !.bond = 0]

LEMMA RefundedRight ==
  ASSUME Safe, NEW j \in Jobs, NEW no, NEW c, NEW b, RefundOf(j, no, c), BondBackOn(c, no, b)
  PROVE  b.fee = acct[j].fee /\ b.right = 0 /\ b.credit = acct[j].credit
<1>1. acct[j] \in Account /\ FeeConserved(acct[j])
  BY AccountOf DEF Safe
<1>2. Refunding(acct[j], c)
  <2>1. CASE c = refundRetained(acct[j], no)
    BY <1>1, <2>1, RefundStrips
  <2>2. CASE OpenDispute(j) /\ \E amt \in Nat : \/ c = SlashedAccount(acct[j], amt, no)
                                                \/ c = AdjudicatedAccount(acct[j], amt, no)
    <3>1. Undecided0(acct[j]) /\ acct[j].toClient = 0
      BY <2>2, OpenDisputeFacts
    <3>2. PICK amt \in Nat : \/ c = SlashedAccount(acct[j], amt, no)
                             \/ c = AdjudicatedAccount(acct[j], amt, no)
      BY <2>2
    <3> QED BY <1>1, <3>1, <3>2, CompensatedAccount
  <2> QED BY <2>1, <2>2 DEF RefundOf
<1>3. c \in Account /\ FeeConserved(c) /\ c.fee = acct[j].fee /\ c.right = 0
  BY <1>2 DEF Refunding, Onward
<1>4. c.credit = acct[j].credit
  <2>1. PICK r : r = refundRetained(acct[j], no)
    OBVIOUS
  <2>2. r \in Account /\ r.credit = acct[j].credit
    <3>1. Refunding(acct[j], r)
      BY <1>1, <2>1, RefundStrips
    <3>2. PICK n, x, y : r = [acct[j] EXCEPT !.held = 0, !.burn = 0, !.val = 0, !.team = 0,
                                !.treas = 0, !.since = n, !.right = 0, !.toClient = x,
                                !.toTreasury = y]
      BY <2>1, Zenon DEF refundRetained
    <3>3. r.credit = acct[j].credit
      BY <1>1, <3>2 DEF Account
    <3> QED BY <3>1, <3>3 DEF Refunding, Onward
  <2>3. c = r \/ \E x : c = [r EXCEPT !.comp = x]
    BY <2>1, Zenon DEF RefundOf, SlashedAccount, AdjudicatedAccount
  <2> QED BY <2>2, <2>3 DEF Account
<1>5. b.fee = c.fee /\ ButBond(b, c)
  <2>1. Onward(c, b) /\ ButBond(b, c)
    BY <1>3, BondMoves DEF BondBackOn
  <2> QED BY <2>1 DEF Onward
<1> QED BY <1>3, <1>4, <1>5 DEF ButBond

(* Decided for the miner.                                                   *)
LEMMA Forgiven ==
  ASSUME IInv, NEW j \in Jobs, NEW marks, NEW by, Close(j, marks, by, FALSE), by # "unwind"
  PROVE  /\ \A k \in Jobs \ {j} : SameRecord(k)
         /\ job'[j].miner = job[j].miner /\ ~Undone(j)'
<1>1. /\ job'[j].by = by /\ job'[j].against = FALSE /\ job'[j].miner = job[j].miner
      /\ \A k \in Jobs \ {j} : job'[k] = job[k]
  BY DEF IInv, JobRecord, Close
<1> QED BY <1>1 DEF SameRecord, Undone

LEMMA AcquittedEarns ==
  ASSUME Earning, Safe', OperatorsWait, NEW j \in Jobs, NEW no,
         ResolveRejected(j, no) \/ AdjudicateHonest(j, no)
  PROVE  Earning'
<1>1. PICK b, marks, by :
        /\ Release(j, b) /\ Close(j, marks, by, FALSE) /\ by \in {"authority", "verdict", "redo"}
        /\ \/ b = forfeitBond(Released(j, no))
           \/ b = [Released(j, no) EXCEPT
                     !.bondForfeit = Released(j, no).bondForfeit + Released(j, no).bond]
  BY DEF ResolveRejected, AdjudicateHonest
<1>2. IInv /\ by # "unwind"
  BY <1>1 DEF Earning, Safe
<1>3. /\ \A k \in Jobs \ {j} : SameRecord(k)
      /\ job'[j].miner = job[j].miner /\ ~Undone(j)'
  BY <1>1, <1>2, Forgiven
<1> QED BY <1>1, <1>3, ReleaseEarns

(* Decided against it.                                                      *)
LEMMA Condemned ==
  ASSUME IInv, NEW j \in Jobs, NEW marks, NEW by, Close(j, marks, by, TRUE)
  PROVE  /\ \A k \in Jobs \ {j} : SameRecord(k)
         /\ job'[j].miner = job[j].miner /\ Undone(j)'
<1>1. /\ job'[j].by = by /\ job'[j].against = TRUE /\ job'[j].miner = job[j].miner
      /\ \A k \in Jobs \ {j} : job'[k] = job[k]
  BY DEF IInv, JobRecord, Close
<1> QED BY <1>1 DEF SameRecord, Undone

(* A reversal, with or without a slash, moves nothing else of a demand.     *)
LEMMA ReversedDemand ==
  ASSUME IInv, NEW j \in Jobs, NEW amt \in Nat,
         miner' = DemandReversed(j) \/ miner' = TakeStake(DemandReversed(j), j, amt)
  PROVE  \A w \in Miners : /\ miner'[w].demand = DemandReversed(j)[w].demand
                           /\ miner'[w].reg = miner[w].reg
<1>1. DemandReversed(j) \in [Miners -> MinerRecord]
  BY DemandReversedOK
<1>2. \A w \in Miners : DemandReversed(j)[w].reg = miner[w].reg
  BY DEF DemandReversed, IInv, MinerRecord, Registered
<1>3. CASE miner' = DemandReversed(j)
  BY <1>2, <1>3
<1>4. CASE miner' = TakeStake(DemandReversed(j), j, amt)
  <2>1. PICK f \in [Miners -> MinerRecord] : f = DemandReversed(j)
    BY <1>1
  <2>2. miner' = f \/ miner' = [f EXCEPT ![job[j].miner].stake = @ - amt]
    BY <1>4, <2>1 DEF TakeStake
  <2>3. \A w \in Miners : miner'[w].demand = f[w].demand /\ miner'[w].reg = f[w].reg
    BY <2>2 DEF MinerRecord
  <2> QED BY <1>2, <2>1, <2>3
<1> QED BY <1>3, <1>4

LEMMA UpheldEarns ==
  ASSUME Earning, Safe', OperatorsWait, NEW j \in Jobs, NEW no, ResolveUpheld(j, no)
  PROVE  Earning'
<1>1. Safe /\ IInv
  BY DEF Earning, Safe
<1>2. PICK c : c = refundRetained(acct[j], no)
  OBVIOUS
<1>3. PICK b : b = [c EXCEPT !.bondBack = c.bondBack + c.bond]
  OBVIOUS
<1>4. /\ acct' = [acct EXCEPT ![j] = b] /\ miner' = DemandReversed(j)
      /\ Close(j, {}, "authority", TRUE)
  BY <1>2, <1>3 DEF ResolveUpheld
<1>5. b.fee = acct[j].fee /\ b.right = 0 /\ b.credit = acct[j].credit
  <2>1. BondBackOn(c, no, b)
    BY <1>3, Zenon DEF BondBackOn
  <2>2. RefundOf(j, no, c)
    BY <1>2, Zenon DEF RefundOf
  <2> QED BY <1>1, <2>1, <2>2, RefundedRight
<1>6. \A w \in Miners : /\ miner'[w].demand = DemandReversed(j)[w].demand
                        /\ miner'[w].reg = miner[w].reg
  <2>1. 0 \in Nat
    OBVIOUS
  <2> QED BY <1>1, <1>4, <2>1, ReversedDemand
<1>7. /\ \A k \in Jobs \ {j} : SameRecord(k)
      /\ job'[j].miner = job[j].miner /\ Undone(j)'
  BY <1>1, <1>4, Condemned
<1> QED BY <1>4, <1>5, <1>6, <1>7, ReversalEarns

LEMMA CheatedEarns ==
  ASSUME Earning, Safe', OperatorsWait, NEW j \in Jobs, NEW no, AdjudicateCheated(j, no)
  PROVE  Earning'
<1>1. Safe /\ IInv /\ OpenDispute(j)
  BY DEF Earning, Safe, AdjudicateCheated, Admissible
<1>2. PICK amt \in Nat : amt = SlashAmount(j)
  BY <1>1, SlashAmountOK
<1>3. PICK c : c = AdjudicatedAccount(acct[j], amt, no)
  OBVIOUS
<1>4. PICK b : b = [c EXCEPT !.bondBack = c.bondBack + c.bond, !.bond = 0]
  OBVIOUS
<1>5. PICK by : /\ acct' = [acct EXCEPT ![j] = b]
                /\ miner' = TakeStake(DemandReversed(j), j, amt)
                /\ Close(j, {"adjudicated"}, by, TRUE)
  BY <1>2, <1>3, <1>4 DEF AdjudicateCheated
<1>6. b.fee = acct[j].fee /\ b.right = 0 /\ b.credit = acct[j].credit
  <2>1. BondBackOn(c, no, b)
    BY <1>4, Zenon DEF BondBackOn
  <2>2. RefundOf(j, no, c)
    BY <1>1, <1>2, <1>3, Zenon DEF RefundOf
  <2> QED BY <1>1, <2>1, <2>2, RefundedRight
<1>7. \A w \in Miners : /\ miner'[w].demand = DemandReversed(j)[w].demand
                        /\ miner'[w].reg = miner[w].reg
  BY <1>1, <1>2, <1>5, ReversedDemand
<1>8. /\ \A k \in Jobs \ {j} : SameRecord(k)
      /\ job'[j].miner = job[j].miner /\ Undone(j)'
  BY <1>1, <1>5, Condemned
<1> QED BY <1>5, <1>6, <1>7, <1>8, ReversalEarns

LEMMA SlashEarns ==
  ASSUME Earning, Safe', OperatorsWait, NEW e \in todo, NEW no, ResolveSlash(e, no)
  PROVE  Earning'
<1>1. Safe /\ IInv /\ ResolveDue(e)
  BY DEF Earning, Safe, ResolveSlash, Judged
<1>2. PICK j \in Jobs : j = e[2]
  BY <1>1, EntryOK DEF ResolveDue
<1>3. OpenDispute(j)
  BY <1>1, <1>2 DEF ResolveDue
<1>4. PICK amt \in Nat : amt = SlashAmount(j)
  BY <1>1, SlashAmountOK
<1>5. PICK c : c = SlashedAccount(acct[j], amt, no)
  OBVIOUS
<1>6. PICK b : b = refundDisputeBond(c, no)
  OBVIOUS
<1>7. /\ acct' = [acct EXCEPT ![j] = b]
      /\ miner' = TakeStake(DemandReversed(j), j, amt)
      /\ Close(j, {"clawed", "quorum"}, "jury", TRUE)
  BY <1>2, <1>4, <1>5, <1>6 DEF ResolveSlash
<1>8. b.fee = acct[j].fee /\ b.right = 0 /\ b.credit = acct[j].credit
  <2>1. BondBackOn(c, no, b)
    BY <1>6, Zenon DEF BondBackOn
  <2>2. RefundOf(j, no, c)
    BY <1>3, <1>4, <1>5, Zenon DEF RefundOf
  <2> QED BY <1>1, <2>1, <2>2, RefundedRight
<1>9. \A w \in Miners : /\ miner'[w].demand = DemandReversed(j)[w].demand
                        /\ miner'[w].reg = miner[w].reg
  BY <1>1, <1>4, <1>7, ReversedDemand
<1>10. /\ \A k \in Jobs \ {j} : SameRecord(k)
      /\ job'[j].miner = job[j].miner /\ Undone(j)'
  BY <1>1, <1>7, Condemned
<1> QED BY <1>7, <1>8, <1>9, <1>10, ReversalEarns

LEMMA UnwindEarns ==
  ASSUME Earning, Safe', OperatorsWait, NEW j \in Jobs, NEW no, NEW d, Unwind(j, no, d)
  PROVE  Earning'
<1>1. Safe /\ IInv
  BY DEF Earning, Safe
<1>2. PICK c : c = refundRetained(acct[j], no)
  OBVIOUS
<1>3. PICK b : b = refundDisputeBond(c, no)
  OBVIOUS
<1>4. acct' = [acct EXCEPT ![j] = b] /\ miner' = DemandReversed(j)
  BY <1>2, <1>3 DEF Unwind
<1>5. b.fee = acct[j].fee /\ b.right = 0 /\ b.credit = acct[j].credit
  <2>1. BondBackOn(c, no, b)
    BY <1>3, Zenon DEF BondBackOn
  <2>2. RefundOf(j, no, c)
    BY <1>2, Zenon DEF RefundOf
  <2> QED BY <1>1, <2>1, <2>2, RefundedRight
<1>6. \A w \in Miners : /\ miner'[w].demand = DemandReversed(j)[w].demand
                        /\ miner'[w].reg = miner[w].reg
  <2>1. 0 \in Nat
    OBVIOUS
  <2> QED BY <1>1, <1>4, <2>1, ReversedDemand
<1>7. /\ \A k \in Jobs \ {j} : SameRecord(k)
      /\ job'[j].miner = job[j].miner /\ Undone(j)'
  BY <1>1 DEF Unwind, IInv, JobRecord, SameRecord, Undone
<1> QED BY <1>4, <1>5, <1>6, <1>7, ReversalEarns

(* Neither a record nor an account moved.                                   *)
LEMMA IdleEarns ==
  ASSUME Earning, Safe', OperatorsWait, job' = job, acct' = acct, DemandsKept
  PROVE  Earning'
<1>1. \A k \in Jobs : SameGain(k)
  BY DEF SameGain
<1> QED BY <1>1, QuietEarning

LEMMA LeaveEarns ==
  ASSUME Earning, Safe', OperatorsWait, NEW m \in Miners, Leave(m), acct' = acct
  PROVE  Earning'
<1>1. IInv
  BY DEF Earning, Safe
<1>2. \A k \in Jobs : SameGain(k)
  BY <1>1 DEF Leave, SameGain, IInv, JobRecord
<1>3. DemandsKept
  BY <1>1 DEF Leave, DemandsKept, IInv, MinerRecord
<1> QED BY <1>2, <1>3, QuietEarning

(* A dispute writes a bond, and nothing of what was earned.                 *)
LEMMA DisputeEarns ==
  ASSUME Earning, Safe', OperatorsWait, NEW j \in Jobs, NEW redo, DisputeVerdict(j, redo)
  PROVE  Earning'
<1>1. IInv
  BY DEF Earning, Safe
<1>2. PICK a \in Account : a = acct[j]
  BY <1>1, AccountOf
<1>3. PICK x : acct' = [acct EXCEPT ![j] = [a EXCEPT !.bond = x, !.bondIn = x]]
  BY <1>1, <1>2 DEF DisputeVerdict, IInv, Ledger
<1>4. \A k \in Jobs : /\ acct'[k].fee = acct[k].fee /\ acct'[k].right = acct[k].right
                      /\ acct'[k].credit = acct[k].credit
  BY <1>1, <1>2, <1>3 DEF Account, IInv, Ledger
<1>5. \A k \in Jobs : /\ job'[k].miner = job[k].miner /\ job'[k].against = job[k].against
                      /\ job'[k].by = job[k].by
  BY <1>1 DEF DisputeVerdict, IInv, JobRecord
<1>6. \A k \in Jobs : SameGain(k)
  BY <1>4, <1>5 DEF SameGain
<1>7. DemandsKept
  BY DEF DisputeVerdict, DemandsKept
<1> QED BY <1>6, <1>7, QuietEarning

LEMMA TxEarns == ASSUME RatesFixed, Earning, Safe', OperatorsWait, Tx PROVE Earning'
<1>1. IInv
  BY DEF Earning, Safe
<1>2. CASE \E j \in Jobs, fee \in Fees : OpenJob(j, fee)
  BY <1>2, OpenJobEarns
<1>3. CASE \E j \in Jobs, m \in Miners :
             \/ \E v \in {"vector", "garbage"} : CommitWork(j, m, v)
             \/ \E v \in {"valid", "invalid"}  : CommitVerdict(j, m, v)
             \/ \E v \in {"agree", "differ"}   : CommitRedo(j, m, v)
  <2>1. acct' = acct /\ job' = job /\ miner' = miner
    BY <1>3 DEF CommitWork, CommitVerdict, CommitRedo
  <2> QED BY <2>1, IdleEarns DEF DemandsKept
<1>4. CASE \E j \in Jobs, redo \in SUBSET Miners : DisputeVerdict(j, redo)
  BY <1>4, DisputeEarns
<1>5. CASE \E j \in Jobs, no \in SUBSET Refusable :
             ResolveRejected(j, no) \/ AdjudicateHonest(j, no)
  BY <1>5, AcquittedEarns
<1>6. CASE \E j \in Jobs, no \in SUBSET Refusable : ResolveUpheld(j, no)
  BY <1>6, UpheldEarns
<1>7. CASE \E j \in Jobs, no \in SUBSET Refusable : AdjudicateCheated(j, no)
  BY <1>7, CheatedEarns
<1>8. CASE \E j \in Jobs, no \in SUBSET Refusable : settleOptimistic(j, no)
  BY <1>8, SettleEarns
<1>9. CASE \E m \in Leavers, self \in BOOLEAN : UpdateMiner(m, self)
  <2>1. acct' = acct /\ job' = job
    BY <1>9 DEF UpdateMiner
  <2>2. DemandsKept
    BY <1>1, <1>9 DEF UpdateMiner, DemandsKept, IInv, MinerRecord
  <2> QED BY <2>1, <2>2, IdleEarns
<1>10. CASE \E m \in Leavers, self \in BOOLEAN, s \in Stakes : CreateMiner(m, s, self)
  <2>1. acct' = acct /\ job' = job
    BY <1>10 DEF CreateMiner
  <2>2. PICK m \in Leavers : \E self \in BOOLEAN, s \in Stakes : CreateMiner(m, s, self)
    BY <1>10
  <2>3. DemandsKept
    <3>1. miner'[m].demand = 0 /\ \A n \in Miners \ {m} : miner'[n] = miner[n]
      BY <1>1, <2>2, BoundsAssumption DEF CreateMiner, IInv
    <3> QED BY <3>1 DEF DemandsKept
  <2> QED BY <2>1, <2>3, IdleEarns
<1>11. CASE \E m \in Leavers, live \in BOOLEAN : DeleteMiner(m, live)
  <2>1. PICK m \in Miners : Leave(m) /\ acct' = acct
    BY <1>11, BoundsAssumption DEF DeleteMiner
  <2> QED BY <2>1, LeaveEarns
<1>12. CASE \E p \in ParamSets : UpdateParams(p)
  <2>1. acct' = acct /\ job' = job /\ miner' = miner
    BY <1>12 DEF UpdateParams
  <2> QED BY <2>1, IdleEarns DEF DemandsKept
<1> QED BY <1>2, <1>3, <1>4, <1>5, <1>6, <1>7, <1>8, <1>9, <1>10, <1>11, <1>12 DEF Tx

-----------------------------------------------------------------------------
(* The EndBlocker.                                                          *)
LEMMA RecordedEarns ==
  ASSUME Earning, Safe', OperatorsWait, miner' = miner,
         \A k \in Jobs : /\ acct'[k].fee = acct[k].fee /\ acct'[k].right = acct[k].right
                         /\ acct'[k].credit = acct[k].credit,
         \A k \in Jobs : /\ job'[k].miner = job[k].miner /\ job'[k].against = job[k].against
                         /\ (job'[k].by = "unwind" <=> job[k].by = "unwind")
  PROVE  Earning'
<1>1. \A k \in Jobs : SameGain(k)
  BY DEF SameGain
<1>2. DemandsKept
  BY DEF DemandsKept
<1> QED BY <1>1, <1>2, QuietEarning

LEMMA DrawEarns ==
  ASSUME Earning, Safe', OperatorsWait, NEW e \in todo,
         \/ \E com, prim : Reveal(e, com, prim)
         \/ \E jury : AuditSelect(e, jury) \/ AuditSmallJury(e, jury)
  PROVE  Earning'
<1>1. IInv
  BY DEF Earning, Safe
<1>2. PICK j \in Jobs : j = e[2]
  BY <1>1, EntryOK DEF Reveal, AuditSelect, AuditSmallJury, AuditDrawn, AuditDue
<1>3. miner' = miner
  BY DEF Reveal, AuditSelect, AuditSmallJury
<1>4. \A k \in Jobs : /\ acct'[k].fee = acct[k].fee /\ acct'[k].right = acct[k].right
                      /\ acct'[k].credit = acct[k].credit
  <2>1. CASE acct' = acct
    BY <2>1
  <2>2. CASE \E jury : AuditSelect(e, jury)
    <3>1. PICK x : acct' = [acct EXCEPT ![j].bond = x]
      BY <1>2, <2>2 DEF AuditSelect
    <3> QED BY <1>1, <3>1, AccountOf DEF Account, IInv, Ledger
  <2> QED BY <2>1, <2>2 DEF Reveal, AuditSmallJury
<1>5. \A k \in Jobs : /\ job'[k].miner = job[k].miner /\ job'[k].against = job[k].against
                      /\ job'[k].by = job[k].by
  <2>1. CASE \E com, prim : Reveal(e, com, prim)
    <3>1. PICK com, prim : Reveal(e, com, prim)
      BY <2>1
    <3>2. job' = [job EXCEPT ![j].revealed = TRUE, ![j].com = com, ![j].prim = prim]
      BY <1>2, <3>1 DEF Reveal
    <3> QED BY <1>1, <3>2 DEF IInv, JobRecord
  <2>2. CASE \E jury : AuditSelect(e, jury)
    BY <1>1, <1>2, <2>2 DEF AuditSelect, IInv, JobRecord
  <2>3. CASE \E jury : AuditSmallJury(e, jury)
    BY <1>1, <1>2, <2>3 DEF AuditSmallJury, IInv, JobRecord
  <2> QED BY <2>1, <2>2, <2>3
<1> QED BY <1>3, <1>4, <1>5, RecordedEarns

(* An expired job was never paid: nobody earned from it.                    *)
LEMMA ExpireEarns ==
  ASSUME Earning, Safe', OperatorsWait, NEW e \in todo, NEW no, ExpireRefund(e, no)
  PROVE  Earning'
<1>1. IInv
  BY DEF Earning, Safe
<1>2. PICK j \in Jobs : j = e[2]
  BY <1>1, EntryOK DEF ExpireRefund
<1>3. PICK a \in Account : a = acct[j]
  BY <1>1, AccountOf
<1>4. acct' = [acct EXCEPT ![j] = ExpireAccount(a)] /\ miner' = miner
  BY <1>2, <1>3 DEF ExpireRefund
<1>5. /\ ExpireAccount(a).fee = a.fee /\ ExpireAccount(a).right = a.right
      /\ ExpireAccount(a).credit = a.credit
  BY <1>3 DEF ExpireAccount, Account
<1>6. \A k \in Jobs : /\ acct'[k].fee = acct[k].fee /\ acct'[k].right = acct[k].right
                      /\ acct'[k].credit = acct[k].credit
  BY <1>1, <1>3, <1>4, <1>5 DEF IInv, Ledger
<1>7. job[j].by # "unwind"
  <2>1. ~paid(j) /\ ~resolved(j)
    BY <1>2 DEF ExpireRefund, paid, resolved, jobIsPaid, jobIsResolved
  <2> QED BY <2>1 DEF Earning, Safe, JobSafe, Staged
<1>8. \A k \in Jobs : /\ job'[k].miner = job[k].miner /\ job'[k].against = job[k].against
                      /\ (job'[k].by = "unwind" <=> job[k].by = "unwind")
  BY <1>1, <1>2, <1>7 DEF ExpireRefund, IInv, JobRecord
<1> QED BY <1>4, <1>6, <1>8, RecordedEarns

(* The releases of the EndBlocker.                                          *)
LEMMA ReleasedEarns ==
  ASSUME Earning, Safe', OperatorsWait, NEW e \in todo, NEW no,
         AuditPass(e, no) \/ RetryRelease(e, no)
  PROVE  Earning'
<1>1. IInv
  BY DEF Earning, Safe
<1>2. PICK j \in Jobs : j = e[2]
  BY <1>1, EntryOK DEF AuditPass, AuditDue, RetryRelease
<1>3. PICK b : b = Released(j, no)
  OBVIOUS
<1>4. Release(j, b)
  BY <1>2, <1>3 DEF AuditPass, RetryRelease
<1>5. /\ \A k \in Jobs \ {j} : SameRecord(k)
      /\ job'[j].miner = job[j].miner /\ (Undone(j)' => Undone(j))
  BY <1>1, <1>2 DEF AuditPass, RetryRelease, IInv, JobRecord, SameRecord, Undone
<1> QED BY <1>3, <1>4, <1>5, ReleaseEarns

LEMMA ClosedForMinerEarns ==
  ASSUME Earning, Safe', OperatorsWait, NEW e \in todo, NEW no,
         ResolveSilent(e, no) \/ ResolveUnfounded(e, no) \/ ResolveVindicate(e, no)
  PROVE  Earning'
<1>1. IInv /\ ResolveDue(e)
  BY DEF Earning, Safe, ResolveSilent, ResolveUnfounded, ResolveVindicate, Judged
<1>2. PICK j \in Jobs : j = e[2]
  BY <1>1, EntryOK DEF ResolveDue
<1>3. PICK b, marks, by :
        /\ Release(j, b) /\ Close(j, marks, by, FALSE) /\ by \in {"silent", "unfounded", "jury"}
        /\ b = refundDisputeBond(Released(j, no), no) \/ b = forfeitBond(Released(j, no))
  BY <1>2 DEF ResolveSilent, ResolveUnfounded, ResolveVindicate
<1>4. by # "unwind"
  BY <1>3
<1>5. /\ \A k \in Jobs \ {j} : SameRecord(k)
      /\ job'[j].miner = job[j].miner /\ ~Undone(j)'
  BY <1>1, <1>3, <1>4, Forgiven
<1> QED BY <1>3, <1>5, ReleaseEarns

LEMMA UnwindsEarn ==
  ASSUME Earning, Safe', OperatorsWait, NEW e \in todo, NEW no,
         \/ AuditNoSeedUnwind(e, no)
         \/ \E jury \in SUBSET Miners : AuditSmallJuryUnwind(e, jury, no)
         \/ ResolveUnwind(e, no)
  PROVE  Earning'
<1>1. PICK d : Unwind(e[2], no, d)
  BY DEF AuditNoSeedUnwind, AuditSmallJuryUnwind, ResolveUnwind
<1>2. phase # "prune"
  BY DEF AuditNoSeedUnwind, AuditSmallJuryUnwind, ResolveUnwind, AuditDrawn, AuditDue, Undecided,
         Judged, ResolveDue
<1>3. e[2] \in Jobs
  BY <1>2, EntryOK DEF Earning, Safe
<1> QED BY <1>1, <1>3, UnwindEarns

LEMMA PruneEarns ==
  ASSUME Earning, Safe', OperatorsWait, NEW e \in todo, NEW no, PruneMiner(e, no)
  PROVE  Earning'
<1>1. e[2] \in Miners /\ acct' = acct
  BY EntryOK DEF PruneMiner, Earning, Safe
<1>2. CASE "owner" \in no
  BY <1>1, <1>2, IdleEarns DEF PruneMiner, DemandsKept
<1>3. CASE "owner" \notin no
  BY <1>1, <1>3, LeaveEarns DEF PruneMiner
<1> QED BY <1>2, <1>3

LEMMA ServeEntryEarns ==
  ASSUME Earning, Safe', OperatorsWait, NEW e \in todo, ServeEntry(e) PROVE Earning'
<1>1. CASE \/ ExpireMoved(e) \/ RevealDeferred(e) \/ AuditDrop(e) \/ AuditNoSeedDefer(e)
           \/ ResolveStale(e) \/ ResolveDefer(e) \/ \E no \in SUBSET Refusable : ExpireLater(e, no)
  <2>1. job' = job /\ acct' = acct /\ miner' = miner
    BY <1>1 DEF ExpireMoved, RevealDeferred, AuditDrop, AuditNoSeedDefer, ResolveStale,
                ResolveDefer, ExpireLater
  <2> QED BY <2>1, IdleEarns DEF DemandsKept
<1>2. CASE \/ \E com \in SUBSET Miners, prim \in Miners \union {NoMiner} : Reveal(e, com, prim)
           \/ \E jury \in SUBSET Miners : AuditSelect(e, jury) \/ AuditSmallJury(e, jury)
  BY <1>2, DrawEarns
<1>3. CASE \E no \in SUBSET Refusable : ExpireRefund(e, no) \/ PruneMiner(e, no)
  BY <1>3, ExpireEarns, PruneEarns
<1>4. CASE \E no \in SUBSET Refusable : AuditPass(e, no) \/ RetryRelease(e, no)
  BY <1>4, ReleasedEarns
<1>5. CASE \E no \in SUBSET Refusable :
             ResolveSilent(e, no) \/ ResolveUnfounded(e, no) \/ ResolveVindicate(e, no)
  BY <1>5, ClosedForMinerEarns
<1>6. CASE \E no \in SUBSET Refusable :
             \/ AuditNoSeedUnwind(e, no)
             \/ \E jury \in SUBSET Miners : AuditSmallJuryUnwind(e, jury, no)
             \/ ResolveUnwind(e, no)
  BY <1>6, UnwindsEarn
<1>7. CASE \E no \in SUBSET Refusable : ResolveSlash(e, no)
  BY <1>7, SlashEarns
<1> QED BY <1>1, <1>2, <1>3, <1>4, <1>5, <1>6, <1>7 DEF ServeEntry

-----------------------------------------------------------------------------
LEMMA InitEarning == Init => Earning
<1> SUFFICES ASSUME Init PROVE Earning
  OBVIOUS
<1>1. Safe
  BY InitSafe
<1>2. \A j \in Jobs : acct[j].right = 0 /\ acct[j].credit = 0
  BY DEF Init, EmptyAccount
<1>3. \A j \in Jobs : Credited(j)
  BY <1>2 DEF Credited
<1>4. \A m \in Miners : miner[m].demand = 0
  BY DEF Init
<1>5. \A m \in Miners : NoDemand(m) /\ Covered(m)
  <2>1. \A m \in Miners : Income(m) \in Nat
    BY <1>1, IncomeNat DEF Safe
  <2> QED BY <1>4, <2>1 DEF NoDemand, Covered
<1> QED BY <1>1, <1>3, <1>5 DEF Earning

LEMMA EarningStep == RatesFixed /\ Earning /\ [Next]_vars /\ [OperatorsWait]_vars => Earning'
<1> SUFFICES ASSUME RatesFixed, Earning, [Next]_vars, [OperatorsWait]_vars PROVE Earning'
  OBVIOUS
<1>1. Safe'
  BY StepSafe DEF Earning
<1>2. OperatorsWait
  BY DEF OperatorsWait, vars
<1>3. CASE Tx
  BY <1>1, <1>2, <1>3, TxEarns
<1>4. CASE \E e \in todo : ServeEntry(e)
  BY <1>1, <1>2, <1>4, ServeEntryEarns
<1>5. CASE \E n \in Phases : EndPhase(n)
  BY <1>1, <1>2, <1>5, IdleEarns DEF EndPhase, DemandsKept
<1>6. CASE NextBlock
  <2>1. acct' = acct /\ job' = job
    BY <1>6 DEF NextBlock
  <2>2. DemandsKept
    BY <1>6 DEF NextBlock, DemandsKept, Earning, Safe, IInv, MinerRecord
  <2> QED BY <1>1, <1>2, <2>1, <2>2, IdleEarns
<1>7. CASE UNCHANGED vars
  BY <1>1, <1>2, <1>7, IdleEarns DEF vars, DemandsKept
<1> QED BY <1>3, <1>4, <1>5, <1>6, <1>7 DEF Next, EndBlock, Horizon

(* The books balance, and the demand that a miner's subsidy is computed     *)
(* from is covered by the fees it was credited and not stripped of: a       *)
(* release credits a right once, and the reversal of a refund takes back at *)
(* least as much, as long as governance leaves the two rates alone and no   *)
(* miner changes its operator while it has a right.                         *)
THEOREM DemandCovered == Spec /\ [][OperatorsWait]_vars /\ RatesFixed => []CountersBacked
<1>1. CASE RatesFixed
  <2>1. Init => Backed /\ Earning
    BY InitBacked, InitEarning
  <2>2. Backed /\ Earning /\ [Next]_vars /\ [OperatorsWait]_vars => (Backed /\ Earning)'
    BY <1>1, StepBacked, EarningStep
  <2>3. Backed /\ Earning => CountersBacked
    BY BalanceSaid, DemandSaid DEF CountersBacked, Backed, Safe, Earning
  <2> QED BY <2>1, <2>2, <2>3, PTL DEF Spec
<1>2. CASE ~RatesFixed
  BY <1>2, PTL
<1> QED BY <1>1, <1>2

=============================================================================

--------------------------- MODULE JobEscrow_proof ---------------------------
(***************************************************************************)
(* What each movement of money does to the account of a job: it stays an   *)
(* account (no field, unsigned in the code, goes below zero) and every     *)
(* coin of the fee stays in exactly one place.                             *)
(***************************************************************************)
EXTENDS JobEscrow, TLAPS

-----------------------------------------------------------------------------
(* Shares.                                                                  *)

(* A share in basis points is a natural number, at most the whole.          *)
LEMMA BpsBound ==
  ASSUME NEW x \in Nat, NEW b \in Nat, b <= 10000
  PROVE  Bps(x, b) \in Nat /\ Bps(x, b) <= x
<1> DEFINE y == x * b
<1>1. y \in Nat
  OBVIOUS
<1>2. y <= x * 10000
  OBVIOUS
<1>3. y \div 10000 \in Nat /\ y \div 10000 <= x
  <2> HIDE DEF y
  <2> QED BY <1>1, <1>2
<1> QED
  BY <1>3 DEF Bps

(* Two shares whose rates add up to at most the whole fit in the whole.     *)
LEMMA BpsSplit ==
  ASSUME NEW x \in Nat, NEW b \in Nat, NEW c \in Nat, b + c <= 10000
  PROVE  Bps(x, b) + Bps(x, c) <= x
<1> DEFINE y == x * b
           z == x * c
<1>1. y \in Nat /\ z \in Nat
  OBVIOUS
<1>2. y + z = x * (b + c)
  OBVIOUS
<1>3. x * (b + c) <= x * 10000
  OBVIOUS
<1>4. y + z <= x * 10000
  BY <1>2, <1>3
<1>5. y \div 10000 + z \div 10000 <= x
  <2> HIDE DEF y, z
  <2> QED BY <1>1, <1>4
<1> QED
  BY <1>5 DEF Bps

(* The rates Params.Validate bounds.                                        *)
ValidRates(p) ==
  /\ p.FeeBurnBps \in Nat /\ p.FeeBurnBps <= 10000
  /\ p.ProtocolFeeBps \in Nat /\ p.ProtocolFeeBps <= 10000
  /\ p.ValidatorRewardBps \in Nat /\ p.ValidatorRewardBps <= 10000
  /\ p.TeamFeeBps \in Nat /\ p.TeamFeeBps <= 10000
  /\ p.ValidatorRewardBps + p.TeamFeeBps <= 10000
  /\ p.HoldBps \in Nat /\ p.HoldBps <= 10000

(* The split of a fee that covers its burn and its cut has no negative      *)
(* part: the cut covers its three shares and the net covers what is held.   *)
LEMMA SplitOK ==
  ASSUME NEW p, ValidRates(p), NEW fee \in Nat,
         BurnShare(p, fee) + Cut(p, fee) <= fee
  PROVE  /\ BurnShare(p, fee) \in Nat /\ Cut(p, fee) \in Nat
         /\ ValShare(p, fee) \in Nat /\ TeamShare(p, fee) \in Nat
         /\ TreasShare(p, fee) \in Nat
         /\ ValShare(p, fee) + TeamShare(p, fee) + TreasShare(p, fee) = Cut(p, fee)
         /\ MinerNet(p, fee) \in Nat
         /\ MinerNet(p, fee) = fee - BurnShare(p, fee) - Cut(p, fee)
         /\ HeldPart(p, fee) \in Nat /\ HeldPart(p, fee) <= MinerNet(p, fee)
<1>1. BurnShare(p, fee) \in Nat
  <2>1. p.FeeBurnBps \in Nat /\ p.FeeBurnBps <= 10000
    BY DEF ValidRates
  <2> QED BY <2>1, BpsBound DEF BurnShare
<1>2. Cut(p, fee) \in Nat
  <2>1. p.ProtocolFeeBps \in Nat /\ p.ProtocolFeeBps <= 10000
    BY DEF ValidRates
  <2> QED BY <2>1, BpsBound DEF Cut
<1>3. /\ ValShare(p, fee) \in Nat /\ TeamShare(p, fee) \in Nat
      /\ ValShare(p, fee) + TeamShare(p, fee) <= Cut(p, fee)
  <2>1. PICK v \in Nat, t \in Nat : /\ v = p.ValidatorRewardBps /\ t = p.TeamFeeBps
                                   /\ v <= 10000 /\ t <= 10000 /\ v + t <= 10000
    BY DEF ValidRates
  <2>2. PICK c \in Nat : c = Cut(p, fee)
    BY <1>2
  <2>3. Bps(c, v) \in Nat /\ Bps(c, t) \in Nat /\ Bps(c, v) + Bps(c, t) <= c
    <3>0. v <= 10000 /\ t <= 10000 /\ v + t <= 10000
      BY <2>1
    <3>1. Bps(c, v) \in Nat
      BY <3>0, BpsBound
    <3>2. Bps(c, t) \in Nat
      BY <3>0, BpsBound
    <3>3. Bps(c, v) + Bps(c, t) <= c
      BY <3>0, BpsSplit
    <3> QED BY <3>1, <3>2, <3>3
  <2>4. ValShare(p, fee) = Bps(c, v) /\ TeamShare(p, fee) = Bps(c, t)
    BY <2>1, <2>2 DEF ValShare, TeamShare
  <2> QED BY <2>2, <2>3, <2>4
<1>4. MinerNet(p, fee) \in Nat
  BY <1>1, <1>2 DEF MinerNet
<1>5. HeldPart(p, fee) \in Nat /\ HeldPart(p, fee) <= MinerNet(p, fee)
  <2>1. PICK r \in Nat : r = p.HoldBps /\ r <= 10000
    BY DEF ValidRates
  <2>2. PICK n \in Nat : n = MinerNet(p, fee)
    BY <1>4
  <2>3. HeldPart(p, fee) = Bps(n, r)
    BY <2>1, <2>2 DEF HeldPart
  <2> QED BY <2>1, <2>2, <2>3, BpsBound
<1> QED
  BY <1>1, <1>2, <1>3, <1>4, <1>5 DEF TreasShare, MinerNet

-----------------------------------------------------------------------------
(* Opening, expiring and settling.                                          *)

(* The account of a job not yet opened.                                     *)
LEMMA EmptyAccountOK == EmptyAccount \in Account /\ FeeConserved(EmptyAccount)
BY DEF EmptyAccount, Account, FeeConserved, retainedTotal, FeeOut

(* OpenJob puts the whole fee in escrow.                                    *)
LEMMA OpenAccountOK ==
  ASSUME NEW fee \in Nat
  PROVE  /\ OpenAccount(fee) \in Account
         /\ FeeConserved(OpenAccount(fee))
         /\ OpenAccount(fee).escrow = fee /\ OpenAccount(fee).fee = fee
<1>1. \A a \in Account : [a EXCEPT !.fee = fee, !.escrow = fee] \in Account
  BY DEF Account
<1>2. OpenAccount(fee) \in Account
  BY <1>1, EmptyAccountOK DEF OpenAccount
<1>3. FeeConserved(OpenAccount(fee)) /\ OpenAccount(fee).escrow = fee /\ OpenAccount(fee).fee = fee
  BY DEF OpenAccount, EmptyAccount, FeeConserved, retainedTotal, FeeOut
<1> QED
  BY <1>2, <1>3

(* An expiry returns the whole escrow.                                      *)
LEMMA ExpireAccountOK ==
  ASSUME NEW a \in Account, FeeConserved(a)
  PROVE  /\ ExpireAccount(a) \in Account
         /\ FeeConserved(ExpireAccount(a))
         /\ ExpireAccount(a).escrow = 0
         /\ ExpireAccount(a).toTreasury = a.toTreasury
         /\ ExpireAccount(a).bondForfeit = a.bondForfeit
         /\ ExpireAccount(a).toTeamPool = a.toTeamPool
<1>1. \A x \in Nat : [a EXCEPT !.escrow = 0, !.toClient = x] \in Account
  BY DEF Account
<1>2. a.toClient + a.escrow \in Nat
  BY DEF Account
<1>3. ExpireAccount(a) \in Account
  BY <1>1, <1>2 DEF ExpireAccount
<1>4. FeeConserved(ExpireAccount(a)) /\ ExpireAccount(a).escrow = 0
  BY DEF ExpireAccount, Account, FeeConserved, retainedTotal, FeeOut
<1>5. /\ ExpireAccount(a).toTreasury = a.toTreasury
      /\ ExpireAccount(a).bondForfeit = a.bondForfeit
      /\ ExpireAccount(a).toTeamPool = a.toTeamPool
  BY DEF ExpireAccount, Account
<1> QED
  BY <1>3, <1>4, <1>5

(* A zero total has zero parts.                                             *)
LEMMA NothingRetained ==
  ASSUME NEW a \in Account, a.held + a.burn + a.val + a.team + a.treas = 0
  PROVE  a.held = 0 /\ a.burn = 0 /\ a.val = 0 /\ a.team = 0 /\ a.treas = 0
BY DEF Account

(* Nothing out means no payee got anything.                                 *)
LEMMA NothingPaid ==
  ASSUME NEW a \in Account, FeeOut(a) = 0
  PROVE  /\ a.toClient = 0 /\ a.toMiner = 0 /\ a.toVal = 0 /\ a.toTeam = 0 /\ a.toTeamPool = 0
         /\ a.toTreasury = 0 /\ a.burned = 0 /\ a.stray = 0
<1>1. PICK c \in Nat : c = a.toClient
  BY DEF Account
<1>2. PICK m \in Nat : m = a.toMiner
  BY DEF Account
<1>3. PICK v \in Nat : v = a.toVal
  BY DEF Account
<1>4. PICK t \in Nat : t = a.toTeam
  BY DEF Account
<1>5. PICK o \in Nat : o = a.toTeamPool
  BY DEF Account
<1>6. PICK r \in Nat : r = a.toTreasury
  BY DEF Account
<1>7. PICK b \in Nat : b = a.burned
  BY DEF Account
<1>8. PICK s \in Nat : s = a.stray
  BY DEF Account
<1>9. c + m + v + t + o + r + b + s = 0
  BY <1>1, <1>2, <1>3, <1>4, <1>5, <1>6, <1>7, <1>8 DEF FeeOut
<1>10. c = 0 /\ m = 0 /\ v = 0 /\ t = 0 /\ o = 0 /\ r = 0 /\ b = 0 /\ s = 0
  BY <1>9
<1> QED BY <1>1, <1>2, <1>3, <1>4, <1>5, <1>6, <1>7, <1>8, <1>10

(* An untouched escrow is the whole fee: nothing was retained or paid.      *)
LEMMA Untouched ==
  ASSUME NEW a \in Account, FeeConserved(a), a.escrow = a.fee
  PROVE  /\ a.held = 0 /\ a.burn = 0 /\ a.val = 0 /\ a.team = 0 /\ a.treas = 0
         /\ a.toClient = 0 /\ a.toMiner = 0 /\ a.toVal = 0 /\ a.toTeam = 0 /\ a.toTeamPool = 0
         /\ a.toTreasury = 0 /\ a.burned = 0 /\ a.stray = 0
<1>1. PICK r \in Nat, o \in Nat : r = retainedTotal(a) /\ o = FeeOut(a)
  <2>1. retainedTotal(a) \in Nat
    BY DEF Account, retainedTotal
  <2>2. FeeOut(a) \in Nat
    BY DEF Account, FeeOut
  <2> QED BY <2>1, <2>2
<1>2. PICK f \in Nat : f = a.fee
  BY DEF Account
<1>3. f = f + r + o
  BY <1>1, <1>2 DEF FeeConserved
<1>4. r = 0 /\ o = 0
  BY <1>3
<1>5. a.held = 0 /\ a.burn = 0 /\ a.val = 0 /\ a.team = 0 /\ a.treas = 0
  <2>1. a.held + a.burn + a.val + a.team + a.treas = 0
    BY <1>1, <1>4 DEF retainedTotal
  <2> QED BY <2>1, NothingRetained
<1>6. /\ a.toClient = 0 /\ a.toMiner = 0 /\ a.toVal = 0 /\ a.toTeam = 0 /\ a.toTeamPool = 0
      /\ a.toTreasury = 0 /\ a.burned = 0 /\ a.stray = 0
  BY <1>1, <1>4, NothingPaid
<1> QED BY <1>5, <1>6

(* A settlement of an untouched escrow: the parts add up to the fee, dust   *)
(* and a skipped payment included.                                          *)
LEMMA SettleAccountOK ==
  ASSUME NEW a \in Account, FeeConserved(a), a.escrow = a.fee,
         NEW p, ValidRates(p), NEW no, NEW own \in BOOLEAN, NEW h \in Nat,
         BurnShare(p, a.fee) + Cut(p, a.fee) <= a.fee
  PROVE  /\ SettleAccount(a, p, no, own, h) \in Account
         /\ FeeConserved(SettleAccount(a, p, no, own, h))
         /\ SettleAccount(a, p, no, own, h).toTreasury = a.toTreasury
         /\ SettleAccount(a, p, no, own, h).bondForfeit = a.bondForfeit
         /\ SettleAccount(a, p, no, own, h).toTeamPool = a.toTeamPool
<1>1. PICK f \in Nat : f = a.fee
  BY DEF Account
<1>2. /\ BurnShare(p, f) \in Nat /\ Cut(p, f) \in Nat
      /\ ValShare(p, f) \in Nat /\ TeamShare(p, f) \in Nat /\ TreasShare(p, f) \in Nat
      /\ ValShare(p, f) + TeamShare(p, f) + TreasShare(p, f) = Cut(p, f)
      /\ MinerNet(p, f) \in Nat
      /\ MinerNet(p, f) = f - BurnShare(p, f) - Cut(p, f)
      /\ HeldPart(p, f) \in Nat /\ HeldPart(p, f) <= MinerNet(p, f)
  <2>1. BurnShare(p, f) + Cut(p, f) <= f
    BY <1>1
  <2> QED BY <2>1, SplitOK, Zenon
<1>3. PICK hp \in Nat : hp = HeldPart(p, f)
  BY <1>2
<1>4. PICK vs \in Nat : vs = ValShare(p, f)
  BY <1>2
<1>5. PICK ts \in Nat : ts = TeamShare(p, f)
  BY <1>2
<1>6. PICK tr \in Nat : tr = TreasShare(p, f)
  BY <1>2
<1>7. PICK brn \in Nat : brn = BurnShare(p, f)
  BY <1>2
<1>8. PICK net \in Nat : net = MinerNet(p, f)
  BY <1>2
<1>9. hp <= net /\ f = net + brn + vs + ts + tr
  BY <1>2, <1>3, <1>4, <1>5, <1>6, <1>7, <1>8
<1>10. PICK s1 \in Nat : s1 = Sent(net - hp, "operator", no)
  <2>1. net - hp \in Nat
    BY <1>9
  <2> QED BY <2>1, Zenon DEF Sent
<1>11. PICK s2 \in Nat : s2 = Kept(net - hp, "operator", no)
  <2>1. net - hp \in Nat
    BY <1>9
  <2> QED BY <2>1, Zenon DEF Kept
<1>12. PICK b1 \in Nat : b1 = IF p.HoldBps > 0 THEN brn ELSE 0
  OBVIOUS
<1>13. PICK b2 \in Nat : b2 = IF p.HoldBps > 0 THEN 0 ELSE brn
  OBVIOUS
<1>14. PICK sn \in Nat : sn = IF hp > 0 THEN h ELSE 0
  OBVIOUS
<1>15. PICK rt \in Nat : rt = IF own THEN 0 ELSE tr + ts
  OBVIOUS
<1> DEFINE b == [a EXCEPT !.escrow = 0, !.held = hp, !.since = sn, !.val = vs, !.team = ts,
                          !.treas = tr, !.right = rt, !.burn = b1, !.burned = b2,
                          !.toMiner = s1, !.stray = s2]
<1>16. SettleAccount(a, p, no, own, h) = b
  BY <1>1, <1>3, <1>4, <1>5, <1>6, <1>7, <1>8, <1>10, <1>11, <1>12, <1>13, <1>14, <1>15
  DEF SettleAccount
<1>17. b \in Account
  BY DEF Account
<1>18. /\ b.fee = a.fee /\ b.escrow = 0 /\ b.held = hp /\ b.val = vs /\ b.team = ts /\ b.treas = tr
       /\ b.burn = b1 /\ b.burned = b2 /\ b.toMiner = s1 /\ b.stray = s2
       /\ b.toClient = a.toClient /\ b.toVal = a.toVal /\ b.toTeam = a.toTeam
       /\ b.toTeamPool = a.toTeamPool /\ b.toTreasury = a.toTreasury
       /\ b.bondForfeit = a.bondForfeit
  BY DEF Account
<1>19. FeeConserved(b)
  <2> HIDE DEF b
  <2>1. s1 + s2 = net - hp
    BY <1>9, <1>10, <1>11 DEF Sent, Kept
  <2>2. b1 + b2 = brn
    BY <1>12, <1>13
  <2>3. f = 0 + (hp + b1 + vs + ts + tr) + (0 + s1 + 0 + 0 + 0 + 0 + b2 + s2)
    BY <1>9, <2>1, <2>2
  <2>4. retainedTotal(b) = hp + b1 + vs + ts + tr
    BY <1>18 DEF retainedTotal
  <2>5. FeeOut(b) = 0 + s1 + 0 + 0 + 0 + 0 + b2 + s2
    BY <1>18, Untouched DEF FeeOut
  <2> QED BY <1>1, <1>18, <2>3, <2>4, <2>5 DEF FeeConserved
<1> QED
  BY <1>16, <1>17, <1>18, <1>19

-----------------------------------------------------------------------------
(* Releasing, refunding and what happens to the bond.  Each of them moves   *)
(* the account onward: the fee and the escrow stay, the counters the pools  *)
(* are credited from only grow.                                             *)
Onward(a, b) ==
  /\ b \in Account
  /\ FeeConserved(b)
  /\ b.fee = a.fee /\ b.escrow = a.escrow
  /\ b.toTreasury >= a.toTreasury /\ b.bondForfeit >= a.bondForfeit
  /\ b.toTeamPool >= a.toTeamPool /\ b.credit >= a.credit

(* Two onward moves make one.                                               *)
LEMMA OnwardTransitive ==
  ASSUME NEW a \in Account, NEW b, NEW c, Onward(a, b), Onward(b, c)
  PROVE  Onward(a, c)
<1>1. b \in Account /\ c \in Account
  BY DEF Onward
<1>2. c.toTreasury >= a.toTreasury
  BY <1>1 DEF Onward, Account
<1>3. c.bondForfeit >= a.bondForfeit
  BY <1>1 DEF Onward, Account
<1>4. c.toTeamPool >= a.toTeamPool
  BY <1>1 DEF Onward, Account
<1>5. c.credit >= a.credit
  BY <1>1 DEF Onward, Account
<1> QED BY <1>1, <1>2, <1>3, <1>4, <1>5 DEF Onward

(* A payment is split between payee and fallback.                           *)
LEMMA SentKept ==
  ASSUME NEW x \in Nat, NEW payee, NEW no
  PROVE  /\ Sent(x, payee, no) \in Nat /\ Kept(x, payee, no) \in Nat
         /\ Sent(x, payee, no) + Kept(x, payee, no) = x
BY DEF Sent, Kept

(* The retained total is natural.                                           *)
LEMMA RetainedTotalNat ==
  ASSUME NEW a \in Account
  PROVE  retainedTotal(a) \in Nat
BY DEF Account, retainedTotal

(* A refund empties every retention, whoever accepts it.                    *)
LEMMA RefundOnward ==
  ASSUME NEW a \in Account, FeeConserved(a), NEW no
  PROVE  Onward(a, refundRetained(a, no))
<1>1. PICK x \in Nat : x = a.toClient + Sent(retainedTotal(a), "client", no)
  BY RetainedTotalNat, SentKept DEF Account
<1>2. PICK y \in Nat : y = a.toTreasury + Kept(retainedTotal(a), "client", no)
  BY RetainedTotalNat, SentKept DEF Account
<1>3. PICK n \in Nat : n = IF a.held > 0 THEN 0 ELSE a.since
  BY DEF Account
<1> DEFINE b == [a EXCEPT !.held = 0, !.burn = 0, !.val = 0, !.team = 0, !.treas = 0,
                          !.since = n, !.right = 0, !.toClient = x, !.toTreasury = y]
<1>4. refundRetained(a, no) = b
  BY <1>1, <1>2, <1>3 DEF refundRetained
<1>5. b \in Account
  BY DEF Account
<1>6. FeeConserved(refundRetained(a, no))
  BY DEF refundRetained, Account, Sent, Kept, retainedTotal, FeeConserved, FeeOut
<1>7. /\ b.fee = a.fee /\ b.escrow = a.escrow /\ b.bondForfeit = a.bondForfeit
      /\ b.toTeamPool = a.toTeamPool /\ b.credit = a.credit /\ b.toTreasury = y
  BY DEF Account
<1>8. y >= a.toTreasury
  BY <1>2, RetainedTotalNat, SentKept DEF Account
<1>9. /\ a.bondForfeit >= a.bondForfeit /\ a.toTeamPool >= a.toTeamPool
      /\ a.credit >= a.credit
  BY DEF Account
<1>10. /\ b.toTreasury >= a.toTreasury /\ b.bondForfeit >= a.bondForfeit
       /\ b.toTeamPool >= a.toTeamPool /\ b.credit >= a.credit
  <2> HIDE DEF b
  <2> QED BY <1>7, <1>8, <1>9
<1> QED
  <2> HIDE DEF b
  <2> QED BY <1>4, <1>5, <1>6, <1>7, <1>10, Zenon DEF Onward

(* A release pays what is accepted and keeps the rest.                      *)
LEMMA ReleaseOnward ==
  ASSUME NEW a \in Account, FeeConserved(a), NEW p, NEW no, NEW reg \in BOOLEAN
  PROVE  Onward(a, releaseHeld(a, p, no, reg))
<1> DEFINE b == releaseHeld(a, p, no, reg)
<1>1. FeeConserved(b)
  BY DEF releaseHeld, payRetainedCut, Account, FeeConserved, retainedTotal, FeeOut, Sent, Kept
<1>2. b \in Account
  <2>1. PICK vl \in Nat : vl = Kept(a.val, "validators", no)
    BY SentKept DEF Account
  <2>2. PICK tv \in Nat : tv = a.toVal + Sent(a.val, "validators", no)
    BY SentKept DEF Account
  <2>3. PICK tm \in Nat : tm = Kept(a.team, "team", IF p.TeamAddress = "none" THEN {} ELSE no)
    BY DEF Account, Kept
  <2>4. PICK tp \in Nat : tp = a.toTeamPool + (IF p.TeamAddress = "none" THEN a.team ELSE 0)
    BY DEF Account
  <2>5. PICK tt \in Nat : tt = a.toTeam + (IF p.TeamAddress = "none" THEN 0
                                           ELSE Sent(a.team, "team", no))
    BY DEF Account, Sent
  <2>6. PICK ty \in Nat : ty = a.toTreasury + a.treas
    BY DEF Account
  <2>7. PICK rt \in Nat : rt = IF reg THEN 0 ELSE a.right
    BY DEF Account
  <2>8. PICK cr \in Nat : cr = a.credit + (IF reg THEN a.right ELSE 0)
    BY DEF Account
  <2>9. PICK bn \in Nat : bn = Kept(a.burn, "burn", no)
    BY SentKept DEF Account
  <2>10. PICK bd \in Nat : bd = a.burned + Sent(a.burn, "burn", no)
    BY SentKept DEF Account
  <2>11. PICK hd \in Nat : hd = IF reg /\ "operator" \notin no THEN 0 ELSE a.held
    BY DEF Account
  <2>12. PICK mn \in Nat : mn = a.toMiner + (IF reg /\ "operator" \notin no THEN a.held ELSE 0)
    BY DEF Account
  <2>13. PICK sn \in Nat : sn = IF (reg /\ "operator" \notin no) \/ a.held = 0 THEN 0 ELSE a.since
    BY DEF Account
  <2>14. payRetainedCut(a, p, no, reg) =
           [a EXCEPT !.val = vl, !.toVal = tv, !.team = tm, !.toTeamPool = tp, !.toTeam = tt,
                     !.treas = 0, !.toTreasury = ty, !.right = rt, !.credit = cr]
    BY <2>1, <2>2, <2>3, <2>4, <2>5, <2>6, <2>7, <2>8, Zenon DEF payRetainedCut
  <2>15. payRetainedCut(a, p, no, reg) \in Account
    <3>1. [a EXCEPT !.val = vl, !.toVal = tv, !.team = tm, !.toTeamPool = tp, !.toTeam = tt,
                    !.treas = 0, !.toTreasury = ty, !.right = rt, !.credit = cr] \in Account
      BY DEF Account
    <3> QED BY <2>14, <3>1, Zenon
  <2>16. b = [payRetainedCut(a, p, no, reg) EXCEPT
                !.burn = bn, !.burned = bd, !.held = hd, !.toMiner = mn, !.since = sn]
    BY <2>9, <2>10, <2>11, <2>12, <2>13, Zenon DEF releaseHeld
  <2>17. PICK c \in Account : c = payRetainedCut(a, p, no, reg)
    BY <2>15
  <2>18. [c EXCEPT !.burn = bn, !.burned = bd, !.held = hd, !.toMiner = mn,
                   !.since = sn] \in Account
    BY DEF Account
  <2> QED
    <3> HIDE DEF b
    <3> QED BY <2>16, <2>17, <2>18
<1>3. b.fee = a.fee /\ b.escrow = a.escrow /\ b.bondForfeit = a.bondForfeit
  BY DEF releaseHeld, payRetainedCut, Account
<1>4. b.toTreasury >= a.toTreasury
  BY DEF releaseHeld, payRetainedCut, Account
<1>5. b.toTeamPool >= a.toTeamPool
  BY DEF releaseHeld, payRetainedCut, Account
<1>6. b.credit >= a.credit
  BY DEF releaseHeld, payRetainedCut, Account
<1> QED
  <2>1. a.bondForfeit >= a.bondForfeit
    BY DEF Account
  <2> HIDE DEF b
  <2>2. b.bondForfeit >= a.bondForfeit
    BY <1>3, <2>1
  <2>3. Onward(a, b)
    BY <1>1, <1>2, <1>3, <1>4, <1>5, <1>6, <2>2, Zenon DEF Onward
  <2> QED BY <2>3 DEF b

(* The bond returned (or left on the job), the bond forfeited.              *)
LEMMA BondOnward ==
  ASSUME NEW a \in Account, FeeConserved(a), NEW x \in Nat, NEW y \in Nat, NEW z \in Nat,
         z >= a.bondForfeit
  PROVE  Onward(a, [a EXCEPT !.bond = x, !.bondBack = y, !.bondForfeit = z])
<1> DEFINE b == [a EXCEPT !.bond = x, !.bondBack = y, !.bondForfeit = z]
<1>1. b \in Account
  BY DEF Account
<1>2. FeeConserved(b)
  BY DEF Account, FeeConserved, retainedTotal, FeeOut
<1>3. /\ b.fee = a.fee /\ b.escrow = a.escrow /\ b.toTreasury = a.toTreasury
      /\ b.toTeamPool = a.toTeamPool /\ b.credit = a.credit /\ b.bondForfeit = z
  BY DEF Account
<1>4. a.toTreasury >= a.toTreasury /\ a.toTeamPool >= a.toTeamPool /\ a.credit >= a.credit
  BY DEF Account
<1>5. /\ b.toTreasury >= a.toTreasury /\ b.toTeamPool >= a.toTeamPool
      /\ b.credit >= a.credit /\ b.bondForfeit >= a.bondForfeit
  <2> HIDE DEF b
  <2> QED BY <1>3, <1>4
<1> QED
  <2> HIDE DEF b
  <2>1. Onward(a, b)
    BY <1>1, <1>2, <1>3, <1>5, Zenon DEF Onward
  <2> QED BY <2>1 DEF b

(* The four things a handler does to a bond.                                *)
LEMMA BondMovesOnward ==
  ASSUME NEW a \in Account, FeeConserved(a), NEW no
  PROVE  /\ Onward(a, refundDisputeBond(a, no))
         /\ Onward(a, forfeitBond(a))
         /\ Onward(a, [a EXCEPT !.bondForfeit = a.bondForfeit + a.bond])
         /\ Onward(a, [a EXCEPT !.bondBack = a.bondBack + a.bond])
         /\ Onward(a, [a EXCEPT !.bondBack = a.bondBack + a.bond, !.bond = 0])
<1>1. PICK bd \in Nat : bd = a.bond
  BY DEF Account
<1>2. PICK bb \in Nat : bb = a.bondBack
  BY DEF Account
<1>3. PICK bf \in Nat : bf = a.bondForfeit
  BY DEF Account
<1> bf >= a.bondForfeit /\ bf + bd >= a.bondForfeit /\ bf + bd \in Nat /\ bb + bd \in Nat
    /\ 0 \in Nat
  BY <1>3
<1>4. Onward(a, refundDisputeBond(a, no))
  <2>1. PICK x \in Nat : x = Kept(a.bond, "disputer", no)
    BY SentKept DEF Account
  <2>2. PICK y \in Nat : y = a.bondBack + Sent(a.bond, "disputer", no)
    BY SentKept DEF Account
  <2>3. refundDisputeBond(a, no) = [a EXCEPT !.bond = x, !.bondBack = y, !.bondForfeit = bf]
    BY <1>3, <2>1, <2>2 DEF refundDisputeBond, Account
  <2>4. Onward(a, [a EXCEPT !.bond = x, !.bondBack = y, !.bondForfeit = bf])
    BY BondOnward, Zenon
  <2> QED BY <2>3, <2>4, Zenon
<1>5. Onward(a, forfeitBond(a))
  <2>1. forfeitBond(a) = [a EXCEPT !.bond = 0, !.bondBack = bb, !.bondForfeit = bf + bd]
    BY <1>1, <1>2, <1>3 DEF forfeitBond, Account
  <2>2. Onward(a, [a EXCEPT !.bond = 0, !.bondBack = bb, !.bondForfeit = bf + bd])
    BY BondOnward, Zenon
  <2> QED BY <2>1, <2>2, Zenon
<1>6. Onward(a, [a EXCEPT !.bondForfeit = a.bondForfeit + a.bond])
  <2>1. [a EXCEPT !.bondForfeit = a.bondForfeit + a.bond]
          = [a EXCEPT !.bond = bd, !.bondBack = bb, !.bondForfeit = bf + bd]
    BY <1>1, <1>2, <1>3 DEF Account
  <2> QED BY <2>1, BondOnward, Zenon
<1>7. Onward(a, [a EXCEPT !.bondBack = a.bondBack + a.bond])
  <2>1. [a EXCEPT !.bondBack = a.bondBack + a.bond]
          = [a EXCEPT !.bond = bd, !.bondBack = bb + bd, !.bondForfeit = bf]
    BY <1>1, <1>2, <1>3 DEF Account
  <2> QED BY <2>1, BondOnward, Zenon
<1>8. Onward(a, [a EXCEPT !.bondBack = a.bondBack + a.bond, !.bond = 0])
  <2>1. [a EXCEPT !.bondBack = a.bondBack + a.bond, !.bond = 0]
          = [a EXCEPT !.bond = 0, !.bondBack = bb + bd, !.bondForfeit = bf]
    BY <1>1, <1>2, <1>3 DEF Account
  <2> QED BY <2>1, BondOnward, Zenon
<1> QED BY <1>4, <1>5, <1>6, <1>7, <1>8

(* Compensation out of a slashed stake is outside the fee.                  *)
LEMMA CompOnward ==
  ASSUME NEW a \in Account, FeeConserved(a), NEW x \in Nat
  PROVE  Onward(a, [a EXCEPT !.comp = x])
<1> DEFINE b == [a EXCEPT !.comp = x]
<1>1. b \in Account
  BY DEF Account
<1>2. FeeConserved(b)
  BY DEF Account, FeeConserved, retainedTotal, FeeOut
<1>3. /\ b.fee = a.fee /\ b.escrow = a.escrow /\ b.toTreasury = a.toTreasury
      /\ b.toTeamPool = a.toTeamPool /\ b.credit = a.credit /\ b.bondForfeit = a.bondForfeit
  BY DEF Account
<1>4. /\ a.toTreasury >= a.toTreasury /\ a.toTeamPool >= a.toTeamPool
      /\ a.credit >= a.credit /\ a.bondForfeit >= a.bondForfeit
  BY DEF Account
<1>5. /\ b.toTreasury >= a.toTreasury /\ b.toTeamPool >= a.toTeamPool
      /\ b.credit >= a.credit /\ b.bondForfeit >= a.bondForfeit
  <2> HIDE DEF b
  <2> QED BY <1>3, <1>4
<1> QED
  <2> HIDE DEF b
  <2>1. Onward(a, b)
    BY <1>1, <1>2, <1>3, <1>5, Zenon DEF Onward
  <2> QED BY <2>1 DEF b

(* What is retained, and what a refund hands the client, is part of the fee.*)
LEMMA RefundWithinFee ==
  ASSUME NEW a \in Account, FeeConserved(a), NEW no
  PROVE  /\ retainedTotal(a) <= a.fee
         /\ refundRetained(a, no).toClient - a.toClient \in Nat
         /\ refundRetained(a, no).toClient - a.toClient <= a.fee
<1>1. PICK r \in Nat : r = retainedTotal(a)
  BY RetainedTotalNat
<1>2. PICK o \in Nat : o = FeeOut(a)
  BY DEF Account, FeeOut
<1>3. PICK f \in Nat : f = a.fee
  BY DEF Account
<1>4. PICK e \in Nat : e = a.escrow
  BY DEF Account
<1>5. f = e + r + o
  BY <1>1, <1>2, <1>3, <1>4 DEF FeeConserved
<1>6. PICK c \in Nat : c = a.toClient
  BY DEF Account
<1>7. PICK s \in Nat : s = Sent(r, "client", no) /\ s <= r
  BY DEF Sent
<1>8. refundRetained(a, no).toClient = c + s
  BY <1>1, <1>6, <1>7 DEF refundRetained, Account
<1>9. r <= f /\ (c + s) - c \in Nat /\ (c + s) - c <= f
  BY <1>5, <1>7
<1> QED BY <1>1, <1>3, <1>6, <1>8, <1>9
=============================================================================

------------------------------ MODULE JobEscrow ------------------------------
(***************************************************************************)
(* The money of one job of x/jobs, from the escrow OpenJob takes to the    *)
(* last coin that leaves: how settleOptimistic splits the fee, how a       *)
(* retention is released at finality (releaseHeld, payRetainedCut) and how *)
(* it is undone (refundRetainedToClient, refundRetainedCut).  Every        *)
(* operator maps the account of a job to its account after the call.       *)
(*                                                                         *)
(* The bank module is external.  What the code observes of it is whether a *)
(* transfer to a payee is accepted; "no" is the set of payees that refuse  *)
(* (or whose address does not parse) during one handler.                   *)
(***************************************************************************)
EXTENDS Integers, FiniteSets

Payees == {"client", "operator", "validators", "team", "disputer", "burn", "owner"}

-----------------------------------------------------------------------------
(* A job's State string is a list of markers joined by "+", read with       *)
(* strings.Contains: here, the set of its markers.                          *)
Markers == {"open", "expired", "refunded", "paid", "optimistic", "disputed",
            "resolved", "clawed", "quorum", "vindicated", "unwound", "adjudicated"}

jobIsPaid(st)         == "paid" \in st
jobEscrowReturned(st) == "refunded" \in st
jobIsDisputed(st)     == "disputed" \in st
jobIsResolved(st)     == "resolved" \in st

-----------------------------------------------------------------------------
(* A share in basis points, rounded down as Go's integer division does.     *)
Bps(x, b) == (x * b) \div 10000

MinOf(x, y) == IF x < y THEN x ELSE y

(* What reaches a payee, and what stays because the payee refuses it.       *)
Sent(x, payee, no) == IF payee \in no THEN 0 ELSE x

Kept(x, payee, no) == IF payee \in no THEN x ELSE 0

-----------------------------------------------------------------------------
(* The account of a job.                                                    *)
(*   fee     Job.Fee                                                        *)
(*   escrow  the part of the fee no settlement has touched                  *)
(*   held, burn, val, team, treas   HeldFee, HeldBurn, HeldValidatorShare,  *)
(*           HeldTeamShare, HeldTreasuryShare (0: the key is absent)        *)
(*   since   HeldSince (0: absent; heights start at 1)                      *)
(*   right   HeldDemand, the subsidy right of the primary                   *)
(*   bond    Job.DisputeBond                                                *)
(* and, as history, where the coins went:                                   *)
(*   toClient, toMiner, toVal, toTeam, toTeamPool, toTreasury, burned       *)
(*   stray   coins of the fee left in the module with no entry naming them  *)
(*   comp    paid to the client out of the primary's slashed stake          *)
(*   credit  Demand credited to the primary for this job                    *)
(*   bondIn, bondBack, bondForfeit   the bond taken, returned, forfeited    *)
Account ==
  [fee : Nat, escrow : Nat, held : Nat, burn : Nat, val : Nat, team : Nat, treas : Nat,
   since : Nat, right : Nat, bond : Nat,
   toClient : Nat, toMiner : Nat, toVal : Nat, toTeam : Nat, toTeamPool : Nat,
   toTreasury : Nat, burned : Nat, stray : Nat, comp : Nat, credit : Nat,
   bondIn : Nat, bondBack : Nat, bondForfeit : Nat]

EmptyAccount ==
  [fee |-> 0, escrow |-> 0, held |-> 0, burn |-> 0, val |-> 0, team |-> 0, treas |-> 0,
   since |-> 0, right |-> 0, bond |-> 0,
   toClient |-> 0, toMiner |-> 0, toVal |-> 0, toTeam |-> 0, toTeamPool |-> 0,
   toTreasury |-> 0, burned |-> 0, stray |-> 0, comp |-> 0, credit |-> 0,
   bondIn |-> 0, bondBack |-> 0, bondForfeit |-> 0]

(* The sum over every map a settlement can retain into.                     *)
retainedTotal(a) == a.held + a.burn + a.val + a.team + a.treas

(* The coins of the fee that left the books of this job.                    *)
FeeOut(a) == a.toClient + a.toMiner + a.toVal + a.toTeam + a.toTeamPool
               + a.toTreasury + a.burned + a.stray

(* What left the module account on behalf of this job.                      *)
Spent(a) == a.toClient + a.toMiner + a.toVal + a.toTeam + a.burned + a.comp + a.bondBack

-----------------------------------------------------------------------------
(* OpenJob: the fee is escrowed.                                            *)
OpenAccount(fee) == [EmptyAccount EXCEPT !.fee = fee, !.escrow = fee]

(* The split of a fee at settlement.                                        *)
BurnShare(p, fee)  == Bps(fee, p.FeeBurnBps)
Cut(p, fee)        == Bps(fee, p.ProtocolFeeBps)
ValShare(p, fee)   == Bps(Cut(p, fee), p.ValidatorRewardBps)
TeamShare(p, fee)  == Bps(Cut(p, fee), p.TeamFeeBps)

(* Fault: the treasury's share rounded on its own, its dust lost.           *)
TreasShareFault(p, fee) == Bps(Cut(p, fee), 10000 - p.ValidatorRewardBps - p.TeamFeeBps)

TreasShare(p, fee) == Cut(p, fee) - ValShare(p, fee) - TeamShare(p, fee)
MinerNet(p, fee)   == fee - BurnShare(p, fee) - Cut(p, fee)
HeldPart(p, fee)   == Bps(MinerNet(p, fee), p.HoldBps)

(* settleOptimistic moves the whole escrow: the retained part of the        *)
(* miner's net and the whole cut stay, dated; the rest is paid at once.     *)
(* A payment whose operator address does not parse is skipped in silence.   *)
(* "own": the client is the operator, and no subsidy right is retained.     *)
SettleAccount(a, p, no, own, h) ==
  LET held == HeldPart(p, a.fee)
      now  == MinerNet(p, a.fee) - held
      burn == BurnShare(p, a.fee)
  IN  [a EXCEPT !.escrow = 0,
                !.held   = held,
                !.since  = IF held > 0 THEN h ELSE 0,
                !.val    = ValShare(p, a.fee),
                !.team   = TeamShare(p, a.fee),
                !.treas  = TreasShare(p, a.fee),
                !.right  = IF own THEN 0 ELSE TreasShare(p, a.fee) + TeamShare(p, a.fee),
                !.burn   = IF p.HoldBps > 0 THEN burn ELSE 0,
                !.burned = IF p.HoldBps > 0 THEN 0 ELSE burn,
                !.toMiner = Sent(now, "operator", no),
                !.stray   = Kept(now, "operator", no)]

(* expireUnservedJob: the whole escrow back to the client.                  *)
ExpireAccount(a) == [a EXCEPT !.escrow = 0, !.toClient = a.toClient + a.escrow]

-----------------------------------------------------------------------------
(* Fault: the entry of a share is erased although its payment failed.       *)
payRetainedCutFault(a, p, no, reg) ==
  [a EXCEPT !.val = 0, !.toVal = a.toVal + Sent(a.val, "validators", no)]

(* payRetainedCut: each share goes to its payee and survives a refusal.     *)
(* With no TeamAddress the team share is a counter of the module (Pools).   *)
(* reg: the primary is still registered, so its right can be credited.      *)
payRetainedCut(a, p, no, reg) ==
  LET pooled == p.TeamAddress = "none"
      refuse == IF pooled THEN {} ELSE no
  IN  [a EXCEPT !.val        = Kept(a.val, "validators", no),
                !.toVal      = a.toVal + Sent(a.val, "validators", no),
                !.team       = Kept(a.team, "team", refuse),
                !.toTeamPool = a.toTeamPool + (IF pooled THEN a.team ELSE 0),
                !.toTeam     = a.toTeam + (IF pooled THEN 0 ELSE Sent(a.team, "team", no)),
                !.treas      = 0,
                !.toTreasury = a.toTreasury + a.treas,
                !.right      = IF reg THEN 0 ELSE a.right,
                !.credit     = a.credit + (IF reg THEN a.right ELSE 0)]

(* releaseHeld: finality in the miner's favour.  The deferred burn, the     *)
(* cut, then the retained fee; each debt is erased only once it is paid.    *)
releaseHeld(a, p, no, reg) ==
  LET b    == payRetainedCut(a, p, no, reg)
      pays == reg /\ "operator" \notin no
  IN  [b EXCEPT !.burn    = Kept(a.burn, "burn", no),
                !.burned  = a.burned + Sent(a.burn, "burn", no),
                !.held    = IF pays THEN 0 ELSE a.held,
                !.toMiner = a.toMiner + (IF pays THEN a.held ELSE 0),
                !.since   = IF pays \/ a.held = 0 THEN 0 ELSE a.since]

(* Faults: only the fee is retried; the right of an absent miner is not.    *)
ReleasePendingFault1(a) == a.held > 0
ReleasePendingFault2(a) == a.held > 0 \/ a.val > 0 \/ a.team > 0

(* The job stays marked in PendingHeldRelease while a debt releaseHeld      *)
(* tracks is left: the fee, a refused share, a right with nobody to credit. *)
ReleasePending(a) == a.held > 0 \/ a.val > 0 \/ a.team > 0 \/ a.right > 0

(* refundRetainedToClient and refundRetainedCut: everything retained goes   *)
(* to the client, or to the Treasury when the client cannot be paid.        *)
refundRetained(a, no) ==
  [a EXCEPT !.held  = 0, !.burn = 0, !.val = 0, !.team = 0, !.treas = 0,
            !.since = IF a.held > 0 THEN 0 ELSE a.since,
            !.right = 0,
            !.toClient   = a.toClient + Sent(retainedTotal(a), "client", no),
            !.toTreasury = a.toTreasury + Kept(retainedTotal(a), "client", no)]

(* refundDisputeBond: best effort, a refused bond stays on the job.         *)
refundDisputeBond(a, no) ==
  [a EXCEPT !.bond     = Kept(a.bond, "disputer", no),
            !.bondBack = a.bondBack + Sent(a.bond, "disputer", no)]

(* The bond of an unfounded dispute goes to the Treasury and is consumed.   *)
forfeitBond(a) == [a EXCEPT !.bond = 0, !.bondForfeit = a.bondForfeit + a.bond]

-----------------------------------------------------------------------------
(* Every coin of the fee is in exactly one place.                           *)
FeeConserved(a)  == a.fee = a.escrow + retainedTotal(a) + FeeOut(a)
=============================================================================

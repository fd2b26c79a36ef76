------------------------------- MODULE Emission -------------------------------
(***************************************************************************)
(* x/emission: the Reserve, released a slice per epoch into three flows.   *)
(* BeginBlock runs RunEpoch at the new height; between two blocks x/jobs   *)
(* burns fees (the only way the supply moves), pays miners out of the two  *)
(* pools, governance posts parameters, anybody may fund the module         *)
(* account, and the chain may be exported and restarted at height zero.    *)
(*                                                                         *)
(* The counters are uint64: arithmetic is modulo Word.                     *)
(***************************************************************************)
EXTENDS Integers

CONSTANTS
  Word,             \* 2^64
  GenesisReserveU,  \* the Reserve of a new chain
  InitialSupply,    \* the supply of a new chain
  InitialBalances,  \* what genesis may credit to the module account
  AllowUnbacked,    \* DENDRA_ALLOW_UNBACKED_RESERVE = 1
  ParamSets,        \* the parameter sets governance may post
  MaxEpochBlocks,   \* 2^32
  Burns,            \* the amounts x/jobs burns
  Claims,           \* the amounts x/jobs asks a pool for
  Gifts,            \* the amounts sent to the module account
  MaxHeight,        \* bound: the last block explored before a restart
  MaxRestarts       \* bound: exports at zero height

VARIABLES
  height,                     \* the last block begun
  params,                     \* Params
  Reserve, WorkPool, AvailPool,
  SecurityDistributedTotal, WorkPaidTotal, AvailPaidTotal,
  LastEpoch, LastSupply,      \* 0: never set
  supply, balance,            \* bank: the supply, and the module account
  age, pending,               \* history: blocks, and coins burned, since an
                              \* epoch was honoured
  restarts                    \* how often the chain was restarted

counters == <<Reserve, WorkPool, AvailPool, SecurityDistributedTotal, WorkPaidTotal,
              AvailPaidTotal>>
epoch    == <<LastEpoch, LastSupply>>
coins    == <<supply, balance>>
vars     == <<height, params, counters, epoch, coins, age, pending, restarts>>

-----------------------------------------------------------------------------
(* uint64 arithmetic.                                                       *)
Plus(x, y)  == (x + y) % Word
Minus(x, y) == (x - y) % Word
mulBps(x, bps) == ((x * bps) % Word) \div 10000

Least(x, y) == IF x < y THEN x ELSE y

ParamsRecord == [ReserveReleaseBps : Nat, WorkSplitBps : Nat, AvailSplitBps : Nat,
                 WorkGateBps : Nat, EpochBlocks : Nat]

(* Params.Validate: the sum of the two splits is a uint64 sum.              *)
ValidParams(p) ==
  /\ p \in ParamsRecord
  /\ Plus(p.WorkSplitBps, p.AvailSplitBps) <= 10000
  /\ p.ReserveReleaseBps <= 10000
  /\ p.WorkGateBps <= 100000
  /\ p.EpochBlocks <= MaxEpochBlocks

ASSUME ParamsAssumption == ParamSets # {} /\ \A p \in ParamSets : ValidParams(p)

(* The headroom the code claims for uint64: no product of an amount and a   *)
(* valid rate reaches the word.                                             *)
ASSUME WordAssumption ==
  /\ Word \in Nat /\ GenesisReserveU \in Nat /\ InitialSupply \in Nat
  /\ 100000 * InitialSupply < Word /\ 100000 * GenesisReserveU < Word

ASSUME BoundsAssumption ==
  /\ InitialBalances \subseteq 0..InitialSupply
  /\ AllowUnbacked \in BOOLEAN
  /\ Burns \subseteq Nat /\ Claims \subseteq Nat /\ Gifts \subseteq Nat
  /\ MaxEpochBlocks \in Nat /\ MaxHeight \in Nat /\ MaxRestarts \in Nat

-----------------------------------------------------------------------------
(* The three flows of one epoch.  Fault: what the gate withholds from work  *)
(* leaves the Reserve all the same.                                         *)
EpochReleaseFault(reserve, demand, p) ==
  LET release  == mulBps(reserve, p.ReserveReleaseBps)
      workPool == mulBps(release, p.WorkSplitBps)
      avail    == mulBps(release, p.AvailSplitBps)
  IN  [Work |-> Least(workPool, mulBps(demand, p.WorkGateBps)), Avail |-> avail,
       Security |-> Minus(Minus(release, workPool), avail),
       NewReserve |-> Minus(reserve, release)]

EpochRelease(reserve, demand, p) ==
  LET release  == mulBps(reserve, p.ReserveReleaseBps)
      workPool == mulBps(release, p.WorkSplitBps)
      avail    == mulBps(release, p.AvailSplitBps)
      security == Minus(Minus(release, workPool), avail)
      work     == Least(workPool, mulBps(demand, p.WorkGateBps))
  IN  [Work |-> work, Avail |-> avail, Security |-> security,
       NewReserve |-> Minus(reserve, Plus(Plus(work, avail), security))]

(* Non-recoverable demand: the drop of the supply since the epoch whose     *)
(* supply was last remembered.                                              *)
Demand ==
  LET lastSupply == IF LastSupply = 0 THEN supply ELSE LastSupply
  IN  IF lastSupply > supply THEN lastSupply - supply ELSE 0

Slice == EpochRelease(Reserve, Demand, params)

(* reserveIsBacked: the whole identity, not the Reserve alone.              *)
Backed == balance >= Reserve + WorkPool + AvailPool

Init ==
  /\ height = 0
  /\ params \in ParamSets
  /\ Reserve = GenesisReserveU /\ WorkPool = 0 /\ AvailPool = 0
  /\ SecurityDistributedTotal = 0 /\ WorkPaidTotal = 0 /\ AvailPaidTotal = 0
  /\ LastEpoch = 0 /\ LastSupply = 0
  /\ supply = InitialSupply
  /\ balance \in InitialBalances
  /\ Backed \/ AllowUnbacked
  /\ age = 0 /\ pending = 0 /\ restarts = 0

-----------------------------------------------------------------------------
(* BeginBlock: RunEpoch at the new height.                                  *)
NewBlock ==
  /\ height < MaxHeight
  /\ height' = height + 1
  /\ UNCHANGED <<params, restarts>>

Unhonoured == age' = age + 1 /\ pending' = pending

(* epoch_blocks = 0: the epoch is disabled.                                 *)
EpochDisabled ==
  /\ NewBlock
  /\ params.EpochBlocks = 0
  /\ Unhonoured
  /\ UNCHANGED <<counters, epoch, coins>>

RealignFault ==  \* Fault: a last epoch ahead of the chain is waited for.
  /\ NewBlock
  /\ params.EpochBlocks > 0 /\ height' < LastEpoch
  /\ Unhonoured
  /\ UNCHANGED <<counters, epoch, coins>>

(* The last epoch is ahead of the chain (restarted below it): realigned.    *)
Realign ==
  /\ NewBlock
  /\ params.EpochBlocks > 0 /\ height' < LastEpoch
  /\ LastEpoch' = height'
  /\ Unhonoured
  /\ UNCHANGED <<counters, LastSupply, coins>>

NotDue ==
  /\ NewBlock
  /\ params.EpochBlocks > 0 /\ height' >= LastEpoch
  /\ height' - LastEpoch < params.EpochBlocks
  /\ Unhonoured
  /\ UNCHANGED <<counters, epoch, coins>>

(* Fault: nobody looks for an epoch ahead, and the subtraction wraps.       *)
DueFault == params.EpochBlocks > 0 /\ Minus(height', LastEpoch) >= params.EpochBlocks

Due ==
  /\ params.EpochBlocks > 0 /\ height' >= LastEpoch
  /\ height' - LastEpoch >= params.EpochBlocks

deferEpochFault ==  \* Fault: the supply is remembered, and the demand lost.
  /\ LastEpoch' = height' /\ LastSupply' = supply
  /\ Unhonoured
  /\ UNCHANGED <<counters, coins>>

(* The epoch is passed over: only its height is remembered.                 *)
deferEpoch ==
  /\ LastEpoch' = height'
  /\ Unhonoured
  /\ UNCHANGED <<counters, LastSupply, coins>>

Exhausted == NewBlock /\ Due /\ Reserve = 0 /\ deferEpoch

(* The transfer of the security flow fails.                                 *)
DeferSecurity ==
  /\ NewBlock /\ Due /\ Reserve > 0
  /\ Slice.Security > 0 /\ balance < Slice.Security
  /\ deferEpoch

(* Nothing to transfer: the whole identity must be backed.                  *)
DeferUnbacked ==
  /\ NewBlock /\ Due /\ Reserve > 0
  /\ Slice.Security = 0 /\ ~Backed
  /\ deferEpoch

(* The epoch is honoured.                                                   *)
Honour ==
  /\ NewBlock /\ Due /\ Reserve > 0
  /\ WorkPool'  = Plus(WorkPool, Slice.Work)
  /\ AvailPool' = Plus(AvailPool, Slice.Avail)
  /\ SecurityDistributedTotal' = Plus(SecurityDistributedTotal, Slice.Security)
  /\ balance' = balance - Slice.Security
  /\ Reserve' = Slice.NewReserve
  /\ LastEpoch' = height'
  /\ age' = 0 /\ pending' = 0
  /\ UNCHANGED <<WorkPaidTotal, AvailPaidTotal, supply>>

CanHonour == IF Slice.Security > 0 THEN balance >= Slice.Security ELSE Backed

(* Faults: the supply is not remembered; a failed transfer is ignored.      *)
ReleaseFault1 == Honour /\ CanHonour /\ LastSupply' = IF LastSupply = 0 THEN supply ELSE LastSupply
ReleaseFault2 == Honour /\ LastSupply' = supply

Release == Honour /\ CanHonour /\ LastSupply' = supply

-----------------------------------------------------------------------------
(* Between two blocks.                                                      *)
Payable(amt, pool) == Least(Least(amt, pool), balance)

(* Bounded by the pool and by the coins; nothing moves when either is empty.*)
PayWork(amt) ==
  LET paid == Payable(amt, WorkPool)
  IN  /\ paid > 0
      /\ balance' = balance - paid
      /\ WorkPool' = WorkPool - paid
      /\ WorkPaidTotal' = Plus(WorkPaidTotal, paid)
      /\ UNCHANGED <<height, params, Reserve, AvailPool, SecurityDistributedTotal,
                     AvailPaidTotal, epoch, supply, age, pending, restarts>>

PayAvailFault(amt) ==  \* Fault: bounded by the coins, not by the pool.
  LET paid == Least(amt, balance)
  IN  /\ paid > 0 /\ AvailPool > 0
      /\ balance' = balance - paid
      /\ AvailPool' = AvailPool - Least(AvailPool, paid)
      /\ AvailPaidTotal' = Plus(AvailPaidTotal, paid)
      /\ UNCHANGED <<height, params, Reserve, WorkPool, SecurityDistributedTotal,
                     WorkPaidTotal, epoch, supply, age, pending, restarts>>

PayAvail(amt) ==
  LET paid == Payable(amt, AvailPool)
  IN  /\ paid > 0
      /\ balance' = balance - paid
      /\ AvailPool' = AvailPool - paid
      /\ AvailPaidTotal' = Plus(AvailPaidTotal, paid)
      /\ UNCHANGED <<height, params, Reserve, WorkPool, SecurityDistributedTotal,
                     WorkPaidTotal, epoch, supply, age, pending, restarts>>

(* x/jobs burns the burn share of a fee out of its own account.             *)
Burn(amt) ==
  /\ amt > 0 /\ amt <= supply - balance
  /\ supply' = supply - amt
  /\ pending' = pending + amt
  /\ UNCHANGED <<height, params, counters, epoch, balance, age, restarts>>

(* The module account may receive coins from anyone.                        *)
Fund(amt) ==
  /\ amt > 0 /\ amt <= supply - balance
  /\ balance' = balance + amt
  /\ UNCHANGED <<height, params, counters, epoch, supply, age, pending, restarts>>

UpdateParams(p) ==
  /\ ValidParams(p)
  /\ params' = p
  /\ UNCHANGED <<height, counters, epoch, coins, age, pending, restarts>>

(* ExportGenesis at zero height and InitGenesis: every counter restored as  *)
(* it was, refused when the module account does not back them.              *)
Restart ==
  /\ restarts < MaxRestarts /\ height > 0
  /\ Backed \/ AllowUnbacked
  /\ height' = 0
  /\ restarts' = restarts + 1
  /\ UNCHANGED <<params, counters, epoch, coins, age, pending>>

(* The exploration stops at the bound; the chain does not.                  *)
Horizon == height = MaxHeight /\ UNCHANGED vars

BeginBlock ==
  \/ EpochDisabled \/ Realign \/ NotDue
  \/ Exhausted \/ DeferSecurity \/ DeferUnbacked \/ Release

Next ==
  \/ BeginBlock
  \/ \E amt \in Claims : PayWork(amt) \/ PayAvail(amt)
  \/ \E amt \in Burns : Burn(amt)
  \/ \E amt \in Gifts : Fund(amt)
  \/ \E p \in ParamSets : UpdateParams(p)
  \/ Restart
  \/ Horizon

Spec == Init /\ [][Next]_vars

(* Consensus keeps producing blocks.                                        *)
FairSpec == Spec /\ WF_vars(BeginBlock)

-----------------------------------------------------------------------------
(* Every counter is a uint64 and the module account never overdraws.        *)
TypeOK ==
  /\ height \in Nat /\ age \in Nat /\ pending \in Nat /\ restarts \in Nat
  /\ params \in ParamSets
  /\ \A c \in {Reserve, WorkPool, AvailPool, SecurityDistributedTotal, WorkPaidTotal,
               AvailPaidTotal, LastEpoch, LastSupply} : c \in Nat
  /\ supply \in Nat /\ balance \in 0..supply

(* "No mint, ever": through releases, deferrals, short payments, restarts   *)
(* and changes of the parameters, each coin of the initial Reserve is in    *)
(* exactly one of the Reserve, the two pools and the three totals.          *)
ReserveAccounted ==
  GenesisReserveU = Reserve + WorkPool + AvailPool + SecurityDistributedTotal
                      + WorkPaidTotal + AvailPaidTotal

Surplus == balance - (Reserve + WorkPool + AvailPool)

(* What the module account holds beyond what its counters promise never     *)
(* shrinks: no epoch, payment or restart makes a promise the coins it had   *)
(* do not cover.                                                            *)
SurplusNeverShrinks == [][Surplus' >= Surplus]_vars

(* The work flow over the life of the chain stays within the gate times the *)
(* coins burned: demand is counted once, whatever epochs were deferred,     *)
(* exhausted or interrupted by a restart, at the widest gate ever posted.   *)
DemandCountedOnce ==
  \E p \in ParamSets :
    10000 * (WorkPool + WorkPaidTotal) <= p.WorkGateBps * (InitialSupply - supply)

(* The demand of the next slice is what was burned since the last honoured  *)
(* epoch: no deferral, exhausted Reserve, disabled epoch or restart in      *)
(* between loses a part of it or counts it again.                           *)
DemandRemembered == LastSupply # 0 => Demand = pending

(* Two honoured epochs are at least epoch_blocks blocks apart, although     *)
(* heights restart from zero and LastEpoch is restored as it was.           *)
EmissionPace ==
  [][height' = height + 1 /\ age' = 0 => age + 1 >= params.EpochBlocks]_vars

(* Every block leaves the next epoch within reach: emission is never silent *)
(* for longer than an epoch, whatever height was restored.                  *)
NextEpochInReach ==
  [][height' = height + 1 /\ params.EpochBlocks > 0 =>
       LastEpoch' <= height' /\ height' - LastEpoch' < params.EpochBlocks]_vars

-----------------------------------------------------------------------------
(* What the comments say, where the code does something else.               *)

(* epoch.go: the two pools are claimable, "so crediting them is a promise   *)
(* to pay real coins", and the provision is read "when no transfer proves   *)
(* it": a pool that grows is backed.                                        *)
CreditIsBacked ==
  [][WorkPool' + AvailPool' > WorkPool + AvailPool => balance' >= WorkPool' + AvailPool']_vars

=============================================================================

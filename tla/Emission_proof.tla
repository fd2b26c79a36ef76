---------------------------- MODULE Emission_proof ----------------------------
(***************************************************************************)
(* What holds of the Reserve for every word, supply, genesis and policy.   *)
(* The heart is SliceOK: a slice the module can honour adds up to the      *)
(* Reserve, even under two splits whose uint64 sum wraps below 10000; the  *)
(* security flow of such a slice wraps too, above any balance, and the     *)
(* epoch is deferred.                                                      *)
(***************************************************************************)
EXTENDS Emission, TLAPS

-----------------------------------------------------------------------------
(* The inductive invariant: the types, the account of the Reserve, and what *)
(* ties each remembered value to history: the supply at the last honoured   *)
(* epoch to what was burned since, its height to the blocks since.          *)
IInv ==
  /\ TypeOK
  /\ ReserveAccounted
  /\ supply <= InitialSupply
  /\ LastSupply # 0 => LastSupply = supply + pending
  /\ height - LastEpoch <= age

(* uint64 arithmetic is exact as long as nothing leaves the word.           *)
LEMMA Mod ==
  ASSUME NEW w \in Nat, w > 0, NEW x \in Int
  PROVE  /\ x % w \in Nat /\ x % w < w
         /\ x >= 0 /\ x < w => x % w = x
         /\ x < 0 /\ -w <= x => x % w = x + w
<1>1. x % w \in Nat /\ x % w < w
  OBVIOUS
<1>2. ASSUME x >= 0, x < w PROVE x % w = x
  BY <1>2
<1>3. ASSUME x < 0, -w <= x PROVE x % w = x + w
  BY <1>3
<1> QED BY <1>1, <1>2, <1>3

(* The word holds at least one value.                                       *)
LEMMA WordPositive == Word \in Nat /\ Word > 0
BY WordAssumption

(* A share is a natural number, small next to the word whatever the rate.   *)
LEMMA ShareSmall ==
  ASSUME NEW x \in Nat, NEW b \in Nat
  PROVE  mulBps(x, b) \in Nat /\ mulBps(x, b) <= Word \div 10000
<1> DEFINE y == (x * b) % Word
<1>1. x * b \in Nat
  OBVIOUS
<1>2. y \in Nat /\ y < Word
  BY <1>1, Mod, WordPositive
<1>3. y \div 10000 \in Nat /\ y \div 10000 <= Word \div 10000
  <2> HIDE DEF y
  <2> QED BY <1>2, WordPositive
<1>4. mulBps(x, b) = y \div 10000
  BY DEF mulBps
<1> HIDE DEF y
<1> QED BY <1>2, <1>3, <1>4, WordPositive

(* The release is at most the Reserve: there is headroom for its product.   *)
LEMMA ReleaseWithin ==
  ASSUME NEW x \in Nat, x <= GenesisReserveU, NEW b \in Nat, b <= 10000
  PROVE  mulBps(x, b) \in Nat /\ mulBps(x, b) <= x
<1> DEFINE y == x * b
<1>1. y \in Nat /\ y <= x * 10000
  OBVIOUS
<1>2. x * 10000 <= 100000 * GenesisReserveU
  BY WordAssumption
<1>3. x * 10000 \in Nat
  OBVIOUS
<1> HIDE DEF y
<1>4. y < Word
  BY <1>1, <1>2, <1>3, WordAssumption
<1>5. y % Word = y
  BY <1>1, <1>4, Mod, WordPositive
<1>6. y \div 10000 \in Nat /\ y \div 10000 <= x
  BY <1>1
<1> QED BY <1>5, <1>6 DEF mulBps, y

(* What ValidParams says of the parameters in force.                        *)
LEMMA ParamsOK ==
  ASSUME TypeOK
  PROVE  /\ params.ReserveReleaseBps \in Nat /\ params.ReserveReleaseBps <= 10000
         /\ params.WorkSplitBps \in Nat /\ params.AvailSplitBps \in Nat
         /\ params.WorkGateBps \in Nat /\ params.EpochBlocks \in Nat
BY ParamsAssumption DEF TypeOK, ValidParams, ParamsRecord

(* A slice the module can honour distributes the Reserve exactly.           *)
LEMMA SliceOK ==
  ASSUME IInv
  PROVE  /\ Slice.Work \in Nat /\ Slice.Avail \in Nat /\ Slice.Security \in Nat
         /\ Slice.NewReserve \in Nat
         /\ CanHonour =>
              /\ Slice.Security <= balance
              /\ Slice.Work + Slice.Avail + Slice.Security + Slice.NewReserve = Reserve
<1> DEFINE r  == mulBps(Reserve, params.ReserveReleaseBps)
           wp == mulBps(r, params.WorkSplitBps)
           av == mulBps(r, params.AvailSplitBps)
           g  == mulBps(Demand, params.WorkGateBps)
           w  == Least(wp, g)
           s  == Minus(Minus(r, wp), av)
           n  == Minus(Reserve, Plus(Plus(w, av), s))
<1>1. /\ Slice.Work = w /\ Slice.Avail = av /\ Slice.Security = s /\ Slice.NewReserve = n
  BY DEF Slice, EpochRelease
<1>2. Reserve \in Nat /\ Reserve <= GenesisReserveU /\ balance \in Nat /\ balance <= InitialSupply
  BY WordAssumption DEF IInv, TypeOK, ReserveAccounted
<1>0. TypeOK
  BY DEF IInv
<1>3. r \in Nat /\ r <= Reserve
  BY <1>2, <1>0, ReleaseWithin, ParamsOK
<1>4. wp \in Nat /\ wp <= Word \div 10000 /\ av \in Nat /\ av <= Word \div 10000
  <2> HIDE DEF r
  <2>1. PICK b \in Nat : b = params.WorkSplitBps
    BY <1>0, ParamsOK
  <2>2. PICK c \in Nat : c = params.AvailSplitBps
    BY <1>0, ParamsOK
  <2>3. PICK x \in Nat : x = r
    BY <1>3
  <2>4. wp = mulBps(x, b) /\ av = mulBps(x, c)
    BY <2>1, <2>2, <2>3
  <2> QED BY <2>4, ShareSmall
<1>5. Demand \in Nat
  BY DEF Demand, IInv, TypeOK
<1>6. g \in Nat
  <2>1. PICK b \in Nat : b = params.WorkGateBps
    BY <1>0, ParamsOK
  <2>2. PICK x \in Nat : x = Demand
    BY <1>5
  <2>3. g = mulBps(x, b)
    BY <2>1, <2>2
  <2> QED BY <2>3, ShareSmall
<1>7. w \in Nat /\ w <= wp
  BY <1>4, <1>6 DEF Least
<1> HIDE DEF r, wp, av, g, w
<1>8. Minus(r, wp) \in Nat
  BY <1>3, <1>4, Mod, WordPositive DEF Minus
<1>9. s \in Nat
  BY <1>8, <1>4, Mod, WordPositive DEF Minus
<1>10. Plus(Plus(w, av), s) \in Nat
  BY <1>7, <1>4, <1>9, Mod, WordPositive DEF Plus
<1>11. n \in Nat
  BY <1>2, <1>10, Mod, WordPositive DEF Minus
<1>12. ASSUME wp + av <= r
       PROVE  s = r - wp - av
  <2>1. Minus(r, wp) = r - wp
    BY <1>2, <1>3, <1>4, <1>12, Mod, WordAssumption, WordPositive DEF Minus
  <2>2. Minus(r - wp, av) = r - wp - av
    BY <1>2, <1>3, <1>4, <1>12, Mod, WordAssumption, WordPositive DEF Minus
  <2> QED BY <2>1, <2>2
<1>13. ASSUME wp + av > r
       PROVE  s > InitialSupply
  <2>1. CASE wp <= r
    <3>1. Minus(r, wp) = r - wp
      BY <2>1, <1>2, <1>3, <1>4, Mod, WordAssumption, WordPositive DEF Minus
    <3>2. Minus(r - wp, av) = r - wp - av + Word
      BY <2>1, <1>3, <1>4, <1>13, Mod, WordPositive DEF Minus
    <3> QED BY <3>1, <3>2, <1>3, <1>4, WordAssumption
  <2>2. CASE wp > r
    <3>1. Minus(r, wp) = r - wp + Word
      BY <2>2, <1>3, <1>4, Mod, WordPositive DEF Minus
    <3>2. Minus(r - wp + Word, av) = r - wp + Word - av
      BY <2>2, <1>3, <1>4, Mod, WordPositive DEF Minus
    <3> QED BY <3>1, <3>2, <1>3, <1>4, WordAssumption
  <2> QED BY <2>1, <2>2, <1>3, <1>4
<1> HIDE DEF s
<1>14. ASSUME CanHonour PROVE s <= balance
  BY <1>1, <1>2, <1>9, <1>14 DEF CanHonour
<1>15. ASSUME CanHonour PROVE w + av + s + n = Reserve
  <2>1. wp + av <= r
    BY <1>14, <1>15, <1>13, <1>2, <1>3, <1>4, <1>9, WordAssumption
  <2>2. s = r - wp - av
    BY <2>1, <1>12
  <2>3. w + av + s <= r
    BY <2>2, <1>3, <1>4, <1>7
  <2>4. Plus(w, av) = w + av
    BY <2>3, <1>2, <1>3, <1>4, <1>7, <1>9, Mod, WordAssumption, WordPositive DEF Plus
  <2>5. Plus(w + av, s) = w + av + s
    BY <2>3, <1>2, <1>3, <1>4, <1>7, <1>9, Mod, WordAssumption, WordPositive DEF Plus
  <2>6. n = Reserve - (w + av + s)
    BY <2>3, <2>4, <2>5, <1>2, <1>3, <1>4, <1>7, <1>9, Mod, WordAssumption, WordPositive DEF Minus
  <2> QED BY <2>6, <1>2, <1>4, <1>7, <1>9
<1> HIDE DEF n
<1> QED BY <1>1, <1>4, <1>7, <1>9, <1>11, <1>14, <1>15

-----------------------------------------------------------------------------
(* Every action preserves the invariant.                                    *)

(* The facts about naturals the steps below start from.                     *)
LEMMA Typed ==
  ASSUME IInv
  PROVE  /\ height \in Nat /\ age \in Nat /\ pending \in Nat /\ restarts \in Nat
         /\ Reserve \in Nat /\ WorkPool \in Nat /\ AvailPool \in Nat
         /\ SecurityDistributedTotal \in Nat /\ WorkPaidTotal \in Nat /\ AvailPaidTotal \in Nat
         /\ LastEpoch \in Nat /\ LastSupply \in Nat
         /\ supply \in Nat /\ balance \in Nat /\ balance <= supply
         /\ GenesisReserveU = Reserve + WorkPool + AvailPool + SecurityDistributedTotal
                                + WorkPaidTotal + AvailPaidTotal
         /\ params \in ParamSets
BY DEF IInv, TypeOK, ReserveAccounted

(* A sum that stays within the initial Reserve is exact.                    *)
LEMMA PlusExact ==
  ASSUME NEW x \in Nat, NEW y \in Nat, x + y <= GenesisReserveU
  PROVE  Plus(x, y) = x + y
BY Mod, WordAssumption, WordPositive DEF Plus

(* A block whose epoch is not honoured.                                     *)
LEMMA UnhonouredOK ==
  ASSUME IInv, EpochDisabled \/ Realign \/ NotDue \/ Exhausted \/ DeferSecurity \/ DeferUnbacked
  PROVE  IInv'
<1>1. /\ height' = height + 1 /\ age' = age + 1
      /\ UNCHANGED <<counters, LastSupply, coins, pending, params, restarts>>
  BY DEF EpochDisabled, Realign, NotDue, Exhausted, DeferSecurity, DeferUnbacked, deferEpoch,
         NewBlock, Unhonoured, epoch
<1>2. LastEpoch' = LastEpoch \/ LastEpoch' = height'
  BY DEF EpochDisabled, Realign, NotDue, Exhausted, DeferSecurity, DeferUnbacked, deferEpoch,
         epoch
<1>3. LastEpoch' \in Nat /\ height' - LastEpoch' <= age'
  BY <1>1, <1>2, Typed DEF IInv
<1>4. TypeOK'
  BY <1>1, <1>3, Typed DEF TypeOK, counters, coins
<1>5. ReserveAccounted'
  BY <1>1, Typed DEF ReserveAccounted, counters
<1> QED
  BY <1>1, <1>3, <1>4, <1>5 DEF IInv, coins

(* An honoured epoch.                                                       *)
LEMMA ReleaseOK ==
  ASSUME IInv, Release
  PROVE  IInv'
<1> DEFINE s == Slice
<1>1. /\ s.Work \in Nat /\ s.Avail \in Nat /\ s.Security \in Nat /\ s.NewReserve \in Nat
      /\ s.Security <= balance /\ s.Work + s.Avail + s.Security + s.NewReserve = Reserve
  BY SliceOK DEF Release
<1>2. /\ WorkPool' = Plus(WorkPool, s.Work) /\ AvailPool' = Plus(AvailPool, s.Avail)
      /\ SecurityDistributedTotal' = Plus(SecurityDistributedTotal, s.Security)
      /\ balance' = balance - s.Security /\ Reserve' = s.NewReserve
      /\ LastEpoch' = height + 1 /\ height' = height + 1 /\ LastSupply' = supply
      /\ age' = 0 /\ pending' = 0
      /\ UNCHANGED <<WorkPaidTotal, AvailPaidTotal, supply, params, restarts>>
  BY DEF Release, Honour, NewBlock
<1> HIDE DEF s
<1>3. /\ WorkPool' = WorkPool + s.Work /\ AvailPool' = AvailPool + s.Avail
      /\ SecurityDistributedTotal' = SecurityDistributedTotal + s.Security
  BY <1>1, <1>2, Typed, PlusExact
<1> QED
  BY <1>1, <1>2, <1>3, Typed DEF IInv, TypeOK, ReserveAccounted

(* What is paid is at most the pool and the balance.                        *)
LEMMA PayableOK ==
  ASSUME IInv, NEW amt \in Nat, NEW pool \in Nat
  PROVE  Payable(amt, pool) \in Nat /\ Payable(amt, pool) <= pool /\ Payable(amt, pool) <= balance
BY Typed DEF Payable, Least

(* The two payments.                                                        *)
LEMMA PayOK ==
  ASSUME IInv, NEW amt \in Nat, PayWork(amt) \/ PayAvail(amt)
  PROVE  IInv'
<1>1. CASE PayWork(amt)
  <2> DEFINE paid == Payable(amt, WorkPool)
  <2>1. paid \in Nat /\ paid <= WorkPool /\ paid <= balance
    BY PayableOK, Typed
  <2>2. /\ balance' = balance - paid /\ WorkPool' = WorkPool - paid
        /\ WorkPaidTotal' = Plus(WorkPaidTotal, paid)
        /\ UNCHANGED <<height, params, Reserve, AvailPool, SecurityDistributedTotal,
                       AvailPaidTotal, LastEpoch, LastSupply, supply, age, pending, restarts>>
    BY <1>1 DEF PayWork, epoch
  <2> HIDE DEF paid
  <2>3. WorkPaidTotal' = WorkPaidTotal + paid
    BY <2>1, <2>2, Typed, PlusExact
  <2> QED BY <2>1, <2>2, <2>3, Typed DEF IInv, TypeOK, ReserveAccounted
<1>2. CASE PayAvail(amt)
  <2> DEFINE paid == Payable(amt, AvailPool)
  <2>1. paid \in Nat /\ paid <= AvailPool /\ paid <= balance
    BY PayableOK, Typed
  <2>2. /\ balance' = balance - paid /\ AvailPool' = AvailPool - paid
        /\ AvailPaidTotal' = Plus(AvailPaidTotal, paid)
        /\ UNCHANGED <<height, params, Reserve, WorkPool, SecurityDistributedTotal,
                       WorkPaidTotal, LastEpoch, LastSupply, supply, age, pending, restarts>>
    BY <1>2 DEF PayAvail, epoch
  <2> HIDE DEF paid
  <2>3. AvailPaidTotal' = AvailPaidTotal + paid
    BY <2>1, <2>2, Typed, PlusExact
  <2> QED BY <2>1, <2>2, <2>3, Typed DEF IInv, TypeOK, ReserveAccounted
<1> QED BY <1>1, <1>2

(* Burns, gifts, parameters and restarts.                                   *)
LEMMA OutsideOK ==
  ASSUME IInv, NEW amt \in Nat, NEW p \in ParamSets,
         Burn(amt) \/ Fund(amt) \/ UpdateParams(p) \/ Restart
  PROVE  IInv'
<1>1. CASE Burn(amt)
  BY <1>1, Typed, WordAssumption DEF Burn, IInv, TypeOK, ReserveAccounted, counters, epoch
<1>2. CASE Fund(amt)
  BY <1>2, Typed DEF Fund, IInv, TypeOK, ReserveAccounted, counters, epoch
<1>3. CASE UpdateParams(p)
  BY <1>3, Typed DEF UpdateParams, IInv, TypeOK, ReserveAccounted, counters, epoch, coins
<1>4. CASE Restart
  BY <1>4, Typed DEF Restart, IInv, TypeOK, ReserveAccounted, counters, epoch, coins
<1> QED BY <1>1, <1>2, <1>3, <1>4

(* The initial states satisfy the invariant.                                *)
LEMMA InitOK == Init => IInv
BY WordAssumption, BoundsAssumption DEF Init, IInv, TypeOK, ReserveAccounted

(* Every step preserves it.                                                 *)
LEMMA NextOK == IInv /\ [Next]_vars => IInv'
<1> SUFFICES ASSUME IInv, [Next]_vars PROVE IInv'
  OBVIOUS
<1>1. CASE BeginBlock
  BY <1>1, UnhonouredOK, ReleaseOK DEF BeginBlock
<1>2. ASSUME NEW amt \in Claims, PayWork(amt) \/ PayAvail(amt) PROVE IInv'
  BY <1>2, PayOK, BoundsAssumption
<1>3. ASSUME NEW amt \in Burns, Burn(amt) PROVE IInv'
  BY <1>3, OutsideOK, BoundsAssumption, ParamsAssumption
<1>4. ASSUME NEW amt \in Gifts, Fund(amt) PROVE IInv'
  BY <1>4, OutsideOK, BoundsAssumption, ParamsAssumption
<1>5. ASSUME NEW p \in ParamSets, UpdateParams(p) PROVE IInv'
  <2>1. 0 \in Nat
    OBVIOUS
  <2> QED BY <1>5, <2>1, OutsideOK
<1>6. CASE Restart
  <2>1. 0 \in Nat
    OBVIOUS
  <2> QED BY <1>6, <2>1, OutsideOK, ParamsAssumption
<1>7. CASE UNCHANGED vars
  BY <1>7 DEF IInv, TypeOK, ReserveAccounted, vars, counters, epoch, coins
<1> QED BY <1>1, <1>2, <1>3, <1>4, <1>5, <1>6, <1>7 DEF Next, Horizon

(* The invariant holds of the specification.                                *)
LEMMA Inductive == Spec => []IInv
BY InitOK, NextOK, PTL DEF Spec

(* Only BeginBlock raises the height.                                       *)
LEMMA BlockIsBegun ==
  ASSUME IInv, [Next]_vars, height' = height + 1
  PROVE  BeginBlock
<1>1. height' # height /\ height' # 0
  BY Typed
<1> QED BY <1>1 DEF Next, Horizon, PayWork, PayAvail, Burn, Fund, UpdateParams, Restart, vars

-----------------------------------------------------------------------------
(* The counters of x/emission, unsigned in the code, never go below zero    *)
(* and the module account is never overdrawn.                               *)
THEOREM EmissionTypeCorrect == Spec => []TypeOK
<1>1. IInv => TypeOK
  BY DEF IInv
<1> QED BY Inductive, <1>1, PTL

(* Emission never creates or loses a coin of the Reserve: RunEpoch, PayWork *)
(* and PayAvail under every policy Validate accepts, one whose sum of       *)
(* splits wraps included.                                                   *)
THEOREM Accounted == Spec => []ReserveAccounted
<1>1. IInv => ReserveAccounted
  BY DEF IInv
<1> QED BY Inductive, <1>1, PTL

(* The supply delta RunEpoch reads is exactly what was burned since the     *)
(* last honoured epoch.                                                     *)
THEOREM Remembered == Spec => []DemandRemembered
<1>1. IInv => DemandRemembered
  BY Typed DEF IInv, DemandRemembered, Demand
<1> QED BY Inductive, <1>1, PTL

(* RunEpoch honours no epoch early, across exports at zero height too.      *)
THEOREM Paced == Spec => EmissionPace
<1> DEFINE Pace == height' = height + 1 /\ age' = 0 => age + 1 >= params.EpochBlocks
<1>1. IInv /\ [Next]_vars => [Pace]_vars
  <2> SUFFICES ASSUME IInv, [Next]_vars, height' = height + 1, age' = 0
               PROVE  age + 1 >= params.EpochBlocks
    OBVIOUS
  <2>1. BeginBlock
    BY BlockIsBegun
  <2>2. Release
    <3>1. ~Unhonoured
      BY Typed DEF Unhonoured
    <3> QED BY <2>1, <3>1 DEF BeginBlock, EpochDisabled, Realign, NotDue, Exhausted,
               DeferSecurity, DeferUnbacked, deferEpoch
  <2>3. height + 1 - LastEpoch >= params.EpochBlocks
    BY <2>2, Typed, ParamsOK DEF IInv, Release, Honour, NewBlock, Due
  <2> QED BY <2>3, Typed, ParamsOK DEF IInv
<1> QED BY Inductive, <1>1, PTL DEF Spec, EmissionPace

(* Every BeginBlock leaves the next epoch less than epoch_blocks ahead.     *)
THEOREM InReach == Spec => NextEpochInReach
<1> DEFINE Reach == height' = height + 1 /\ params.EpochBlocks > 0 =>
                      LastEpoch' <= height' /\ height' - LastEpoch' < params.EpochBlocks
<1>1. IInv /\ [Next]_vars => [Reach]_vars
  <2> SUFFICES ASSUME IInv, [Next]_vars, height' = height + 1, params.EpochBlocks > 0
               PROVE  LastEpoch' <= height' /\ height' - LastEpoch' < params.EpochBlocks
    OBVIOUS
  <2>1. BeginBlock
    BY BlockIsBegun
  <2>2. params.EpochBlocks \in Nat
    BY ParamsOK DEF IInv
  <2>3. CASE NotDue
    BY <2>3 DEF NotDue, epoch
  <2>4. CASE LastEpoch' = height'
    BY <2>4, <2>2, Typed
  <2>5. CASE EpochDisabled
    BY <2>5 DEF EpochDisabled
  <2> QED
    BY <2>1, <2>3, <2>4, <2>5 DEF BeginBlock, Realign, Exhausted, DeferSecurity, DeferUnbacked,
       deferEpoch, Release, Honour
<1> QED BY Inductive, <1>1, PTL DEF Spec, NextEpochInReach

(* RunEpoch, PayWork and PayAvail take from the account exactly what they   *)
(* take from the counters.                                                  *)
THEOREM Provisioned == Spec => SurplusNeverShrinks
<1>1. IInv /\ [Next]_vars => [Surplus' >= Surplus]_vars
  <2> SUFFICES ASSUME IInv, [Next]_vars PROVE Surplus' >= Surplus
    OBVIOUS
  <2> DEFINE promised == <<Reserve, WorkPool, AvailPool>>
  <2>1. CASE UNCHANGED promised /\ balance' \in Nat /\ balance' >= balance
    BY <2>1, Typed DEF Surplus
  <2>2. CASE EpochDisabled \/ Realign \/ NotDue \/ Exhausted \/ DeferSecurity \/ DeferUnbacked
    BY <2>1, <2>2, Typed DEF EpochDisabled, Realign, NotDue, Exhausted, DeferSecurity,
       DeferUnbacked, deferEpoch, counters, coins
  <2>3. CASE Release
    <3> DEFINE s == Slice
    <3>1. /\ s.Work \in Nat /\ s.Avail \in Nat /\ s.Security \in Nat /\ s.NewReserve \in Nat
          /\ s.Work + s.Avail + s.Security + s.NewReserve = Reserve
      BY <2>3, SliceOK DEF Release
    <3>2. /\ WorkPool' = Plus(WorkPool, s.Work) /\ AvailPool' = Plus(AvailPool, s.Avail)
          /\ balance' = balance - s.Security /\ Reserve' = s.NewReserve
      BY <2>3 DEF Release, Honour
    <3> HIDE DEF s
    <3>3. WorkPool' = WorkPool + s.Work /\ AvailPool' = AvailPool + s.Avail
      BY <3>1, <3>2, Typed, PlusExact
    <3> QED BY <3>1, <3>2, <3>3, Typed DEF Surplus
  <2>4. ASSUME NEW amt \in Claims, PayWork(amt) PROVE Surplus' >= Surplus
    <3> DEFINE paid == Payable(amt, WorkPool)
    <3>1. paid \in Nat
      BY PayableOK, Typed, BoundsAssumption
    <3>2. /\ balance' = balance - paid /\ WorkPool' = WorkPool - paid
          /\ UNCHANGED <<Reserve, AvailPool>>
      BY <2>4 DEF PayWork
    <3> HIDE DEF paid
    <3> QED BY <3>1, <3>2, Typed DEF Surplus
  <2>5. ASSUME NEW amt \in Claims, PayAvail(amt) PROVE Surplus' >= Surplus
    <3> DEFINE paid == Payable(amt, AvailPool)
    <3>1. paid \in Nat
      BY PayableOK, Typed, BoundsAssumption
    <3>2. /\ balance' = balance - paid /\ AvailPool' = AvailPool - paid
          /\ UNCHANGED <<Reserve, WorkPool>>
      BY <2>5 DEF PayAvail
    <3> HIDE DEF paid
    <3> QED BY <3>1, <3>2, Typed DEF Surplus
  <2>6. ASSUME NEW amt \in Burns, Burn(amt) PROVE Surplus' >= Surplus
    BY <2>1, <2>6, Typed DEF Burn, counters
  <2>7. ASSUME NEW amt \in Gifts, Fund(amt) PROVE Surplus' >= Surplus
    BY <2>1, <2>7, Typed, BoundsAssumption DEF Fund, counters
  <2>8. ASSUME NEW p \in ParamSets, UpdateParams(p) PROVE Surplus' >= Surplus
    BY <2>1, <2>8, Typed DEF UpdateParams, counters, coins
  <2>9. CASE Restart
    BY <2>1, <2>9, Typed DEF Restart, counters, coins
  <2>10. CASE UNCHANGED vars
    BY <2>1, <2>10, Typed DEF vars, counters, coins
  <2> QED
    BY <2>2, <2>3, <2>4, <2>5, <2>6, <2>7, <2>8, <2>9, <2>10 DEF Next, Horizon, BeginBlock
<1> QED BY Inductive, <1>1, PTL DEF Spec, SurplusNeverShrinks

-----------------------------------------------------------------------------
(* Demand is counted once.  What was credited to work is covered by the     *)
(* coins burned before the epoch last honoured, those that a slice has      *)
(* counted; those of `pending` none has counted yet.                        *)
Counted == InitialSupply - (supply + pending)

Covered(p) == 10000 * (WorkPool + WorkPaidTotal) <= p.WorkGateBps * Counted

CInv == IInv /\ Counted \in Nat /\ \E p \in ParamSets : Covered(p)

(* The gate of a posted set is a natural number.                            *)
LEMMA GateOK == \A p \in ParamSets : p.WorkGateBps \in Nat
BY ParamsAssumption DEF ValidParams, ParamsRecord

(* A share of x at rate b, multiplied back, is at most the product.         *)
LEMMA ShareWithin ==
  ASSUME NEW x \in Nat, NEW b \in Nat
  PROVE  mulBps(x, b) \in Nat /\ 10000 * mulBps(x, b) <= b * x
<1> DEFINE y == x * b
<1>1. y \in Nat /\ b * x = y
  OBVIOUS
<1> HIDE DEF y
<1>2. y % Word \in Nat /\ y % Word <= y
  <2>1. CASE y < Word
    BY <1>1, <2>1, Mod, WordPositive
  <2>2. CASE y >= Word
    BY <1>1, <2>2, Mod, WordPositive
  <2> QED BY <1>1, <2>1, <2>2, WordPositive
<1> DEFINE z == y % Word
<1>3. z \in Nat /\ z <= y
  BY <1>2
<1>4. mulBps(x, b) = z \div 10000
  BY DEF mulBps, y
<1> HIDE DEF z
<1>5. z \div 10000 \in Nat /\ 10000 * (z \div 10000) <= z
  BY <1>3
<1> QED BY <1>1, <1>3, <1>4, <1>5

(* The work flow of a slice is within the gate in force times the demand.   *)
LEMMA SliceGated ==
  ASSUME IInv
  PROVE  10000 * Slice.Work <= params.WorkGateBps * pending
<1>1. PICK d \in Nat : d = Demand
  BY Typed DEF Demand
<1>2. d <= pending /\ pending \in Nat
  BY <1>1, Typed DEF Demand, IInv
<1>3. PICK b \in Nat : b = params.WorkGateBps
  BY ParamsOK DEF IInv
<1>4. mulBps(d, b) \in Nat /\ 10000 * mulBps(d, b) <= b * d
  BY ShareWithin
<1>g. PICK g \in Nat : g = mulBps(d, b)
  BY <1>4
<1>h. 10000 * g <= b * d
  BY <1>4, <1>g
<1>5. Slice.Work <= g
  <2> DEFINE w == mulBps(mulBps(Reserve, params.ReserveReleaseBps), params.WorkSplitBps)
  <2>1. Slice.Work = Least(w, g)
    BY <1>1, <1>3, <1>g DEF Slice, EpochRelease
  <2>2. Slice.Work \in Nat
    BY SliceOK
  <2> HIDE DEF w
  <2> QED BY <2>1, <2>2 DEF Least
<1>6. Slice.Work \in Nat
  BY SliceOK
<1>7. b * d <= b * pending
  BY <1>2
<1>8. b * d \in Nat /\ b * pending \in Nat
  BY <1>2
<1> HIDE DEF Slice
<1>9. PICK w \in Nat : w = Slice.Work
  BY <1>6
<1>10. 10000 * w <= b * pending
  BY <1>h, <1>5, <1>7, <1>8, <1>9
<1> QED BY <1>3, <1>9, <1>10

(* Two amounts covered at two gates are covered together at the wider.      *)
LEMMA Wider ==
  ASSUME NEW x \in Nat, NEW y \in Nat, NEW a \in Nat, NEW b \in Nat,
         NEW s \in Nat, NEW t \in Nat, x <= a * s, y <= b * t
  PROVE  x + y <= a * (s + t) \/ x + y <= b * (s + t)
<1>1. a * (s + t) = a * s + a * t /\ b * (s + t) = b * s + b * t
  OBVIOUS
<1>2. PICK as \in Nat, at \in Nat, bs \in Nat, bt \in Nat :
        as = a * s /\ at = a * t /\ bs = b * s /\ bt = b * t
  OBVIOUS
<1>3. CASE a <= b
  <2>1. as <= bs
    BY <1>2, <1>3
  <2> QED BY <1>1, <1>2, <2>1
<1>4. CASE b <= a
  <2>1. bt <= at
    BY <1>2, <1>4
  <2> QED BY <1>1, <1>2, <2>1
<1> QED BY <1>3, <1>4

(* An honoured epoch counts what is pending, and nothing else is counted.   *)
LEMMA ReleaseCovered ==
  ASSUME CInv, Release
  PROVE  Counted' \in Nat /\ \E p \in ParamSets : Covered(p)'
<1>1. /\ WorkPool' = WorkPool + Slice.Work /\ WorkPaidTotal' = WorkPaidTotal
      /\ supply' = supply /\ pending' = 0
  <2>1. IInv
    BY DEF CInv
  <2>2. Slice.Work \in Nat /\ Slice.Work + WorkPool <= GenesisReserveU
    BY <2>1, SliceOK, Typed DEF Release
  <2>3. PICK w \in Nat : w = Slice.Work
    BY <2>2
  <2> QED BY <2>1, <2>2, <2>3, PlusExact, Typed DEF Release, Honour
<1>2. PICK w \in Nat : w = Slice.Work
  BY SliceOK DEF CInv
<1>3. PICK b \in Nat : b = params.WorkGateBps /\ 10000 * w <= b * pending
  BY <1>2, SliceGated, ParamsOK DEF CInv, IInv
<1>4. PICK p \in ParamSets : Covered(p)
  BY DEF CInv
<1>5. PICK a \in Nat : a = p.WorkGateBps
  BY <1>4, GateOK
<1>6. PICK s \in Nat : s = Counted
  BY DEF CInv
<1>7. PICK t \in Nat : t = pending
  BY Typed DEF CInv
<1>8. PICK x \in Nat : x = 10000 * (WorkPool + WorkPaidTotal)
  BY Typed DEF CInv
<1>9. Counted' = s + t
  BY <1>1, <1>6, <1>7, Typed, WordAssumption DEF Counted, CInv
<1>10. x <= a * s
  BY <1>4, <1>5, <1>6, <1>8 DEF Covered
<1>11. PICK y \in Nat : y = 10000 * w
  OBVIOUS
<1>12. y <= b * t
  BY <1>3, <1>7, <1>11
<1>13. x + y <= a * (s + t) \/ x + y <= b * (s + t)
  BY <1>10, <1>12, Wider
<1>14. 10000 * (WorkPool' + WorkPaidTotal') = x + y
  BY <1>1, <1>2, <1>8, <1>11, Typed DEF CInv
<1>15. params \in ParamSets
  BY Typed DEF CInv
<1> QED BY <1>3, <1>4, <1>5, <1>9, <1>13, <1>14, <1>15 DEF Covered

(* Any other step moves neither side.                                       *)
LEMMA OthersCovered ==
  ASSUME IInv, [Next]_vars, ~Release
  PROVE  /\ WorkPool' + WorkPaidTotal' = WorkPool + WorkPaidTotal
         /\ supply' + pending' = supply + pending
<1>1. CASE EpochDisabled \/ Realign \/ NotDue \/ Exhausted \/ DeferSecurity \/ DeferUnbacked
  BY <1>1 DEF EpochDisabled, Realign, NotDue, Exhausted, DeferSecurity, DeferUnbacked,
     deferEpoch, Unhonoured, counters, coins
<1>2. ASSUME NEW amt \in Claims, PayWork(amt)
      PROVE  /\ WorkPool' + WorkPaidTotal' = WorkPool + WorkPaidTotal
             /\ supply' = supply /\ pending' = pending
  <2> DEFINE paid == Payable(amt, WorkPool)
  <2>1. paid \in Nat /\ paid <= WorkPool
    BY PayableOK, Typed, BoundsAssumption
  <2>2. WorkPool' = WorkPool - paid /\ WorkPaidTotal' = Plus(WorkPaidTotal, paid)
    BY <1>2 DEF PayWork
  <2> HIDE DEF paid
  <2>3. WorkPaidTotal' = WorkPaidTotal + paid
    BY <2>1, <2>2, Typed, PlusExact
  <2> QED BY <1>2, <2>1, <2>2, <2>3, Typed DEF PayWork
<1>3. ASSUME NEW amt \in Claims, PayAvail(amt)
      PROVE  UNCHANGED <<WorkPool, WorkPaidTotal, supply, pending>>
  BY <1>3 DEF PayAvail
<1>4. ASSUME NEW amt \in Burns, Burn(amt)
      PROVE  /\ UNCHANGED <<WorkPool, WorkPaidTotal>>
             /\ supply' + pending' = supply + pending
  BY <1>4, Typed, BoundsAssumption DEF Burn, counters
<1>5. ASSUME NEW amt \in Gifts, Fund(amt)
      PROVE  UNCHANGED <<WorkPool, WorkPaidTotal, supply, pending>>
  BY <1>5 DEF Fund, counters
<1>6. ASSUME NEW p \in ParamSets, UpdateParams(p)
      PROVE  UNCHANGED <<WorkPool, WorkPaidTotal, supply, pending>>
  BY <1>6 DEF UpdateParams, counters, coins
<1>7. CASE Restart
  BY <1>7 DEF Restart, counters, coins
<1>8. CASE UNCHANGED vars
  BY <1>8 DEF vars, counters, coins
<1> QED
  BY <1>1, <1>2, <1>3, <1>4, <1>5, <1>6, <1>7, <1>8 DEF Next, Horizon, BeginBlock

(* The work flow over the life of the chain is within the gate times the    *)
(* coins burned: RunEpoch counts a burned coin in at most one slice,        *)
(* whatever was deferred, exhausted, disabled or restarted in between.      *)
THEOREM CountedOnce == Spec => []DemandCountedOnce
<1>1. Init => CInv
  <2> SUFFICES ASSUME Init PROVE CInv
    OBVIOUS
  <2>1. IInv
    BY InitOK
  <2>2. Counted = 0 /\ WorkPool + WorkPaidTotal = 0 /\ params \in ParamSets
    BY WordAssumption DEF Init, Counted
  <2>3. Covered(params)
    BY <2>2, GateOK DEF Covered
  <2> QED BY <2>1, <2>2, <2>3 DEF CInv
<1>2. CInv /\ [Next]_vars => CInv'
  <2> SUFFICES ASSUME CInv, [Next]_vars PROVE CInv'
    OBVIOUS
  <2>1. IInv /\ IInv'
    BY NextOK DEF CInv
  <2>2. CASE Release
    BY <2>1, <2>2, ReleaseCovered DEF CInv
  <2>3. CASE ~Release
    <3>1. Counted' = Counted /\ WorkPool' + WorkPaidTotal' = WorkPool + WorkPaidTotal
      BY <2>1, <2>3, OthersCovered DEF Counted
    <3> QED BY <2>1, <3>1 DEF CInv, Covered
  <2> QED BY <2>2, <2>3
<1>3. CInv => DemandCountedOnce
  <2> SUFFICES ASSUME CInv PROVE DemandCountedOnce
    OBVIOUS
  <2>1. PICK p \in ParamSets : Covered(p)
    BY DEF CInv
  <2>2. PICK b \in Nat : b = p.WorkGateBps
    BY <2>1, GateOK
  <2>3. PICK t \in Nat : t = pending
    BY Typed DEF CInv
  <2>4. PICK s \in Nat : s = Counted
    BY DEF CInv
  <2>5. InitialSupply - supply = s + t
    BY <2>3, <2>4, Typed, WordAssumption DEF Counted, CInv
  <2>6. b * (s + t) = b * s + b * t /\ b * s \in Nat /\ b * t \in Nat
    OBVIOUS
  <2>7. PICK x \in Nat : x = 10000 * (WorkPool + WorkPaidTotal)
    BY Typed DEF CInv
  <2>8. x <= b * (s + t)
    BY <2>1, <2>2, <2>4, <2>6, <2>7 DEF Covered
  <2> QED BY <2>2, <2>5, <2>7, <2>8 DEF DemandCountedOnce
<1> QED BY <1>1, <1>2, <1>3, PTL DEF Spec

=============================================================================

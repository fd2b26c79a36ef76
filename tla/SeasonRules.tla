----------------------------- MODULE SeasonRules -----------------------------
(* The pure core of the Final Testnet Season: the rule sets and their first  *)
(* days (services/final_season_rules.py), the pay of a day                   *)
(* (final_season_calc.py) and the payer's own check of published days        *)
(* (final_season_payout.py check_days). Amounts are whole units of udndr.    *)
EXTENDS Integers, Sequences, FiniteSets, Functions, FiniteSetsExt

CONSTANTS
  RuleSets,   \* RULE_HISTORY: the sets in their published order (see SetType)
  Miners,
  NoDay,      \* "none": a set that applies to no day
  NoReport,   \* no signed capacity report: kit_version is None
  NoAddress   \* no payout address known

(* kit: whether the set carries decision 24 (judge reward, floor, probation).*)
SetType == [work : Nat, presence : Nat, windows : Nat, juror : Nat, kit : BOOLEAN,
            judge : Nat, probation : Nat, floor : Nat, capDay : Nat, capSeason : Nat]

ASSUME RuleSetsAssumption == RuleSets \in Seq(SetType)

-----------------------------------------------------------------------------
(* Which set a day is under                                                  *)

(* The refusals of rules_for_day and with_jury_rules: a set applies from a   *)
(* day on only after the set before it does.                                 *)
InOrder(from) ==
  \A i \in 3..Len(RuleSets) :
    from[i] # NoDay => from[i - 1] # NoDay /\ from[i - 1] <= from[i]

(* rules_for_day_with_jury: the last set whose first day has come.           *)
RulesForDay(day, from) ==
  Max({1} \cup {i \in 2..Len(RuleSets) : from[i] # NoDay /\ day >= from[i]})

(* The last block of a day, cut at the season's last block once it is known. *)
LastBlock(day, start, blocks, end) ==
  LET last == start + (day + 1) * blocks - 1 IN IF end = NoDay \/ last < end THEN last ELSE end

-----------------------------------------------------------------------------
(* The pay of one identity on one day                                        *)

Floored(n) == IF n > 0 THEN n ELSE 0
Least(a, b) == IF a < b THEN a ELSE b

(* Proven windows count only on a day with verified work.                    *)
PresencePaid(f, r) == IF f.verified < 1 THEN 0 ELSE Floored(Least(f.presence, r.windows))

GrossOf(f, r) ==
  LET g == PresencePaid(f, r) * r.presence + Floored(f.verified) * r.work
             + Floored(f.verdicts) * r.juror + (IF r.kit THEN f.judge * r.judge ELSE 0)
  IN  IF r.kit /\ f.probation THEN (g * r.probation) \div 10000 ELSE g

(* kit_allows_pay, registration_allows_pay: an absent report is no kit.      *)
KitAllowsPay(f, r) == r.kit => f.kit # NoReport /\ f.kit >= r.floor
RegistrationAllowsPay(f, r) == r.kit => f.dated

PayableOf(f, r) ==
  IF f.addr # NoAddress /\ KitAllowsPay(f, r) /\ RegistrationAllowsPay(f, r)
  THEN GrossOf(f, r) ELSE 0

Total(amounts) == FoldFunction(LAMBDA x, y : x + y, 0, amounts)

-----------------------------------------------------------------------------
(* The ranking of a day: compute_day                                         *)

Budget(r, paid_before) == Floored(Least(r.capDay, r.capSeason - paid_before))

(* paid = payable, or its share of the budget, rounded down.                 *)
Share(payable, total, budget) ==
  IF total > budget THEN (payable * budget) \div total ELSE payable

(* `facts` is a function from the identities of the day to their facts.      *)
ComputeDay(day, set, facts, paid_before) ==
  LET r       == RuleSets[set]
      payable == [m \in DOMAIN facts |-> PayableOf(facts[m], r)]
      budget  == Budget(r, paid_before)
      paid    == [m \in DOMAIN facts |-> Share(payable[m], Total(payable), budget)]
  IN  [day |-> day, set |-> set, facts |-> facts, budget |-> budget,
       gross |-> [m \in DOMAIN facts |-> GrossOf(facts[m], r)], payable |-> payable, paid |-> paid]

PaidBefore(days, n) == FoldFunction(LAMBDA x, y : x + y, 0, [i \in 1..n |-> Total(days[i].paid)])

-----------------------------------------------------------------------------
(* The payer's check of the published days: check_days. `days[n]` is day     *)
(* n - 1.                                                                    *)

RowsFollow(d, r) ==
  \A m \in DOMAIN d.facts :
    /\ d.gross[m] = GrossOf(d.facts[m], r)
    /\ d.payable[m] = PayableOf(d.facts[m], r)
    /\ d.paid[m] = Share(d.payable[m], Total(d.payable), d.budget)

CheckDays(days) ==
  \A n \in 1..Len(days) :
    LET d == days[n]
        r == RuleSets[d.set]
    IN  /\ d.day = n - 1
        /\ n > 1 => days[n - 1].set <= d.set
        /\ RowsFollow(d, r)
        /\ d.budget = Budget(r, PaidBefore(days, n - 1))
        /\ Total(d.paid) <= d.budget
        /\ PaidBefore(days, n) <= r.capSeason

(* check_doubled_from: exactly the days from `first` on are under a set with  *)
(* the doubled rates.                                                        *)
CheckDoubledFrom(days, doubled, first) ==
  \A n \in 1..Len(days) : (days[n].set \in doubled) = (first # NoDay /\ n - 1 >= first)

(* week_totals: what each address earned over the given days.                *)
EarnedRows(days, a) ==
  {x \in (1..Len(days)) \X Miners : /\ x[2] \in DOMAIN days[x[1]].facts
                                    /\ days[x[1]].facts[x[2]].addr = a
                                    /\ days[x[1]].paid[x[2]] > 0}

Earners(days) ==
  {a \in {days[n].facts[m].addr : n \in 1..Len(days), m \in Miners} : EarnedRows(days, a) # {}}

WeekTotals(days) ==
  [a \in Earners(days) |-> Total([x \in EarnedRows(days, a) |-> days[x[1]].paid[x[2]]])]

=============================================================================

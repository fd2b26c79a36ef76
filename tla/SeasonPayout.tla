---------------------------- MODULE SeasonPayout ----------------------------
(* The weekly payment of the Final Testnet Season                            *)
(* (services/final_season_payout.py) against the service that publishes the  *)
(* rankings and the chain that executes the payments. One payer process runs *)
(* at a time: the cron and a run by hand share a lock. A week has            *)
(* DaysPerWeek days, a part holds Batch addresses, addresses are numbers (in *)
(* the order the plan sorts them).                                           *)
EXTENDS SeasonRules, SequencesExt

CONSTANTS
  None,
  DaysPerWeek, Batch,
  DayFacts,        \* facts of a day: functions from miners to their facts
  From,           \* the first day of each rule set
  Doubled,        \* the sets with the doubled rates
  DoubledFrom,    \* --doubled-from-day, named by the payer
  Unpayable,      \* addresses that cannot receive a transfer (payable_address)
  AmendIds,
  MaxDays,
  MaxManual,      \* runs by hand
  MaxRepublished, \* changes of what the service has published
  MaxUnfrozen,    \* amendment files missing from an image
  MaxFaults,      \* all of those, crashes, transactions lost, late or failed together
  LandsInWindow   \* whether a block may come between a run's search and its signature

ASSUME PayoutAssumption ==
  /\ IsFiniteSet(Miners) /\ LandsInWindow \in BOOLEAN
  /\ DaysPerWeek \in Nat \ {0} /\ Batch \in Nat \ {0}
  /\ MaxDays \in Nat /\ MaxRepublished \in Nat /\ IsFiniteSet(AmendIds)

(* What the ranking reads of an identity is counted.                         *)
ASSUME FactsAssumption ==
  \A f \in DayFacts :
    DOMAIN f \subseteq Miners
    /\ \A m \in DOMAIN f : /\ f[m].presence \in Int /\ f[m].verified \in Int
                           /\ f[m].verdicts \in Int /\ f[m].judge \in Nat

(* Every set but those never used starts on a day.                           *)
ASSUME FromAssumption ==
  RuleSets # <<>> /\ From \in [1..Len(RuleSets) -> Nat \cup {NoDay}]

VARIABLES
  published,  \* the rankings day 0, 1, ... of the service
  ended,      \* the last published day holds the season's end
  drafts,     \* the output of --plan-amendment, per id
  frozen,     \* the amendment files of the image, per id
  seq,        \* the payout account's sequence on chain
  executed,   \* its successful transactions, in the order of their blocks
  failed,     \* those a block executed without success
  pending,    \* its transactions in a mempool
  run,        \* the payer process
  exit,       \* how the last run of --due ended: the week it stopped at and its status
  left        \* what remains of each bound

rankVars  == <<published, ended>>
amendVars == <<drafts, frozen>>
chainVars == <<seq, executed, failed, pending>>
vars == <<published, ended, drafts, frozen, seq, executed, failed, pending, run, exit, left>>

Idle == [pc |-> "idle"]

-----------------------------------------------------------------------------
(* Plans                                                                     *)

Sum(f) == FoldFunction(LAMBDA x, y : x + y, 0, f)

(* week_days: the published days of week w, cut after the last one.          *)
WeekDays(w, days) == {n \in 1..Len(days) : (n - 1) \div DaysPerWeek = w}

DaysOfWeek(w, days) == SubSeq(days, w * DaysPerWeek + 1, Least(Len(days), (w + 1) * DaysPerWeek))

(* week_plan: what each address earned, the unpayable ones set aside.        *)
WeekPlanFault(w, days) == WeekTotals(SubSeq(days, w * DaysPerWeek + 1, Len(days)))

WeekPlan(w, days) ==
  LET totals == WeekTotals(DaysOfWeek(w, days))
  IN  Restrict(totals, DOMAIN totals \ Unpayable)

SetAside(w, days) ==
  LET totals == WeekTotals(DaysOfWeek(w, days))
  IN  Restrict(totals, DOMAIN totals \cap Unpayable)

(* parts: the addresses in order, Batch at a time.                           *)
PartOf(plan, a) == Cardinality({b \in DOMAIN plan : b < a}) \div Batch
Parts(plan) == {PartOf(plan, a) : a \in DOMAIN plan}
Sends(plan, part) == Restrict(plan, {a \in DOMAIN plan : PartOf(plan, a) = part})

-----------------------------------------------------------------------------
(* Amendments. A document is a set of rows.                                  *)

(* _refused_for_the_report_alone: no other reason keeps the row unpaid.      *)
RefusedForReport(d, m) ==
  LET f == d.facts[m] IN
    RuleSets[d.set].kit /\ f.kit = NoReport /\ f.addr # NoAddress /\ f.dated

Amount(rows) == Sum([r \in rows |-> r.amt])

AmendmentPayable(doc) ==
  [a \in {r.addr : r \in doc} |-> Amount({r \in doc : r.addr = a})]

(* amendment_problem: a row listed twice, or paid to an unpayable address.   *)
WellFormed(doc) ==
  /\ \A r, s \in doc : <<r.day, r.miner>> = <<s.day, s.miner>> => r = s
  /\ \A r \in doc : r.addr \notin Unpayable /\ r.amt > 0

(* _row_refusal: the row no longer matches its day's ranking.                *)
RowRefused(r, days) ==
  \/ r.day > Len(days)
  \/ LET d == days[r.day] IN
       \/ r.miner \notin DOMAIN d.facts
       \/ ~ RefusedForReport(d, r.miner)
       \/ d.payable[r.miner] # 0 \/ d.paid[r.miner] # 0
       \/ d.gross[r.miner] # r.amt
       \/ d.facts[r.miner].addr # r.addr

Frozen(files) == {n \in AmendIds : files[n] # None}
Rows(files, S) == UNION {files[n] : n \in S}

(* amendment_refusal: a row in two amendments, a row out of line, a day over *)
(* its cap, a season over its cap.                                           *)
AmendmentRefused(n, files, days) ==
  LET all == Rows(files, Frozen(files))
      key(r) == <<r.day, r.miner>>
  IN  \/ \E i, j \in Frozen(files) : i # j /\ \E r \in files[i], s \in files[j] : key(r) = key(s)
      \/ \E r \in files[n] : RowRefused(r, days)
      \/ \E r \in files[n] :
           Total(days[r.day].paid) + Amount({s \in all : s.day = r.day})
             > RuleSets[days[r.day].set].capDay
      \/ PaidBefore(days, Len(days)) + Amount(all) > RuleSets[Last(days).set].capSeason

(* amended_rows_refusal: a week whose day an amendment pays otherwise.       *)
AmendedRowsRefused(w, days) ==
  \E r \in Rows(frozen, Frozen(frozen)) : r.day \in WeekDays(w, days) /\ RowRefused(r, days)

-----------------------------------------------------------------------------
(* What the chain holds                                                      *)

(* paid_parts, amendment_parts: the executed parts of one obligation.        *)
Done(o) == {t \in Range(executed) : t.of = o}

Week(w) == <<"week", w>>
Amend(n) == <<"amend", n>>

(* _weeks_on_chain.                                                          *)
WeeksOnChain == {t.of[2] : t \in {x \in Range(executed) : x.of[1] = "week"}}

(* amendment_chain_refusal: a paid amendment no file names, or another file. *)
AmendmentChainRefusedFault(n) == FALSE

AmendmentChainRefused(n) ==
  \E t \in Range(executed) :
    /\ t.of[1] = "amend"
    /\ \/ frozen[t.of[2]] = None
       \/ t.of[2] # n /\ t.plan # frozen[t.of[2]]

-----------------------------------------------------------------------------
(* The service: rank_days publishes the days in order                        *)

BudgetedFault(d, facts, days) == ComputeDay(d, RulesForDay(d, From), facts, 0)

Budgeted(d, facts, days) ==
  ComputeDay(d, RulesForDay(d, From), facts, PaidBefore(days, d))

Publish ==
  /\ ~ ended /\ Len(published) < MaxDays
  /\ \E facts \in DayFacts, last \in BOOLEAN :
       /\ published' = Append(published, Budgeted(Len(published), facts, published))
       /\ ended' = (last \/ Len(published) + 1 = MaxDays)
  /\ UNCHANGED <<amendVars, chainVars, run, exit, left>>

(* The service changes what it published: a day and all later ones are       *)
(* replaced, or gone.                                                        *)
Republish ==
  /\ left.republish > 0 /\ left.fault > 0
  /\ \E n \in 1..Len(published) :
       \/ published' = SubSeq(published, 1, n - 1)
       \/ \E facts \in DayFacts :
            published' = Append(SubSeq(published, 1, n - 1), Budgeted(n - 1, facts, published))
  /\ ended' = FALSE
  /\ left' = [left EXCEPT !.republish = @ - 1, !.fault = @ - 1]
  /\ UNCHANGED <<amendVars, chainVars, run, exit>>

-----------------------------------------------------------------------------
(* Amendments are planned read only, committed and shipped by people. The    *)
(* files are part of the image a run starts from.                            *)

RowOf(d, m) ==
  [day |-> d, miner |-> m, addr |-> published[d].facts[m].addr, amt |-> published[d].gross[m]]

(* The unpaid rows that lack nothing but the report.                         *)
Unproven(days) ==
  {r \in UNION {{RowOf(d, m) : m \in Miners \cap DOMAIN published[d].facts} : d \in days} :
     /\ RefusedForReport(published[r.day], r.miner)
     /\ r.amt > 0 /\ published[r.day].paid[r.miner] = 0
     /\ r.addr \notin Unpayable}

(* plan_amendment: `proven` stands for the relay deposits that prove a kit.  *)
PlanAmendment(n) ==
  /\ run = Idle /\ frozen[n] = None /\ drafts[n] = None
  /\ \E wanted \in SUBSET (1..Len(published)) : \E proven \in SUBSET Unproven(wanted) \ {{}} :
       /\ CheckDays(published) /\ CheckDoubledFrom(published, Doubled, DoubledFrom)
       /\ WellFormed(proven)
       /\ ~ AmendmentRefused(n, [frozen EXCEPT ![n] = proven], published)
       /\ drafts' = [drafts EXCEPT ![n] = proven]
  /\ UNCHANGED <<rankVars, frozen, chainVars, run, exit, left>>

Freeze(n) ==
  /\ run = Idle /\ drafts[n] # None /\ frozen[n] = None
  /\ frozen' = [frozen EXCEPT ![n] = drafts[n]]
  /\ UNCHANGED <<rankVars, drafts, chainVars, run, exit, left>>

(* An image without the file: load_amendments finds nothing.                 *)
Unfreeze(n) ==
  /\ run = Idle /\ left.unfreeze > 0 /\ left.fault > 0 /\ frozen[n] # None
  /\ frozen' = [frozen EXCEPT ![n] = None]
  /\ left' = [left EXCEPT !.unfreeze = @ - 1, !.fault = @ - 1]
  /\ UNCHANGED <<rankVars, drafts, chainVars, run, exit>>

-----------------------------------------------------------------------------
(* The payer process                                                         *)

Exit(rc) ==
  /\ run' = Idle
  /\ exit' = IF run.mode = "due" THEN [n |-> run.n, rc |-> rc] ELSE exit

Start(mode, n) == run' = [pc |-> "plan", mode |-> mode, n |-> n]

(* --due, from the cron.                                                     *)
StartDue ==
  /\ run = Idle
  /\ Start("due", 0) /\ exit' = None
  /\ UNCHANGED <<rankVars, amendVars, chainVars, left>>

(* --week w and --amendment n, by hand.                                      *)
StartManual ==
  /\ run = Idle /\ left.manual > 0
  /\ \/ \E w \in 0..MaxDays - 1 : Start("week", w)
     \/ \E n \in AmendIds : Start("amend", n)
  /\ left' = [left EXCEPT !.manual = @ - 1]
  /\ UNCHANGED <<rankVars, amendVars, chainVars, exit>>

InPayer == UNCHANGED <<rankVars, amendVars, chainVars, left>>

WeekRankedFault(w) == Len(published) > (w + 1) * DaysPerWeek \/ ended

(* plan_days stops reading at the season's last day.                         *)
WeekRanked(w) == Len(published) >= (w + 1) * DaysPerWeek \/ ended
PastEnd(w) == ended /\ WeekDays(w, published) = {}
DaysRefused == ~ CheckDays(published) \/ ~ CheckDoubledFrom(published, Doubled, DoubledFrom)
PlanRefused(w) == DaysRefused \/ AmendedRowsRefused(w, published)

Searching(plan) == run' = [pc |-> "search", mode |-> run.mode, n |-> run.n, plan |-> plan]

(* A week with a day not published: a wait, unless the chain already holds   *)
(* this week or a later one, or the day is late (late_from, against the      *)
(* chain's height).                                                          *)
PlanNotRanked ==
  /\ run.pc = "plan" /\ run.mode # "amend" /\ ~ WeekRanked(run.n)
  /\ \E late \in BOOLEAN :
       Exit(IF run.mode = "week" THEN 1
            ELSE IF (\E w \in WeeksOnChain : w >= run.n) \/ late THEN 3 ELSE 0)
  /\ InPayer

PlanWeek ==
  /\ run.pc = "plan" /\ run.mode # "amend" /\ WeekRanked(run.n)
  /\ \/ PastEnd(run.n) /\ Exit(IF run.mode = "due" THEN 0 ELSE 1)
     \/ ~ PastEnd(run.n) /\ PlanRefused(run.n) /\ Exit(IF run.mode = "due" THEN 3 ELSE 1)
     \/ /\ ~ PastEnd(run.n) /\ ~ PlanRefused(run.n)
        /\ Searching(WeekPlan(run.n, published))
        /\ UNCHANGED exit
  /\ InPayer

(* _amendment_main, up to the read of the chain.                             *)
PlanAmend ==
  /\ run.pc = "plan" /\ run.mode = "amend"
  /\ LET n == run.n
         bad == \/ frozen[n] = None
                \/ \E r \in frozen[n] : r.day > Len(published)
                \/ DaysRefused
                \/ AmendmentRefused(n, frozen, published)
     IN  IF bad THEN Exit(3) ELSE Searching(frozen[n]) /\ UNCHANGED exit
  /\ InPayer

Obligation == IF run.mode = "amend" THEN Amend(run.n) ELSE Week(run.n)
Amounts == IF run.mode = "amend" THEN AmendmentPayable(run.plan) ELSE run.plan

(* The walk of --due goes on to the next week; the other modes end.          *)
Advance ==
  IF run.mode = "due" THEN run' = [pc |-> "plan", mode |-> "due", n |-> run.n + 1] /\ UNCHANGED exit
                      ELSE Exit(0)

DecideFault(o, plan, amounts) ==
  [stop |-> FALSE, todo |-> Parts(amounts) \ {t.part : t \in Done(o)}]

DecideAnyFault(o, plan, amounts) ==
  [stop |-> FALSE, todo |-> IF Done(o) = {} THEN Parts(amounts) ELSE {}]

(* _decide: parts under another digest stop everything; a part on chain is   *)
(* not sent again.                                                           *)
Decide(o, plan, amounts) ==
  [stop |-> \E t \in Done(o) : t.plan # plan,
   todo |-> Parts(amounts) \ {t.part : t \in Done(o)}]

Sending(todo) ==
  [pc |-> "send", mode |-> run.mode, n |-> run.n, plan |-> run.plan, todo |-> todo]

Search ==
  /\ run.pc = "search"
  /\ LET v == Decide(Obligation, run.plan, Amounts) IN
       \/ v.stop /\ Exit(3)
       \/ run.mode = "amend" /\ AmendmentChainRefused(run.n) /\ Exit(3)
       \/ ~ v.stop /\ (run.mode = "amend" => ~ AmendmentChainRefused(run.n))
          /\ \/ v.todo = {} /\ Advance
             \/ v.todo # {} /\ run' = Sending(v.todo) /\ UNCHANGED exit
  /\ InPayer

TxOfFault(part) ==
  [of |-> Obligation, plan |-> run.plan, part |-> part, sends |-> Sends(Amounts, part), seq |-> seq + 1]

TxOf(part) ==
  [of |-> Obligation, plan |-> run.plan, part |-> part, sends |-> Sends(Amounts, part), seq |-> seq]

(* _send_tx: sign with the committed sequence, broadcast. The node refuses a *)
(* sequence already in its mempool; an answer may be lost.                   *)
Send ==
  /\ run.pc = "send"
  /\ LET tx == TxOf(Min(run.todo)) IN
       \/ /\ \E t \in pending : t.here
          /\ Exit(3)
          /\ UNCHANGED <<pending, left>>
       \/ /\ \A t \in pending : ~ t.here
          /\ pending' = {t \in pending : t.tx # tx} \cup {[here |-> TRUE, tx |-> tx]}
          /\ \/ /\ run' = [pc |-> "wait", mode |-> run.mode, n |-> run.n, plan |-> run.plan,
                             todo |-> run.todo, tx |-> tx]
                /\ UNCHANGED <<exit, left>>
             \/ left.fault > 0 /\ left' = [left EXCEPT !.fault = @ - 1] /\ Exit(3)
  /\ UNCHANGED <<rankVars, amendVars, seq, executed, failed>>

(* The poll finds the transaction in a block, executed or failed, or gives   *)
(* up after 120 s.                                                           *)
PollFound ==
  /\ run.pc = "wait"
  /\ \/ run.tx \in failed /\ Exit(3)
     \/ /\ run.tx \in Range(executed)
        /\ IF run.todo = {run.tx.part} THEN Advance
           ELSE run' = Sending(run.todo \ {run.tx.part}) /\ UNCHANGED exit
  /\ InPayer

PollTimeout ==
  /\ run.pc = "wait"
  /\ run.tx \notin failed \cup Range(executed)
  /\ LET waiting == \E t \in pending : t.tx = run.tx IN
       /\ waiting => left.fault > 0
       /\ left' = [left EXCEPT !.fault = IF waiting THEN @ - 1 ELSE @]
  /\ Exit(3)
  /\ UNCHANGED <<rankVars, amendVars, chainVars>>

Crash ==
  /\ run # Idle /\ left.fault > 0
  /\ Exit(3)
  /\ left' = [left EXCEPT !.fault = @ - 1]
  /\ UNCHANGED <<rankVars, amendVars, chainVars>>

-----------------------------------------------------------------------------
(* The chain                                                                 *)

(* A block executes the next transaction of the account; mempools drop what  *)
(* the new sequence rules out. A failed one uses its sequence up.            *)
Land ==
  /\ LandsInWindow \/ run.pc # "send"
  /\ \E t \in pending, ok \in BOOLEAN :
       /\ t.tx.seq = seq
       /\ ok \/ left.fault > 0
       /\ executed' = IF ok THEN Append(executed, t.tx) ELSE executed
       /\ failed' = IF ok THEN failed ELSE failed \cup {t.tx}
       /\ left' = [left EXCEPT !.fault = IF ok THEN @ ELSE @ - 1]
  /\ seq' = seq + 1
  /\ pending' = {}
  /\ UNCHANGED <<rankVars, amendVars, run, exit>>

(* The node restarts: its mempool is empty, other nodes may keep a copy.     *)
Forget ==
  /\ left.fault > 0
  /\ \E t \in pending :
       /\ t.here
       /\ \E kept \in BOOLEAN :
            pending' = (pending \ {t}) \cup (IF kept THEN {[t EXCEPT !.here = FALSE]} ELSE {})
  /\ left' = [left EXCEPT !.fault = @ - 1]
  /\ UNCHANGED <<rankVars, amendVars, seq, executed, failed, run, exit>>

-----------------------------------------------------------------------------
(* The season's list                                                         *)

Weeks == 0..((Len(published) - 1) \div DaysPerWeek)

PaidAsPlanned(o, plan, amounts) ==
  /\ {t.part : t \in Done(o)} = Parts(amounts)
  /\ \A t \in Done(o) : t.plan = plan /\ t.sends = Sends(amounts, t.part)

(* season_list and _amendments_paid, up to their sum checks.                 *)
ListChecked ==
  /\ CheckDays(published) /\ CheckDoubledFrom(published, Doubled, DoubledFrom)
  /\ \A i, j \in DOMAIN executed :
       i # j => <<executed[i].of, executed[i].part>> # <<executed[j].of, executed[j].part>>
  /\ \A w \in WeeksOnChain : w \in Weeks
  /\ \A w \in Weeks : LET p == WeekPlan(w, published) IN PaidAsPlanned(Week(w), p, p)
  /\ \A t \in Range(executed) : t.of[1] = "amend" => t.of[2] \in Frozen(frozen)
  /\ \A n \in Frozen(frozen) :
       /\ ~ AmendmentRefused(n, frozen, published)
       /\ PaidAsPlanned(Amend(n), frozen[n], AmendmentPayable(frozen[n]))

SumOver(fs, a) == Sum([i \in DOMAIN fs |-> IF a \in DOMAIN fs[i] THEN fs[i][a] ELSE 0])

Sent == [i \in DOMAIN executed |-> executed[i].sends]

Addresses == {c[m].addr : c \in DayFacts, m \in Miners} \ {NoAddress}

Listed ==
  LET weeks  == [w \in Weeks |-> WeekPlan(w, published)]
      amends == [n \in Frozen(frozen) |-> AmendmentPayable(frozen[n])]
  IN  [a \in Addresses |-> SumOver(weeks, a) + SumOver(amends, a)]

-----------------------------------------------------------------------------
Init ==
  /\ published = <<>> /\ ended = FALSE
  /\ drafts = [n \in AmendIds |-> None] /\ frozen = [n \in AmendIds |-> None]
  /\ seq = 0 /\ executed = <<>> /\ failed = {} /\ pending = {}
  /\ run = Idle /\ exit = None
  /\ left = [manual |-> MaxManual, republish |-> MaxRepublished, unfreeze |-> MaxUnfrozen,
             fault |-> MaxFaults]

Payer == PlanNotRanked \/ PlanWeek \/ PlanAmend \/ Search \/ Send \/ PollFound

Next ==
  \/ Publish \/ Republish
  \/ \E n \in AmendIds : PlanAmendment(n) \/ Freeze(n) \/ Unfreeze(n)
  \/ StartDue \/ StartManual
  \/ Payer \/ PollTimeout \/ Crash
  \/ Land \/ Forget

(* The cron starts --due over and over; a started run goes on; the chain     *)
(* makes blocks.                                                             *)
Fairness == WF_vars(StartDue) /\ WF_vars(Payer) /\ WF_vars(PollTimeout) /\ SF_vars(Land)

Spec == Init /\ [][Next]_vars /\ Fairness

-----------------------------------------------------------------------------
(* Properties                                                                *)

(* The shape of the state, and sequence numbers used in their order.         *)
TypeOK ==
  /\ run.pc \in {"idle", "plan", "search", "send", "wait"}
  /\ run.pc \in {"send", "wait"} => run.todo # {} /\ run.todo \subseteq Parts(Amounts)
  /\ Len(executed) + Cardinality(failed) = seq
  /\ \A t \in pending : t.tx.seq = seq
  /\ \A i \in DOMAIN executed :
       executed[i].seq < seq /\ \A j \in 1..(i - 1) : executed[j].seq < executed[i].seq
  /\ \A t \in failed : t.seq < seq /\ \A i \in DOMAIN executed : executed[i].seq # t.seq

Posted(t) == [of |-> t.of, plan |-> t.plan, part |-> t.part]

Ledger == INSTANCE PayoutLedger WITH
  Obligations <- ({"week"} \X Nat) \cup ({"amend"} \X AmendIds),
  PartNumbers <- Nat,
  ledger <- [i \in DOMAIN executed |-> Posted(executed[i])]

(* The chain's payments are a history of the abstract ledger: one plan per   *)
(* week or amendment, no part of it paid twice, whatever crashed, timed out, *)
(* was lost or was republished in between (_decide, paid_parts).             *)
ImplementsLedger == Ledger!Spec

(* The same promise as one state predicate: "a part on chain is never sent   *)
(* again".                                                                   *)
PartPaidOnce ==
  \A i, j \in DOMAIN executed :
    executed[i].of = executed[j].of /\ executed[i].part = executed[j].part => i = j

(* Rows of the chain's amendment payments: each names the document it paid.  *)
PaidRows(n) == UNION {t.plan : t \in {x \in Range(executed) : x.of = Amend(n)}}

(* No row of a day is paid by two amendments, whatever order they are        *)
(* planned, frozen, lost from the image and paid in (amendment_refusal,      *)
(* amendment_chain_refusal).                                                 *)
RowPaidOnce ==
  \A i, j \in AmendIds : i # j =>
    \A r \in PaidRows(i), s \in PaidRows(j) : <<r.day, r.miner>> # <<s.day, s.miner>>

(* The payer accepts every ranking the service computes: compute_day and     *)
(* check_days agree on the figures, the budgets and the rule sets.           *)
RankingsAccepted == ~ DaysRefused

(* When every part is on chain as planned, the list equals what was sent,    *)
(* address by address: season_list's docstring says no input reaches its     *)
(* sum checks.                                                               *)
ListIsWhatWasSent ==
  ended /\ ListChecked =>
    /\ Listed = [a \in Addresses |-> SumOver(Sent, a)]
    /\ PaidBefore(published, Len(published)) =
         Sum([w \in Weeks |-> Sum(WeekPlan(w, published)) + Sum(SetAside(w, published))])

(* --due exits 0 only if every payable week before the one it stopped at is  *)
(* on chain in full: a silent cron means nothing is owed.                    *)
DueExitTruthful ==
  exit # None /\ exit.rc = 0 /\ left.republish = MaxRepublished =>
    \A w \in 0..(exit.n - 1) : LET p == WeekPlan(w, published) IN PaidAsPlanned(Week(w), p, p)

(* What the payer accepts, pays, lists and reports agrees with the rankings  *)
(* and with the chain: every ranking of the service is accepted, no row is   *)
(* paid by two amendments, the list is what was sent, and --due exits 0 only *)
(* when nothing is owed (final_season_payout.py).                            *)
PayoutSound == TypeOK /\ RowPaidOnce /\ RankingsAccepted /\ ListIsWhatWasSent /\ DueExitTruthful

(* A week whose days are all published is paid in full, if what was          *)
(* published is never changed: crashes, lost answers, failed and forgotten   *)
(* transactions only delay it.                                               *)
DuePaid ==
  \A w \in 0..(MaxDays \div DaysPerWeek) - 1 :
    Len(published) >= (w + 1) * DaysPerWeek ~>
      \/ left.republish < MaxRepublished
      \/ Parts(WeekPlan(w, published)) \subseteq {t.part : t \in Done(Week(w))}

(* A season whose ranked payments plus every amendment pass cap_season is    *)
(* refused (the payer's header): the amendments on chain and what the        *)
(* rankings pay stay within the cap together.                                *)
WithinSeasonCap ==
  published # <<>> =>
    PaidBefore(published, Len(published))
      + Sum([i \in DOMAIN executed |->
               IF executed[i].of[1] = "amend" THEN Sum(executed[i].sends) ELSE 0])
      <= RuleSets[Last(published).set].capSeason
=============================================================================

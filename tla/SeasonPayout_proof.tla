-------------------------- MODULE SeasonPayout_proof --------------------------
(***************************************************************************)
(* The weekly payments implement PayoutLedger for any rule sets, rankings, *)
(* republications, amendments, crashes and lost or late transactions, as   *)
(* long as no block comes between a run's search of the chain and the      *)
(* signature that follows it (LandsInWindow).                              *)
(*                                                                         *)
(* The argument follows the sequence number: whatever a mempool holds was  *)
(* signed after the last block, for a part no block held then; and the     *)
(* parts a run has left to send are still unpaid, unless the transaction   *)
(* it waits for lost its place to an older one.                            *)
(*                                                                         *)
(* Then what the payer says is true: a silent cron owes nothing, every     *)
(* ranking of the service is accepted, and the season's list is what the   *)
(* chain sent, address by address, and what the rankings paid.             *)
(***************************************************************************)
EXTENDS SeasonPayout, Sums_proof, SequenceTheorems

-----------------------------------------------------------------------------
(* Sequences whose elements have no common type.                            *)
IsSeq(s) == s \in Seq(Range(s))

(* Appending to one.                                                        *)
LEMMA AppendOK ==
  ASSUME NEW s, IsSeq(s), NEW x
  PROVE  /\ IsSeq(Append(s, x)) /\ Len(s) \in Nat /\ DOMAIN s = 1..Len(s)
         /\ Len(Append(s, x)) = Len(s) + 1
         /\ DOMAIN Append(s, x) = 1..(Len(s) + 1)
         /\ \A i \in 1..Len(s) : Append(s, x)[i] = s[i]
         /\ Append(s, x)[Len(s) + 1] = x
<1> DEFINE T == Range(s) \cup {x}
           a == Append(s, x)
<1>1. s \in Seq(T) /\ x \in T
  BY DEF IsSeq
<1> HIDE DEF T
<1>2. /\ Len(s) \in Nat /\ DOMAIN s = 1..Len(s)
      /\ a \in Seq(T) /\ Len(a) = Len(s) + 1 /\ DOMAIN a = 1..(Len(s) + 1)
      /\ \A i \in 1..Len(s) : a[i] = s[i]
      /\ a[Len(s) + 1] = x
  BY <1>1
<1> HIDE DEF a
<1>3. a \in Seq(Range(a))
  BY <1>2 DEF Range
<1> QED BY <1>2, <1>3 DEF IsSeq, a

(* A sequence is built from its elements.                                   *)
LEMMA FunctionIsAppend ==
  ASSUME NEW S, NEW n \in Nat, NEW f \in [1..(n + 1) -> S]
  PROVE  f = Append([i \in 1..n |-> f[i]], f[n + 1])
<1> DEFINE g == [i \in 1..n |-> f[i]]
<1>1. g \in Seq(S) /\ Len(g) = n /\ f[n + 1] \in S
  OBVIOUS
<1>2. f \in Seq(S) /\ Len(f) = n + 1
  OBVIOUS
<1>3. \A i \in 1..n : g[i] = f[i]
  OBVIOUS
<1> HIDE DEF g
<1> QED BY <1>1, <1>2, <1>3

(* A nonempty set of naturals has a least element.                          *)
LEMMA LeastElement ==
  ASSUME NEW T, T \subseteq Nat, T # {}
  PROVE  Min(T) \in T /\ \A y \in T : Min(T) <= y
<1> DEFINE upto(n) == 0..n
           F == FiniteSubsetsOf(Nat)
           U == {V \in F : \E n \in T : V = upto(n)}
<1>1. \A n \in Nat : upto(n) \in F
  BY FS_Interval DEF FiniteSubsetsOf
<1>2. U \subseteq F /\ U # {}
  BY <1>1
<1>3. PICK V \in U : \A W \in U : ~(<<W, V>> \in StrictSubsetOrdering(Nat))
  <2> HIDE DEF U, F
  <2> QED BY <1>2, FS_StrictSubsetOrderingWellFounded, WFMin DEF F
<1>4. PICK x \in T : V = upto(x)
  OBVIOUS
<1>5. ASSUME NEW y \in T, y < x PROVE FALSE
  <2>1. upto(y) \in U /\ upto(y) \subseteq V /\ upto(y) # V /\ upto(y) \subseteq Nat /\ V \subseteq Nat
    BY <1>1, <1>4, <1>5
  <2> QED BY <2>1, <1>3 DEF StrictSubsetOrdering
<1>6. \A y \in T : x <= y
  BY <1>5
<1> QED BY <1>6 DEF Min

(* The image of a finite set is finite.                                     *)
LEMMA ImageFinite ==
  ASSUME NEW S, IsFiniteSet(S), NEW f
  PROVE  IsFiniteSet({f[x] : x \in S})
<1> DEFINE g == [x \in S |-> f[x]]
           T == {f[x] : x \in S}
<1>1. g \in Surjection(S, T)
  BY DEF Surjection
<1> QED BY <1>1, FS_Surjection

(* The parts of a finite plan are numbers.                                  *)
LEMMA PartsNat ==
  ASSUME NEW plan, IsFiniteSet(DOMAIN plan)
  PROVE  Parts(plan) \subseteq Nat
<1> SUFFICES ASSUME NEW a \in DOMAIN plan
             PROVE  PartOf(plan, a) \in Nat
  BY DEF Parts
<1> DEFINE before == {b \in DOMAIN plan : b < a}
<1>1. PICK c \in Nat : c = Cardinality(before)
  BY FS_Subset, FS_CardinalityType
<1>2. PICK b \in Nat \ {0} : b = Batch
  BY PayoutAssumption
<1>3. c \div b \in Nat
  OBVIOUS
<1> QED BY <1>1, <1>2, <1>3 DEF PartOf

(* What a week pays goes to finitely many addresses.                        *)
LEMMA WeekPlanFinite ==
  ASSUME NEW w \in Nat, IsSeq(published)
  PROVE  IsFiniteSet(DOMAIN WeekPlan(w, published))
<1> DEFINE days == DaysOfWeek(w, published)
<1>1. Len(days) \in Nat
  <2> DEFINE m == w * DaysPerWeek + 1
             n == Least(Len(published), (w + 1) * DaysPerWeek)
             S == {published[i] : i \in m..n}
  <2>1. Len(published) \in Nat
    BY AppendOK
  <2>2. m \in Int /\ n \in Int
    BY <2>1, PayoutAssumption DEF Least
  <2> HIDE DEF m, n
  <2>3. \A i \in m..n : published[i] \in S
    OBVIOUS
  <2> HIDE DEF S
  <2>4. SubSeq(published, m, n) \in Seq(S)
    BY <2>2, <2>3, SubSeqProperties
  <2>5. Len(SubSeq(published, m, n)) \in Nat
    BY <2>4
  <2> QED BY <2>5 DEF DaysOfWeek, m, n
<1> HIDE DEF days
<1> DEFINE S == (1..Len(days)) \X Miners
           f == [x \in S |-> days[x[1]].facts[x[2]].addr]
<1>2. IsFiniteSet(S)
  <2>1. IsFiniteSet(1..Len(days))
    BY <1>1, FS_Interval
  <2> QED BY <2>1, FS_Product, PayoutAssumption
<1>3. IsFiniteSet({f[x] : x \in S})
  <2> HIDE DEF f, S
  <2> QED BY <1>2, ImageFinite
<1>4. DOMAIN WeekTotals(days) \subseteq {f[x] : x \in S}
  <2> SUFFICES ASSUME NEW a \in DOMAIN WeekTotals(days)
               PROVE  a \in {f[x] : x \in S}
    OBVIOUS
  <2>3. DOMAIN WeekTotals(days) = Earners(days)
    BY DEF WeekTotals
  <2>1. PICK n \in 1..Len(days), m \in Miners : a = days[n].facts[m].addr
    BY <2>3 DEF Earners
  <2>2. <<n, m>> \in S /\ f[<<n, m>>] = a
    BY <2>1
  <2> HIDE DEF f, S
  <2> QED BY <2>2
<1>5. IsFiniteSet(DOMAIN WeekTotals(days) \ Unpayable)
  <2> HIDE DEF f, S
  <2>1. (DOMAIN WeekTotals(days) \ Unpayable) \in SUBSET {f[x] : x \in S}
    BY <1>4
  <2> QED BY <1>3, <2>1, FS_Subset
<1>6. DOMAIN WeekPlan(w, published) = DOMAIN WeekTotals(days) \ Unpayable
  BY DEF WeekPlan, Restrict, days
<1> QED BY <1>5, <1>6

(* What an amendment pays does too.                                         *)
LEMMA AmendmentFinite ==
  ASSUME NEW doc, IsFiniteSet(doc)
  PROVE  IsFiniteSet(DOMAIN AmendmentPayable(doc))
<1> DEFINE f == [r \in doc |-> r.addr]
<1>1. IsFiniteSet({f[r] : r \in doc})
  BY ImageFinite
<1>2. DOMAIN AmendmentPayable(doc) = {f[r] : r \in doc}
  BY DEF AmendmentPayable
<1> QED BY <1>1, <1>2

-----------------------------------------------------------------------------
(* The inductive invariant                                                  *)

Obligations == ({"week"} \X Nat) \cup ({"amend"} \X AmendIds)

SequencesOK == IsSeq(published) /\ IsSeq(executed) /\ seq \in Nat

(* Documents list finitely many rows.                                       *)
DocumentsOK ==
  /\ DOMAIN drafts = AmendIds /\ DOMAIN frozen = AmendIds
  /\ \A n \in AmendIds : drafts[n] # None => IsFiniteSet(drafts[n])
  /\ \A n \in AmendIds : frozen[n] # None => IsFiniteSet(frozen[n])

(* The obligation the run is at, and the parts of its plan.                 *)
RunOK ==
  /\ run.pc \in {"idle", "plan", "search", "send", "wait"}
  /\ run.pc # "idle" => /\ run.mode \in {"due", "week", "amend"}
                        /\ run.n \in (IF run.mode = "amend" THEN AmendIds ELSE Nat)
  /\ run.pc \in {"search", "send", "wait"} => Parts(Amounts) \subseteq Nat
  /\ run.pc \in {"send", "wait"} => run.todo # {} /\ run.todo \subseteq Parts(Amounts)

(* No block holds the part, nor the obligation under another plan.          *)
Fresh(o, plan, part) ==
  \A i \in 1..Len(executed) :
    executed[i].of = o => executed[i].plan = plan /\ executed[i].part # part

ExecutedOK ==
  \A i \in 1..Len(executed) : executed[i].seq \in Nat /\ executed[i].seq < seq

(* Whatever a mempool holds was signed after the last block.                *)
PendingOK ==
  \A t \in pending :
    /\ t.tx.seq = seq /\ t.tx.of \in Obligations /\ t.tx.part \in Nat
    /\ Fresh(t.tx.of, t.tx.plan, t.tx.part)

(* What the run has left to send is unpaid; once a block came, that holds   *)
(* of the other parts if its own transaction is the one the block took.     *)
SendOK == run.pc = "send" => \A p \in run.todo : Fresh(Obligation, run.plan, p)

WaitOK ==
  run.pc = "wait" =>
    /\ run.tx.of = Obligation /\ run.tx.plan = run.plan /\ run.tx.part \in run.todo
    /\ run.tx.seq \in Nat /\ run.tx.seq <= seq
    /\ run.tx.seq = seq => \A p \in run.todo : Fresh(Obligation, run.plan, p)
    /\ run.tx.seq < seq =>
         /\ pending = {}
         /\ run.tx \in Range(executed) =>
              \A p \in run.todo \ {run.tx.part} : Fresh(Obligation, run.plan, p)

(* No part is paid twice, no obligation under two plans.                    *)
PaidOnceEach ==
  \A i, j \in 1..Len(executed) :
    i < j /\ executed[i].of = executed[j].of =>
      executed[i].plan = executed[j].plan /\ executed[i].part # executed[j].part

IInv ==
  /\ SequencesOK /\ DocumentsOK /\ RunOK /\ ExecutedOK /\ PendingOK /\ SendOK /\ WaitOK
  /\ PaidOnceEach

-----------------------------------------------------------------------------
(* Steps that leave the chain alone                                         *)

ChainAlone == UNCHANGED <<seq, executed, pending>>

LEMMA ExecutedDomain ==
  ASSUME IsSeq(executed)
  PROVE  Len(executed) \in Nat /\ DOMAIN executed = 1..Len(executed)
BY AppendOK

(* A run that stops, or looks at its next week, owes nothing.               *)
LEMMA ChainKept ==
  ASSUME IInv, ChainAlone, SequencesOK', DocumentsOK', RunOK', SendOK', WaitOK'
  PROVE  IInv'
<1>1. ExecutedOK'
  BY DEF IInv, ExecutedOK, ChainAlone
<1>2. PendingOK'
  BY DEF IInv, PendingOK, ChainAlone, Fresh
<1>3. PaidOnceEach'
  BY DEF IInv, PaidOnceEach, ChainAlone
<1> QED BY <1>1, <1>2, <1>3 DEF IInv

LEMMA RunKept ==
  ASSUME IInv, ChainAlone, UNCHANGED run, SequencesOK', DocumentsOK'
  PROVE  IInv'
<1>1. RunOK'
  BY DEF IInv, RunOK, Amounts
<1>2. SendOK'
  BY DEF IInv, SendOK, Fresh, Obligation, ChainAlone
<1>3. WaitOK'
  BY DEF IInv, WaitOK, Fresh, Obligation, ChainAlone
<1> QED BY <1>1, <1>2, <1>3, ChainKept

LEMMA RunEnds ==
  ASSUME IInv, ChainAlone, run' = Idle, SequencesOK', DocumentsOK'
  PROVE  IInv'
<1>1. run'.pc = "idle"
  BY DEF Idle
<1> QED BY <1>1, ChainKept DEF RunOK, SendOK, WaitOK

LEMMA Unmoved ==
  ASSUME IInv, UNCHANGED <<published, amendVars, chainVars>>
  PROVE  ChainAlone /\ SequencesOK' /\ DocumentsOK'
BY DEF IInv, SequencesOK, DocumentsOK, amendVars, chainVars, ChainAlone, IsSeq

(* The documents and the chain stay, the run is started or goes on to plan. *)
LEMMA RunPlans ==
  ASSUME IInv, ChainAlone, SequencesOK', DocumentsOK',
         NEW mode \in {"due", "week", "amend"},
         NEW n \in (IF mode = "amend" THEN AmendIds ELSE Nat),
         run' = [pc |-> "plan", mode |-> mode, n |-> n]
  PROVE  IInv'
<1>1. run'.pc = "plan" /\ run'.mode = mode /\ run'.n = n
  OBVIOUS
<1>2. RunOK'
  BY <1>1 DEF RunOK
<1> QED BY <1>1, <1>2, ChainKept DEF SendOK, WaitOK

-----------------------------------------------------------------------------
(* The service and the amendments                                           *)

LEMMA PublishStep ==
  ASSUME IInv, Publish
  PROVE  IInv'
<1>1. PICK x : published' = Append(published, x)
  BY DEF Publish
<1>2. IsSeq(published')
  BY <1>1, AppendOK DEF IInv, SequencesOK
<1>3. ChainAlone /\ SequencesOK' /\ DocumentsOK' /\ UNCHANGED run
  BY <1>2 DEF Publish, IInv, SequencesOK, DocumentsOK, amendVars, chainVars, ChainAlone, IsSeq
<1> QED BY <1>3, RunKept

(* Days the service takes back, and perhaps ranks again.                    *)
LEMMA RepublishedSeq ==
  ASSUME IsSeq(published), Republish
  PROVE  IsSeq(published')
<1>0. Len(published) \in Nat
  BY AppendOK
<1>1. PICK n \in 1..Len(published) :
        \/ published' = SubSeq(published, 1, n - 1)
        \/ \E x : published' = Append(SubSeq(published, 1, n - 1), x)
  BY DEF Republish
<1> DEFINE s == SubSeq(published, 1, n - 1)
<1>2. IsSeq(s)
  <2> DEFINE S == {published[i] : i \in 1..(n - 1)}
  <2>1. s \in Seq(S)
    <3>1. \A i \in 1..(n - 1) : published[i] \in S
      OBVIOUS
    <3>2. n - 1 \in Int
      BY <1>0
    <3> HIDE DEF S
    <3> QED BY <3>1, <3>2, SubSeqProperties
  <2> HIDE DEF s, S
  <2>2. \A i \in 1..Len(s) : s[i] \in Range(s)
    BY <2>1 DEF Range
  <2> QED BY <2>1, <2>2 DEF IsSeq
<1> HIDE DEF s
<1>3. published' = s \/ \E x : published' = Append(s, x)
  BY <1>1 DEF s
<1>4. \A x : IsSeq(Append(s, x))
  BY <1>2, AppendOK
<1> QED BY <1>2, <1>3, <1>4

LEMMA RepublishStep ==
  ASSUME IInv, Republish
  PROVE  IInv'
<1>1. IsSeq(published')
  BY RepublishedSeq DEF IInv, SequencesOK
<1>2. ChainAlone /\ SequencesOK' /\ DocumentsOK' /\ UNCHANGED run
  BY <1>1 DEF Republish, IInv, SequencesOK, DocumentsOK, amendVars, chainVars, ChainAlone, IsSeq
<1> QED BY <1>2, RunKept

(* A document is taken from the rows of the published days.                 *)
LEMMA UnprovenFinite ==
  ASSUME IsSeq(published), NEW wanted \in SUBSET (1..Len(published)),
         NEW proven \in SUBSET Unproven(wanted)
  PROVE  IsFiniteSet(proven)
<1> DEFINE S == (1..Len(published)) \X Miners
           f == [x \in S |-> RowOf(x[1], x[2])]
           T == {f[x] : x \in S}
<1>1. IsFiniteSet(S)
  <2>1. IsFiniteSet(1..Len(published))
    BY AppendOK, FS_Interval
  <2> QED BY <2>1, FS_Product, PayoutAssumption
<1>2. IsFiniteSet(T)
  <2> HIDE DEF f, S
  <2> QED BY <1>1, ImageFinite
<1>3. ASSUME NEW r \in proven PROVE r \in T
  <2>1. PICK d \in wanted : \E m \in Miners : r = RowOf(d, m)
    BY <1>3 DEF Unproven
  <2>0. PICK m \in Miners : r = RowOf(d, m)
    BY <2>1
  <2>2. <<d, m>> \in S /\ f[<<d, m>>] = r
    BY <2>0
  <2> HIDE DEF f, S
  <2> QED BY <2>2
<1> HIDE DEF T
<1> QED BY <1>2, <1>3, FS_Subset

LEMMA AmendmentStep ==
  ASSUME IInv, NEW n \in AmendIds, PlanAmendment(n) \/ Freeze(n) \/ Unfreeze(n)
  PROVE  IInv'
<1>1. ChainAlone /\ SequencesOK' /\ UNCHANGED run
  BY DEF PlanAmendment, Freeze, Unfreeze, IInv, SequencesOK, rankVars, chainVars, ChainAlone, IsSeq
<1>2. DocumentsOK'
  <2>0. DocumentsOK
    BY DEF IInv
  <2>1. CASE PlanAmendment(n)
    <3>1. PICK wanted \in SUBSET (1..Len(published)) :
            \E proven \in SUBSET Unproven(wanted) : drafts' = [drafts EXCEPT ![n] = proven]
      BY <2>1 DEF PlanAmendment
    <3>2. PICK proven \in SUBSET Unproven(wanted) : drafts' = [drafts EXCEPT ![n] = proven]
      BY <3>1
    <3>4. IsFiniteSet(proven)
      BY UnprovenFinite DEF IInv, SequencesOK
    <3>3. UNCHANGED frozen
      BY <2>1 DEF PlanAmendment
    <3> QED BY <2>0, <3>2, <3>3, <3>4 DEF DocumentsOK
  <2>2. CASE Freeze(n)
    BY <2>0, <2>2 DEF Freeze, DocumentsOK
  <2>3. CASE Unfreeze(n)
    BY <2>0, <2>3 DEF Unfreeze, DocumentsOK
  <2> QED BY <2>1, <2>2, <2>3
<1> QED BY <1>1, <1>2, RunKept

-----------------------------------------------------------------------------
(* The payer's run                                                          *)

(* Ending a run changes nothing that the invariant speaks of.               *)
LEMMA ExitStep ==
  ASSUME IInv, NEW rc, Exit(rc), UNCHANGED <<published, amendVars, chainVars>>
  PROVE  IInv'
BY Unmoved, RunEnds DEF Exit

LEMMA StartStep ==
  ASSUME IInv, StartDue \/ StartManual
  PROVE  IInv'
<1>1. UNCHANGED <<published, amendVars, chainVars>>
  BY DEF StartDue, StartManual, rankVars
<1>2. CASE StartDue
  BY <1>1, <1>2, Unmoved, RunPlans DEF StartDue, Start
<1>3. CASE StartManual
  <2>1. CASE \E w \in 0..MaxDays - 1 : Start("week", w)
    <3>1. PICK w \in Nat : Start("week", w)
      BY <2>1, PayoutAssumption
    <3> QED BY <1>1, <3>1, Unmoved, RunPlans DEF Start
  <2>2. CASE \E n \in AmendIds : Start("amend", n)
    <3>1. PICK n \in AmendIds : Start("amend", n)
      BY <2>2
    <3> QED BY <1>1, <3>1, Unmoved, RunPlans DEF Start
  <2> QED BY <1>3, <2>1, <2>2 DEF StartManual
<1> QED BY <1>2, <1>3

(* What a run searches for has numbered parts.                              *)
LEMMA SearchingStep ==
  ASSUME IInv, NEW plan, Searching(plan), UNCHANGED <<published, amendVars, chainVars>>,
         run.pc = "plan",
         IsFiniteSet(IF run.mode = "amend" THEN plan ELSE DOMAIN plan)
  PROVE  IInv'
<1>1. run'.pc = "search" /\ run'.mode = run.mode /\ run'.n = run.n /\ run'.plan = plan
  BY DEF Searching
<1>2. Parts(Amounts') \subseteq Nat
  <2>1. CASE run.mode = "amend"
    <3>1. IsFiniteSet(DOMAIN AmendmentPayable(plan))
      BY <2>1, AmendmentFinite
    <3>2. Parts(AmendmentPayable(plan)) \subseteq Nat
      BY <3>1, PartsNat
    <3> QED BY <1>1, <2>1, <3>2 DEF Amounts
  <2>2. CASE run.mode # "amend"
    <3>1. Parts(plan) \subseteq Nat
      BY <2>2, PartsNat
    <3> QED BY <1>1, <2>2, <3>1 DEF Amounts
  <2> QED BY <2>1, <2>2
<1>3. RunOK'
  <2>1. Parts(Amounts)' = Parts(Amounts')
    BY DEF Parts, PartOf
  <2> QED BY <1>1, <1>2, <2>1 DEF IInv, RunOK
<1>4. SendOK' /\ WaitOK'
  BY <1>1 DEF SendOK, WaitOK
<1> QED BY <1>3, <1>4, Unmoved, ChainKept

LEMMA PlanStep ==
  ASSUME IInv, PlanNotRanked \/ PlanWeek \/ PlanAmend
  PROVE  IInv'
<1>1. UNCHANGED <<published, amendVars, chainVars>>
  BY DEF PlanNotRanked, PlanWeek, PlanAmend, InPayer, rankVars
<1>2. CASE \E rc \in {0, 1, 3} : Exit(rc)
  BY <1>1, <1>2, ExitStep
<1>3. CASE run.pc = "plan" /\ run.mode # "amend" /\ Searching(WeekPlan(run.n, published))
  <2>1. run.n \in Nat
    BY <1>3 DEF IInv, RunOK
  <2>2. IsFiniteSet(DOMAIN WeekPlan(run.n, published))
    BY <2>1, WeekPlanFinite DEF IInv, SequencesOK
  <2> QED BY <1>1, <1>3, <2>2, SearchingStep
<1>4. CASE run.pc = "plan" /\ run.mode = "amend" /\ frozen[run.n] # None /\ Searching(frozen[run.n])
  <2>1. run.n \in AmendIds
    BY <1>4 DEF IInv, RunOK
  <2>2. IsFiniteSet(frozen[run.n])
    BY <1>4, <2>1 DEF IInv, DocumentsOK
  <2> QED BY <1>1, <1>4, <2>2, SearchingStep
<1>5. CASE PlanNotRanked
  BY <1>5, <1>2 DEF PlanNotRanked
<1>6. CASE PlanWeek
  BY <1>6, <1>2, <1>3 DEF PlanWeek
<1>7. CASE PlanAmend
  BY <1>7, <1>2, <1>4 DEF PlanAmend
<1> QED BY <1>5, <1>6, <1>7

(* The walk goes on to the next week, or ends.                              *)
LEMMA AdvanceStep ==
  ASSUME IInv, Advance, run.pc # "idle", UNCHANGED <<published, amendVars, chainVars>>
  PROVE  IInv'
<1>1. CASE run.mode = "due"
  <2>1. run.n + 1 \in Nat
    BY <1>1 DEF IInv, RunOK
  <2>2. run' = [pc |-> "plan", mode |-> "due", n |-> run.n + 1]
    BY <1>1 DEF Advance
  <2> QED BY <2>1, <2>2, Unmoved, RunPlans
<1>2. CASE run.mode # "due"
  BY <1>2, ExitStep DEF Advance
<1> QED BY <1>1, <1>2

(* The run goes on sending, parts that no block holds.                      *)
LEMMA SendingStep ==
  ASSUME IInv, run.pc \in {"search", "send", "wait"},
         NEW todo, todo # {}, todo \subseteq Parts(Amounts),
         \A p \in todo : Fresh(Obligation, run.plan, p),
         run' = Sending(todo), UNCHANGED <<published, amendVars, chainVars>>
  PROVE  IInv'
<1>1. /\ run'.pc = "send" /\ run'.mode = run.mode /\ run'.n = run.n /\ run'.plan = run.plan
      /\ run'.todo = todo
  BY DEF Sending
<1>2. Amounts' = Amounts /\ Obligation' = Obligation
  BY <1>1 DEF Amounts, Obligation, Amend, Week
<1>3. Parts(Amounts)' = Parts(Amounts)
  BY <1>2 DEF Parts, PartOf
<1>4. RunOK'
  BY <1>1, <1>3 DEF IInv, RunOK
<1>5. SendOK'
  <2>1. executed' = executed
    BY DEF chainVars
  <2> QED BY <1>1, <1>2, <2>1 DEF SendOK, Fresh
<1>6. WaitOK'
  BY <1>1 DEF WaitOK
<1> QED BY <1>4, <1>5, <1>6, Unmoved, ChainKept

LEMMA SearchStep ==
  ASSUME IInv, Search
  PROVE  IInv'
<1> DEFINE v == Decide(Obligation, run.plan, Amounts)
<1>1. run.pc = "search" /\ UNCHANGED <<published, amendVars, chainVars>>
  BY DEF Search, InPayer, rankVars
<1>2. \/ Exit(3)
      \/ Advance
      \/ ~ v.stop /\ v.todo # {} /\ run' = Sending(v.todo)
  BY DEF Search
<1>3. ASSUME ~ v.stop /\ v.todo # {} /\ run' = Sending(v.todo)
      PROVE  IInv'
  <2>1. v.todo \subseteq Parts(Amounts)
    BY DEF Decide
  <2>2. ASSUME NEW p \in v.todo, NEW i \in 1..Len(executed), executed[i].of = Obligation
        PROVE  executed[i].plan = run.plan /\ executed[i].part # p
    <3>1. executed[i] \in Done(Obligation)
      BY <2>2, ExecutedDomain DEF Done, Range, IInv, SequencesOK
    <3>2. ~ \E t \in Done(Obligation) : t.plan # run.plan
      BY <1>3 DEF Decide
    <3>3. p \notin {t.part : t \in Done(Obligation)}
      BY <2>2 DEF Decide
    <3> QED BY <3>1, <3>2, <3>3
  <2>3. \A p \in v.todo : Fresh(Obligation, run.plan, p)
    BY <2>2 DEF Fresh
  <2> HIDE DEF v
  <2> QED BY <1>1, <1>3, <2>1, <2>3, SendingStep
<1> HIDE DEF v
<1> QED BY <1>1, <1>2, <1>3, ExitStep, AdvanceStep

(* A transaction is signed for a part no block holds.                       *)
LEMMA SendStep ==
  ASSUME IInv, Send
  PROVE  IInv'
<1> DEFINE tx == TxOf(Min(run.todo))
<1>1. /\ run.pc = "send"
      /\ UNCHANGED <<published, drafts, frozen, seq, executed>>
  BY DEF Send, rankVars, amendVars
<1>2. SequencesOK' /\ DocumentsOK' /\ ExecutedOK' /\ PaidOnceEach'
  BY <1>1 DEF IInv, SequencesOK, DocumentsOK, ExecutedOK, PaidOnceEach, IsSeq
<1>3. Min(run.todo) \in run.todo /\ Min(run.todo) \in Nat
  BY <1>1, LeastElement DEF IInv, RunOK
<1>4. tx.of = Obligation /\ tx.plan = run.plan /\ tx.part = Min(run.todo) /\ tx.seq = seq
  BY DEF TxOf
<1>5. Obligation \in Obligations
  BY <1>1 DEF IInv, RunOK, Obligation, Obligations, Week, Amend
<1>6. \A p \in run.todo : Fresh(Obligation, run.plan, p)
  BY <1>1 DEF IInv, SendOK
<1>7. CASE UNCHANGED pending /\ Exit(3)
  <2>1. ChainAlone
    BY <1>1, <1>7 DEF ChainAlone
  <2> QED BY <1>2, <1>7, <2>1, RunEnds DEF Exit
<1> HIDE DEF tx
<1>8. CASE pending' = {t \in pending : t.tx # tx} \cup {[here |-> TRUE, tx |-> tx]}
  <2>1. PendingOK'
    <3> SUFFICES ASSUME NEW t \in pending'
                 PROVE  /\ t.tx.seq = seq /\ t.tx.of \in Obligations /\ t.tx.part \in Nat
                        /\ Fresh(t.tx.of, t.tx.plan, t.tx.part)
      BY <1>1 DEF PendingOK, Fresh
    <3>1. CASE t \in pending
      BY <3>1 DEF IInv, PendingOK
    <3>2. CASE t.tx = tx
      BY <1>3, <1>4, <1>5, <1>6, <3>2
    <3> QED BY <1>8, <3>1, <3>2
  <2>2. CASE run' = [pc |-> "wait", mode |-> run.mode, n |-> run.n, plan |-> run.plan,
                     todo |-> run.todo, tx |-> tx]
    <3>1. /\ run'.pc = "wait" /\ run'.mode = run.mode /\ run'.n = run.n
          /\ run'.plan = run.plan /\ run'.todo = run.todo /\ run'.tx = tx
      BY <2>2
    <3>2. Amounts' = Amounts /\ Obligation' = Obligation
      BY <3>1 DEF Amounts, Obligation, Amend, Week
    <3>3. RunOK'
      BY <1>1, <3>1, <3>2 DEF IInv, RunOK, Parts, PartOf
    <3>4. WaitOK'
      BY <1>1, <1>3, <1>4, <1>6, <3>1, <3>2 DEF WaitOK, Fresh, IInv, SequencesOK
    <3>5. SendOK'
      BY <3>1 DEF SendOK
    <3> QED BY <1>2, <2>1, <3>3, <3>4, <3>5 DEF IInv
  <2>3. CASE Exit(3)
    <3>1. run'.pc = "idle"
      BY <2>3 DEF Exit, Idle
    <3> QED BY <1>2, <2>1, <3>1 DEF IInv, RunOK, SendOK, WaitOK
  <2> QED BY <2>2, <2>3 DEF Send, tx
<1> QED BY <1>7, <1>8 DEF Send, tx

(* The transaction found in a block: the parts left are still unpaid.       *)
LEMMA PollStep ==
  ASSUME IInv, PollFound \/ PollTimeout \/ Crash
  PROVE  IInv'
<1>1. UNCHANGED <<published, amendVars, chainVars>>
  BY DEF PollFound, PollTimeout, Crash, InPayer, rankVars
<1>2. CASE Exit(3)
  BY <1>1, <1>2, ExitStep
<1>3. CASE run.pc = "wait" /\ run.tx \in Range(executed) /\ Advance
  BY <1>1, <1>3, AdvanceStep
<1>4. CASE /\ run.pc = "wait" /\ run.tx \in Range(executed) /\ run.todo # {run.tx.part}
           /\ run' = Sending(run.todo \ {run.tx.part})
  <2>1. PICK i \in 1..Len(executed) : executed[i] = run.tx
    BY <1>4, ExecutedDomain DEF Range, IInv, SequencesOK
  <2>2. run.tx.seq < seq
    BY <2>1 DEF IInv, ExecutedOK
  <2>3. \A p \in run.todo \ {run.tx.part} : Fresh(Obligation, run.plan, p)
    BY <1>4, <2>2 DEF IInv, WaitOK
  <2>4. run.todo \ {run.tx.part} # {} /\ run.todo \ {run.tx.part} \subseteq Parts(Amounts)
    BY <1>4 DEF IInv, RunOK, WaitOK
  <2> QED BY <1>1, <1>4, <2>3, <2>4, SendingStep
<1>5. CASE PollFound
  BY <1>2, <1>3, <1>4, <1>5 DEF PollFound
<1>6. CASE PollTimeout \/ Crash
  BY <1>2, <1>6 DEF PollTimeout, Crash
<1> QED BY <1>5, <1>6

-----------------------------------------------------------------------------
(* The chain                                                                *)

LEMMA ForgetStep ==
  ASSUME IInv, Forget
  PROVE  IInv'
<1>1. UNCHANGED <<published, drafts, frozen, seq, executed, run>>
  BY DEF Forget, rankVars, amendVars
<1>2. PICK s :
        /\ \E t \in pending : s.tx = t.tx
        /\ pending' \subseteq pending \cup {s}
  <2>1. PICK t \in pending, kept \in BOOLEAN :
          pending' = (pending \ {t}) \cup (IF kept THEN {[t EXCEPT !.here = FALSE]} ELSE {})
    BY DEF Forget
  <2>2. [t EXCEPT !.here = FALSE].tx = t.tx
    OBVIOUS
  <2> QED BY <2>1, <2>2
<1>3. /\ SequencesOK' /\ DocumentsOK' /\ ExecutedOK' /\ PaidOnceEach'
      /\ RunOK' /\ SendOK'
  <2>1. SequencesOK' /\ DocumentsOK'
    BY <1>1 DEF IInv, SequencesOK, DocumentsOK, IsSeq
  <2>2. ExecutedOK' /\ PaidOnceEach'
    BY <1>1 DEF IInv, ExecutedOK, PaidOnceEach
  <2>3. Amounts' = Amounts /\ Obligation' = Obligation
    BY <1>1 DEF Amounts, Obligation, Amend, Week
  <2>4. RunOK'
    BY <1>1, <2>3 DEF IInv, RunOK, Parts, PartOf
  <2>5. SendOK'
    BY <1>1, <2>3 DEF IInv, SendOK, Fresh
  <2> QED BY <2>1, <2>2, <2>4, <2>5
<1>4. PendingOK'
  BY <1>1, <1>2 DEF IInv, PendingOK, Fresh
<1>5. WaitOK'
  BY <1>1, <1>2 DEF IInv, WaitOK, Obligation, Fresh
<1> QED BY <1>3, <1>4, <1>5 DEF IInv

(* A block appends the transaction to the chain, or spends its sequence.    *)
LEMMA LandExecutes ==
  ASSUME IInv, Land
  PROVE  \E t \in pending :
           \/ executed' = executed
           \/ /\ IsSeq(executed')
              /\ executed' = Append(executed, t.tx)
              /\ Len(executed') = Len(executed) + 1
              /\ \A i \in 1..Len(executed) : executed'[i] = executed[i]
              /\ executed'[Len(executed) + 1] = t.tx
<1>1. PICK t \in pending : executed' = executed \/ executed' = Append(executed, t.tx)
  BY DEF Land
<1>2. IsSeq(executed)
  BY DEF IInv, SequencesOK
<1>3. CASE executed' = Append(executed, t.tx)
  <2>1. /\ IsSeq(executed')
        /\ Len(executed') = Len(executed) + 1
        /\ \A i \in 1..Len(executed) : executed'[i] = executed[i]
        /\ executed'[Len(executed) + 1] = t.tx
    BY <1>2, <1>3, AppendOK
  <2> QED BY <1>3, <2>1
<1> QED BY <1>1, <1>3

(* A block: unless the run is about to sign, what it counts on stays true.  *)
LEMMA LandStep ==
  ASSUME IInv, Land, ~ LandsInWindow
  PROVE  IInv'
<1>1. /\ run.pc # "send" /\ pending' = {} /\ seq' = seq + 1
      /\ UNCHANGED <<published, drafts, frozen, run>>
  BY DEF Land, rankVars, amendVars
<1>2. PICK t \in pending :
        \/ executed' = executed
        \/ /\ IsSeq(executed')
           /\ Len(executed') = Len(executed) + 1
           /\ \A i \in 1..Len(executed) : executed'[i] = executed[i]
           /\ executed'[Len(executed) + 1] = t.tx
  BY LandExecutes
<1>3. /\ t.tx.seq = seq /\ Fresh(t.tx.of, t.tx.plan, t.tx.part)
  BY DEF IInv, PendingOK
<1>4. IsSeq(executed) /\ Len(executed) \in Nat /\ seq \in Nat
  BY AppendOK DEF IInv, SequencesOK
<1>5. SequencesOK' /\ DocumentsOK' /\ PendingOK' /\ SendOK'
  BY <1>1, <1>2, <1>4 DEF IInv, SequencesOK, DocumentsOK, PendingOK, SendOK, IsSeq
<1>6. Amounts' = Amounts /\ Obligation' = Obligation
  BY <1>1 DEF Amounts, Obligation, Amend, Week
<1>7. RunOK'
  BY <1>1, <1>6 DEF IInv, RunOK, Parts, PartOf
<1>8. ExecutedOK'
  <2> SUFFICES ASSUME NEW i \in 1..Len(executed')
               PROVE  executed'[i].seq \in Nat /\ executed'[i].seq < seq + 1
    BY <1>1 DEF ExecutedOK
  <2>1. CASE i \in 1..Len(executed) /\ executed'[i] = executed[i]
    <3>1. PICK n \in Nat : n = executed[i].seq /\ n < seq
      BY <2>1 DEF IInv, ExecutedOK
    <3> QED BY <1>4, <2>1, <3>1
  <2>2. CASE executed'[i] = t.tx
    BY <1>3, <1>4, <2>2
  <2> QED BY <1>2, <1>4, <2>1, <2>2
<1>9. PaidOnceEach'
  <2> SUFFICES ASSUME NEW i \in 1..Len(executed'), NEW j \in 1..Len(executed'), i < j,
                      executed'[i].of = executed'[j].of
               PROVE  /\ executed'[i].plan = executed'[j].plan
                      /\ executed'[i].part # executed'[j].part
    BY DEF PaidOnceEach
  <2>1. CASE /\ i \in 1..Len(executed) /\ executed'[i] = executed[i]
             /\ j \in 1..Len(executed) /\ executed'[j] = executed[j]
    BY <2>1 DEF IInv, PaidOnceEach
  <2>2. CASE i \in 1..Len(executed) /\ executed'[i] = executed[i] /\ executed'[j] = t.tx
    BY <1>3, <2>2 DEF Fresh
  <2> QED BY <1>2, <1>4, <2>1, <2>2
<1>10. WaitOK'
  <2> SUFFICES ASSUME run.pc = "wait"
               PROVE  WaitOK'
    BY <1>1 DEF WaitOK
  <2>1. /\ run.tx.of = Obligation /\ run.tx.plan = run.plan /\ run.tx.part \in run.todo
        /\ run.tx.seq = seq
        /\ \A p \in run.todo : Fresh(Obligation, run.plan, p)
    BY <1>4 DEF IInv, WaitOK
  <2>2. ASSUME run.tx \in Range(executed'), NEW p \in run.todo \ {run.tx.part}
        PROVE  Fresh(Obligation, run.plan, p)'
    <3>1. PICK k \in 1..Len(executed') : executed'[k] = run.tx
      BY <1>5, <2>2, AppendOK DEF SequencesOK, Range
    <3>2. ~ (k \in 1..Len(executed) /\ executed'[k] = executed[k])
      BY <1>4, <2>1, <3>1 DEF IInv, ExecutedOK
    <3>3. /\ run.tx = t.tx
          /\ Len(executed') = Len(executed) + 1
          /\ \A i \in 1..Len(executed) : executed'[i] = executed[i]
          /\ executed'[Len(executed) + 1] = t.tx
      BY <1>2, <1>4, <3>1, <3>2
    <3> SUFFICES ASSUME NEW i \in 1..Len(executed'), executed'[i].of = Obligation
                 PROVE  executed'[i].plan = run.plan /\ executed'[i].part # p
      BY <1>1, <1>6 DEF Fresh
    <3>4. CASE i \in 1..Len(executed)
      BY <2>1, <3>3, <3>4 DEF Fresh
    <3>5. CASE executed'[i] = run.tx
      BY <2>1, <2>2, <3>5
    <3> QED BY <1>4, <3>3, <3>4, <3>5
  <2>3. run.tx.seq \in Nat /\ run.tx.seq < seq'
    BY <1>1, <1>4, <2>1
  <2> QED BY <1>1, <1>4, <1>6, <2>1, <2>2, <2>3 DEF WaitOK
<1> QED BY <1>5, <1>7, <1>8, <1>9, <1>10 DEF IInv

-----------------------------------------------------------------------------
(* The theorems                                                             *)

LEMMA InitOK == Init => IInv
<1> SUFFICES ASSUME Init PROVE IInv
  OBVIOUS
<1>1. <<>> \in Seq(Range(<<>>)) /\ Len(<<>>) = 0
  OBVIOUS
<1>2. run.pc = "idle"
  BY DEF Init, Idle
<1>3. SequencesOK /\ DocumentsOK
  BY <1>1 DEF Init, SequencesOK, DocumentsOK, IsSeq
<1>4. RunOK /\ SendOK /\ WaitOK
  BY <1>2 DEF RunOK, SendOK, WaitOK
<1>5. ExecutedOK /\ PendingOK /\ PaidOnceEach
  BY <1>1 DEF Init, ExecutedOK, PendingOK, PaidOnceEach
<1> QED BY <1>3, <1>4, <1>5 DEF IInv

LEMMA StepOK ==
  ASSUME IInv, [Next]_vars, ~ LandsInWindow
  PROVE  IInv'
<1>1. CASE UNCHANGED vars
  <2>1. UNCHANGED <<published, amendVars, chainVars>> /\ UNCHANGED run
    BY <1>1 DEF vars, amendVars, chainVars
  <2> QED BY <2>1, Unmoved, RunKept
<1>2. CASE Publish \/ Republish
  BY <1>2, PublishStep, RepublishStep
<1>3. CASE \E n \in AmendIds : PlanAmendment(n) \/ Freeze(n) \/ Unfreeze(n)
  BY <1>3, AmendmentStep
<1>4. CASE StartDue \/ StartManual
  BY <1>4, StartStep
<1>5. CASE Payer
  BY <1>5, PlanStep, SearchStep, SendStep, PollStep DEF Payer
<1>6. CASE PollTimeout \/ Crash
  BY <1>6, PollStep
<1>7. CASE Land \/ Forget
  BY <1>7, LandStep, ForgetStep
<1> QED BY <1>1, <1>2, <1>3, <1>4, <1>5, <1>6, <1>7 DEF Next

LEMMA Inductive == ~ LandsInWindow => (Init /\ [][Next]_vars => []IInv)
<1> SUFFICES ASSUME ~ LandsInWindow PROVE Init /\ [][Next]_vars => []IInv
  OBVIOUS
<1>1. IInv /\ [Next]_vars => IInv'
  BY StepOK
<1> QED BY InitOK, <1>1, PTL

-----------------------------------------------------------------------------
(* The refinement                                                           *)

TheLedger == [i \in DOMAIN executed |-> Posted(executed[i])]

(* Only a block writes to the chain.                                        *)
LEMMA OnlyBlocks ==
  ASSUME [Next]_vars
  PROVE  UNCHANGED executed \/ Land
BY DEF Next, vars, Publish, Republish, PlanAmendment, Freeze, Unfreeze, StartDue, StartManual,
       Payer, PlanNotRanked, PlanWeek, PlanAmend, Search, Send, PollFound, PollTimeout, Crash,
       Forget, InPayer, chainVars

(* The fields of an abstract entry.                                         *)
LEMMA PostedFields ==
  ASSUME NEW t
  PROVE  Posted(t).of = t.of /\ Posted(t).plan = t.plan /\ Posted(t).part = t.part
BY DEF Posted

(* A block that executes a transaction is one payment of the ledger.        *)
LEMMA LandPays ==
  ASSUME IInv, Land
  PROVE  UNCHANGED TheLedger \/ Ledger!Next
<1> DEFINE L == TheLedger
           n == Len(executed)
<1>1. PICK t \in pending :
        \/ executed' = executed
        \/ /\ IsSeq(executed')
           /\ Len(executed') = n + 1
           /\ \A i \in 1..n : executed'[i] = executed[i]
           /\ executed'[n + 1] = t.tx
  BY LandExecutes
<1>2. CASE executed' = executed
  BY <1>2 DEF TheLedger
<1>3. ASSUME /\ IsSeq(executed')
             /\ Len(executed') = n + 1
             /\ \A i \in 1..n : executed'[i] = executed[i]
             /\ executed'[n + 1] = t.tx
      PROVE  Ledger!Next
  <2> DEFINE e == Posted(t.tx)
  <2>0. n \in Nat /\ DOMAIN executed = 1..n /\ DOMAIN executed' = 1..(n + 1)
    BY <1>3, AppendOK DEF IInv, SequencesOK
  <2>1. /\ L = [i \in 1..n |-> Posted(executed[i])]
        /\ L' = [i \in 1..(n + 1) |-> Posted(executed'[i])]
    BY <2>0 DEF TheLedger
  <2>2. L' = Append(L, e)
    <3> DEFINE f == [i \in 1..(n + 1) |-> Posted(executed'[i])]
               S == {f[i] : i \in 1..(n + 1)}
    <3>1. f \in [1..(n + 1) -> S]
      OBVIOUS
    <3>2. [i \in 1..n |-> f[i]] = L /\ f[n + 1] = e
      BY <1>3, <2>0, <2>1
    <3>3. f = L'
      BY <2>1
    <3> HIDE DEF f, S, L, e
    <3> QED BY <2>0, <3>1, <3>2, <3>3, FunctionIsAppend
  <2>3. /\ Len(L) = n /\ Len(L') = n + 1 /\ L'[n + 1] = e
    <3>1. Len(L) = n /\ Len(L') = n + 1
      BY <2>0, <2>1
    <3>2. L'[n + 1] = e
      BY <1>3, <2>0, <2>1
    <3> QED BY <3>1, <3>2
  <2>4. e.of \in Obligations /\ e.part \in Nat
    BY PostedFields DEF IInv, PendingOK
  <2>5. \A i \in {j \in 1..n : L[j].of = e.of} : L[i].plan = e.plan /\ L[i].part # e.part
    <3> SUFFICES ASSUME NEW i \in 1..n, L[i].of = e.of
                 PROVE  L[i].plan = e.plan /\ L[i].part # e.part
      OBVIOUS
    <3>1. L[i] = Posted(executed[i])
      BY <2>1
    <3>2. executed[i].of = t.tx.of
      BY <3>1, PostedFields
    <3>3. executed[i].plan = t.tx.plan /\ executed[i].part # t.tx.part
      BY <3>2 DEF IInv, PendingOK, Fresh
    <3> QED BY <3>1, <3>3, PostedFields
  <2>6. e = [of |-> e.of, plan |-> e.plan, part |-> e.part]
    BY PostedFields DEF Posted
  <2> HIDE DEF e
  <2> QED BY <2>0, <2>2, <2>3, <2>4, <2>5, <2>6
          DEF Ledger!Next, Ledger!Pay, Ledger!Of, Obligations, TheLedger
<1> QED BY <1>1, <1>2, <1>3

(* The chain's payments are a history of the abstract ledger: one plan per  *)
(* week or amendment, each part at most once, whatever crashed, timed out,  *)
(* was lost, was republished or was amended in between (_decide,            *)
(* paid_parts, amendment_chain_refusal).                                    *)
THEOREM LedgerImplemented == ~ LandsInWindow => (Spec => ImplementsLedger)
<1> SUFFICES ASSUME ~ LandsInWindow PROVE Spec => ImplementsLedger
  OBVIOUS
<1>1. Init => Ledger!Init
  BY DEF Init, Ledger!Init
<1>2. IInv /\ [Next]_vars => UNCHANGED TheLedger \/ Ledger!Next
  <2> SUFFICES ASSUME IInv, [Next]_vars PROVE UNCHANGED TheLedger \/ Ledger!Next
    OBVIOUS
  <2> QED BY OnlyBlocks, LandPays DEF TheLedger
<1>3. Init /\ [][Next]_vars => []IInv
  BY Inductive
<1> QED BY <1>1, <1>2, <1>3, PTL DEF Spec, ImplementsLedger, Ledger!Spec, TheLedger

(* No part of a week or of an amendment is on chain twice: "a part on chain *)
(* is never sent again" (the payer's header).                               *)
THEOREM PaidOnce == ~ LandsInWindow => (Spec => []PartPaidOnce)
<1> SUFFICES ASSUME ~ LandsInWindow PROVE Spec => []PartPaidOnce
  OBVIOUS
<1>1. IInv => PartPaidOnce
  <2> SUFFICES ASSUME IInv, NEW i \in DOMAIN executed, NEW j \in DOMAIN executed,
                      executed[i].of = executed[j].of, executed[i].part = executed[j].part
               PROVE  i = j
    BY DEF PartPaidOnce
  <2>1. i \in 1..Len(executed) /\ j \in 1..Len(executed) /\ Len(executed) \in Nat
    BY ExecutedDomain DEF IInv, SequencesOK
  <2> QED BY <2>1 DEF IInv, PaidOnceEach
<1>2. Init /\ [][Next]_vars => []IInv
  BY Inductive
<1> QED BY <1>1, <1>2, PTL DEF Spec

-----------------------------------------------------------------------------
(* The rows of the amendments. The image is fixed while a run goes on, its   *)
(* documents are apart from each other once the plan is accepted, and        *)
(* everything on chain is one of them once the search is: so what the run    *)
(* signs is apart from every other amendment on chain.                       *)

Apart(doc, other) == \A r \in doc, s \in other : <<r.day, r.miner>> # <<s.day, s.miner>>

(* No block holds a row of the document under another amendment.            *)
RowsFresh(o, doc) ==
  o[1] = "amend" =>
    \A i \in 1..Len(executed) :
      executed[i].of[1] = "amend" /\ executed[i].of # o => Apart(executed[i].plan, doc)

FilesApart ==
  \A m, n \in AmendIds :
    m # n /\ frozen[m] # None /\ frozen[n] # None => Apart(frozen[m], frozen[n])

KnownOK == \A i \in 1..Len(executed) : executed[i].of \in Obligations

RowsPendingOK == \A t \in pending : RowsFresh(t.tx.of, t.tx.plan)

RowsSearchOK ==
  run.pc = "search" /\ run.mode = "amend" =>
    frozen[run.n] # None /\ run.plan = frozen[run.n] /\ FilesApart

RowsSendOK ==
  \/ run.pc = "send"
  \/ run.pc = "wait" /\ (run.tx.seq = seq \/ run.tx \in Range(executed))
  => RowsFresh(Obligation, run.plan)

RowsApart == \A i \in 1..Len(executed) : RowsFresh(executed[i].of, executed[i].plan)

RInv == KnownOK /\ RowsPendingOK /\ RowsSearchOK /\ RowsSendOK /\ RowsApart

LEMMA ApartSymmetric ==
  ASSUME NEW doc, NEW other, Apart(doc, other)
  PROVE  Apart(other, doc)
BY DEF Apart

(* Neither the chain nor the image changes, and the run owes nothing.       *)
LEMMA RowsKept ==
  ASSUME RInv, ChainAlone, RowsSearchOK', RowsSendOK'
  PROVE  RInv'
<1>1. KnownOK' /\ RowsPendingOK' /\ RowsApart'
  BY DEF RInv, KnownOK, RowsPendingOK, RowsApart, RowsFresh, ChainAlone
<1> QED BY <1>1 DEF RInv

LEMMA RowsRunAlone ==
  ASSUME RInv, ChainAlone, run'.pc \in {"idle", "plan"}
  PROVE  RInv'
<1>1. RowsSearchOK' /\ RowsSendOK'
  BY DEF RowsSearchOK, RowsSendOK
<1> QED BY <1>1, RowsKept

(* The run stays where it is; the image may change only if there is none.   *)
LEMMA RowsRunKept ==
  ASSUME RInv, ChainAlone, UNCHANGED run, UNCHANGED frozen \/ run = Idle
  PROVE  RInv'
<1>1. CASE run = Idle
  <2>1. run'.pc = "idle"
    BY <1>1 DEF Idle
  <2> QED BY <2>1, RowsRunAlone
<1>2. CASE UNCHANGED frozen
  <2>1. RowsSearchOK'
    BY <1>2 DEF RInv, RowsSearchOK, FilesApart
  <2>2. RowsSendOK'
    BY DEF RInv, RowsSendOK, RowsFresh, Obligation, ChainAlone
  <2> QED BY <2>1, <2>2, RowsKept
<1> QED BY <1>1, <1>2

(* The plan of an amendment is accepted: no two documents share a row.      *)
LEMMA RowsPlanned ==
  ASSUME IInv, RInv, PlanNotRanked \/ PlanWeek \/ PlanAmend
  PROVE  RInv'
<1>1. ChainAlone /\ UNCHANGED frozen
  BY DEF PlanNotRanked, PlanWeek, PlanAmend, InPayer, chainVars, amendVars, ChainAlone
<1>2. CASE \E rc \in {0, 1, 3} : Exit(rc)
  <2>1. run'.pc = "idle"
    BY <1>2 DEF Exit, Idle
  <2> QED BY <1>1, <2>1, RowsRunAlone
<1>3. ASSUME NEW plan, Searching(plan),
             run.mode = "amend" =>
               frozen[run.n] # None /\ plan = frozen[run.n] /\ FilesApart
      PROVE  RInv'
  <2>1. run'.pc = "search" /\ run'.mode = run.mode /\ run'.n = run.n /\ run'.plan = plan
    BY <1>3 DEF Searching
  <2>2. RowsSearchOK' /\ RowsSendOK'
    BY <1>1, <1>3, <2>1 DEF RowsSearchOK, RowsSendOK, FilesApart
  <2> QED BY <1>1, <2>2, RowsKept
<1>4. CASE run.mode = "amend" /\ frozen[run.n] # None /\ Searching(frozen[run.n])
           /\ ~ AmendmentRefused(run.n, frozen, published)
  <2>1. FilesApart
    BY <1>4 DEF AmendmentRefused, Frozen, FilesApart, Apart
  <2> QED BY <1>3, <1>4, <2>1
<1>5. CASE PlanNotRanked
  BY <1>2, <1>5 DEF PlanNotRanked
<1>6. CASE PlanWeek
  BY <1>2, <1>3, <1>6 DEF PlanWeek
<1>7. CASE PlanAmend
  BY <1>2, <1>4, <1>7 DEF PlanAmend
<1> QED BY <1>5, <1>6, <1>7

(* The run goes on sending an obligation whose rows no block holds.         *)
LEMMA RowsSending ==
  ASSUME RInv, ChainAlone, NEW todo, run' = Sending(todo), RowsFresh(Obligation, run.plan)
  PROVE  RInv'
<1>1. run'.pc = "send" /\ run'.mode = run.mode /\ run'.n = run.n /\ run'.plan = run.plan
  BY DEF Sending
<1>2. Obligation' = Obligation
  BY <1>1 DEF Obligation, Amend, Week
<1>3. RowsSearchOK' /\ RowsSendOK'
  BY <1>1, <1>2 DEF RowsSearchOK, RowsSendOK, RowsFresh, ChainAlone
<1> QED BY <1>3, RowsKept

LEMMA RowsAdvance ==
  ASSUME RInv, ChainAlone, Advance
  PROVE  RInv'
<1>1. run'.pc \in {"idle", "plan"}
  BY DEF Advance, Exit, Idle
<1> QED BY <1>1, RowsRunAlone

(* Every amendment on chain is a document of the image: the run's is apart. *)
LEMMA RowsSearched ==
  ASSUME IInv, RInv, run.pc = "search", run.mode = "amend" => ~ AmendmentChainRefused(run.n)
  PROVE  RowsFresh(Obligation, run.plan)
<1> SUFFICES ASSUME run.mode = "amend", NEW i \in 1..Len(executed),
                    executed[i].of[1] = "amend", executed[i].of # Amend(run.n)
             PROVE  Apart(executed[i].plan, run.plan)
  BY DEF RowsFresh, Obligation, Week
<1>1. PICK n \in AmendIds : executed[i].of = Amend(n)
  BY DEF RInv, KnownOK, Obligations, Amend
<1>2. executed[i] \in Range(executed) /\ executed[i].of[2] = n /\ n # run.n
  BY <1>1, ExecutedDomain DEF Range, IInv, SequencesOK, Amend
<1>3. frozen[n] # None /\ executed[i].plan = frozen[n]
  BY <1>2 DEF AmendmentChainRefused
<1>4. run.n \in AmendIds /\ frozen[run.n] # None /\ run.plan = frozen[run.n] /\ FilesApart
  BY DEF IInv, RunOK, RInv, RowsSearchOK
<1> QED BY <1>2, <1>3, <1>4 DEF FilesApart

LEMMA RowsSearchStep ==
  ASSUME IInv, RInv, Search
  PROVE  RInv'
<1> DEFINE v == Decide(Obligation, run.plan, Amounts)
<1>1. run.pc = "search" /\ ChainAlone
  BY DEF Search, InPayer, chainVars, ChainAlone
<1>2. \/ Exit(3) \/ Advance
      \/ (run.mode = "amend" => ~ AmendmentChainRefused(run.n)) /\ run' = Sending(v.todo)
  BY DEF Search
<1> HIDE DEF v
<1>3. CASE Exit(3)
  BY <1>1, <1>3, RowsRunAlone DEF Exit, Idle
<1> QED BY <1>1, <1>2, <1>3, RowsAdvance, RowsSearched, RowsSending

LEMMA RowsSendStep ==
  ASSUME IInv, RInv, Send
  PROVE  RInv'
<1> DEFINE tx == TxOf(Min(run.todo))
<1>1. run.pc = "send" /\ UNCHANGED <<frozen, seq, executed>>
  BY DEF Send, amendVars
<1>2. tx.of = Obligation /\ tx.plan = run.plan /\ tx.seq = seq
  BY DEF TxOf
<1>3. RowsFresh(Obligation, run.plan)
  BY <1>1 DEF RInv, RowsSendOK
<1>4. CASE UNCHANGED pending /\ Exit(3)
  <2>1. run'.pc = "idle" /\ ChainAlone
    BY <1>1, <1>4 DEF Exit, Idle, ChainAlone
  <2> QED BY <2>1, RowsRunAlone
<1> HIDE DEF tx
<1>5. CASE pending' = {t \in pending : t.tx # tx} \cup {[here |-> TRUE, tx |-> tx]}
  <2>1. RowsPendingOK'
    <3> SUFFICES ASSUME NEW t \in pending' PROVE RowsFresh(t.tx.of, t.tx.plan)
      BY <1>1 DEF RowsPendingOK, RowsFresh
    <3>1. CASE t \in pending
      BY <3>1 DEF RInv, RowsPendingOK
    <3>2. CASE t.tx = tx
      BY <1>2, <1>3, <3>2
    <3> QED BY <1>5, <3>1, <3>2
  <2>2. KnownOK' /\ RowsApart'
    BY <1>1 DEF RInv, KnownOK, RowsApart, RowsFresh
  <2>3. CASE run' = [pc |-> "wait", mode |-> run.mode, n |-> run.n, plan |-> run.plan,
                     todo |-> run.todo, tx |-> tx]
    <3>1. run'.pc = "wait" /\ run'.mode = run.mode /\ run'.n = run.n /\ run'.plan = run.plan
      BY <2>3
    <3>2. Obligation' = Obligation
      BY <3>1 DEF Obligation, Amend, Week
    <3>3. RowsSearchOK' /\ RowsSendOK'
      BY <1>1, <1>3, <3>1, <3>2 DEF RowsSearchOK, RowsSendOK, RowsFresh
    <3> QED BY <2>1, <2>2, <3>3 DEF RInv
  <2>4. CASE Exit(3)
    <3>1. run'.pc = "idle"
      BY <2>4 DEF Exit, Idle
    <3> QED BY <2>1, <2>2, <3>1 DEF RInv, RowsSearchOK, RowsSendOK
  <2> QED BY <2>3, <2>4 DEF Send, tx
<1> QED BY <1>4, <1>5 DEF Send, tx

LEMMA RowsPollStep ==
  ASSUME IInv, RInv, PollFound \/ PollTimeout \/ Crash
  PROVE  RInv'
<1>1. ChainAlone
  BY DEF PollFound, PollTimeout, Crash, InPayer, chainVars, ChainAlone
<1>2. CASE Exit(3)
  <2>1. run'.pc = "idle"
    BY <1>2 DEF Exit, Idle
  <2> QED BY <1>1, <2>1, RowsRunAlone
<1>3. CASE /\ run.pc = "wait" /\ run.tx \in Range(executed)
           /\ run' = Sending(run.todo \ {run.tx.part})
  <2>1. RowsFresh(Obligation, run.plan)
    BY <1>3 DEF RInv, RowsSendOK
  <2> QED BY <1>1, <1>3, <2>1, RowsSending
<1> QED BY <1>1, <1>2, <1>3, RowsAdvance DEF PollFound, PollTimeout, Crash

LEMMA RowsForgetStep ==
  ASSUME IInv, RInv, Forget
  PROVE  RInv'
<1>1. UNCHANGED <<frozen, seq, executed, run>>
  BY DEF Forget, amendVars
<1>2. PICK s : (\E t \in pending : s.tx = t.tx) /\ pending' \subseteq pending \cup {s}
  <2>1. PICK t \in pending, kept \in BOOLEAN :
          pending' = (pending \ {t}) \cup (IF kept THEN {[t EXCEPT !.here = FALSE]} ELSE {})
    BY DEF Forget
  <2>2. [t EXCEPT !.here = FALSE].tx = t.tx
    OBVIOUS
  <2> QED BY <2>1, <2>2
<1>3. KnownOK' /\ RowsSearchOK' /\ RowsSendOK' /\ RowsApart'
  BY <1>1 DEF RInv, KnownOK, RowsSearchOK, FilesApart, RowsSendOK, RowsApart, RowsFresh, Obligation
<1>4. RowsPendingOK'
  BY <1>1, <1>2 DEF RInv, RowsPendingOK, RowsFresh
<1> QED BY <1>3, <1>4 DEF RInv

(* A block takes one transaction, apart from every other amendment on chain.*)
LEMMA RowsLandStep ==
  ASSUME IInv, RInv, Land, ~ LandsInWindow
  PROVE  RInv'
<1>1. run.pc # "send" /\ pending' = {} /\ seq' = seq + 1 /\ UNCHANGED <<frozen, run>>
  BY DEF Land, amendVars
<1>2. PICK t \in pending :
        \/ executed' = executed
        \/ /\ IsSeq(executed')
           /\ Len(executed') = Len(executed) + 1
           /\ \A i \in 1..Len(executed) : executed'[i] = executed[i]
           /\ executed'[Len(executed) + 1] = t.tx
  BY LandExecutes
<1>3. /\ t.tx.seq = seq /\ t.tx.of \in Obligations /\ RowsFresh(t.tx.of, t.tx.plan)
  BY DEF IInv, PendingOK, RInv, RowsPendingOK
<1>4. Len(executed) \in Nat /\ DOMAIN executed = 1..Len(executed) /\ seq \in Nat
  BY ExecutedDomain DEF IInv, SequencesOK
<1>5. RowsPendingOK' /\ RowsSearchOK'
  BY <1>1 DEF RInv, RowsPendingOK, RowsSearchOK, FilesApart
<1>6. Obligation' = Obligation
  BY <1>1 DEF Obligation, Amend, Week
<1>7. CASE executed' = executed
  <2>1. KnownOK' /\ RowsApart'
    BY <1>7 DEF RInv, KnownOK, RowsApart, RowsFresh
  <2>2. RowsSendOK'
    <3>1. run.pc = "wait" /\ (run.tx.seq = seq + 1 \/ run.tx \in Range(executed)) =>
            RowsFresh(Obligation, run.plan)
      BY <1>4 DEF IInv, WaitOK, RInv, RowsSendOK
    <3> QED BY <1>1, <1>6, <1>7, <3>1 DEF RowsSendOK, RowsFresh
  <2> QED BY <1>5, <2>1, <2>2 DEF RInv
<1>8. ASSUME /\ IsSeq(executed')
             /\ Len(executed') = Len(executed) + 1
             /\ \A i \in 1..Len(executed) : executed'[i] = executed[i]
             /\ executed'[Len(executed) + 1] = t.tx
      PROVE  RInv'
  <2>0. ASSUME NEW i \in 1..Len(executed')
        PROVE  \/ i \in 1..Len(executed) /\ executed'[i] = executed[i]
               \/ executed'[i] = t.tx
    BY <1>4, <1>8
  <2>1. KnownOK'
    BY <1>3, <2>0 DEF KnownOK, RInv
  <2>2. ASSUME NEW o, NEW doc, RowsFresh(o, doc),
               t.tx.of[1] = "amend" /\ t.tx.of # o /\ o[1] = "amend" => Apart(t.tx.plan, doc)
        PROVE  RowsFresh(o, doc)'
    <3> SUFFICES ASSUME o[1] = "amend", NEW i \in 1..Len(executed'),
                        executed'[i].of[1] = "amend", executed'[i].of # o
                 PROVE  Apart(executed'[i].plan, doc)
      BY DEF RowsFresh
    <3>1. CASE i \in 1..Len(executed) /\ executed'[i] = executed[i]
      BY <2>2, <3>1 DEF RowsFresh
    <3>2. CASE executed'[i] = t.tx
      BY <2>2, <3>2
    <3> QED BY <2>0, <3>1, <3>2
  <2>3. RowsFresh(t.tx.of, t.tx.plan)'
    BY <1>3, <2>2
  <2>4. RowsApart'
    <3> SUFFICES ASSUME NEW i \in 1..Len(executed'), NEW k \in 1..Len(executed'),
                        executed'[i].of[1] = "amend", executed'[k].of[1] = "amend",
                        executed'[k].of # executed'[i].of
                 PROVE  Apart(executed'[k].plan, executed'[i].plan)
      BY DEF RowsApart, RowsFresh
    <3>1. CASE /\ i \in 1..Len(executed) /\ executed'[i] = executed[i]
               /\ k \in 1..Len(executed) /\ executed'[k] = executed[k]
      BY <3>1 DEF RInv, RowsApart, RowsFresh
    <3>2. CASE executed'[i] = t.tx /\ k \in 1..Len(executed) /\ executed'[k] = executed[k]
      BY <1>3, <3>2 DEF RowsFresh
    <3>3. CASE executed'[k] = t.tx /\ i \in 1..Len(executed) /\ executed'[i] = executed[i]
      BY <1>3, <3>3, ApartSymmetric DEF RowsFresh
    <3> QED BY <2>0, <3>1, <3>2, <3>3
  <2>5. RowsSendOK'
    <3> SUFFICES ASSUME run.pc = "wait", run.tx.seq = seq + 1 \/ run.tx \in Range(executed')
                 PROVE  RowsFresh(Obligation, run.plan)'
      BY <1>1 DEF RowsSendOK
    <3>1. /\ run.tx.of = Obligation /\ run.tx.plan = run.plan /\ run.tx.seq \in Nat
          /\ run.tx.seq <= seq /\ (run.tx.seq < seq => pending = {})
      BY DEF IInv, WaitOK
    <3>2. run.tx.seq = seq
      BY <1>4, <3>1
    <3>3. PICK k \in 1..Len(executed') : executed'[k] = run.tx
      BY <1>4, <1>8, <3>2, AppendOK DEF Range, IsSeq
    <3>4. run.tx = t.tx
      BY <1>4, <2>0, <3>2, <3>3 DEF IInv, ExecutedOK
    <3> QED BY <1>6, <1>1, <2>3, <3>1, <3>4 DEF RowsFresh
  <2> QED BY <1>5, <2>1, <2>4, <2>5 DEF RInv
<1> QED BY <1>2, <1>7, <1>8

LEMMA RowsInit == Init => RInv
<1> SUFFICES ASSUME Init PROVE RInv
  OBVIOUS
<1>1. Len(<<>>) = 0 /\ run.pc = "idle"
  BY DEF Init, Idle
<1> QED BY <1>1 DEF Init, RInv, KnownOK, RowsPendingOK, RowsSearchOK, RowsSendOK, RowsApart

LEMMA RowsStep ==
  ASSUME IInv, RInv, [Next]_vars, ~ LandsInWindow
  PROVE  RInv'
<1>1. CASE UNCHANGED vars
  BY <1>1, RowsRunKept DEF vars, ChainAlone
<1>2. CASE Publish \/ Republish
  <2>1. ChainAlone /\ UNCHANGED <<run, frozen>>
    BY <1>2 DEF Publish, Republish, chainVars, amendVars, ChainAlone
  <2> QED BY <2>1, RowsRunKept
<1>3. CASE \E n \in AmendIds : PlanAmendment(n) \/ Freeze(n) \/ Unfreeze(n)
  <2>1. ChainAlone /\ UNCHANGED run /\ run = Idle
    BY <1>3 DEF PlanAmendment, Freeze, Unfreeze, chainVars, ChainAlone
  <2> QED BY <2>1, RowsRunKept
<1>4. CASE StartDue \/ StartManual
  <2>1. ChainAlone /\ run'.pc = "plan"
    BY <1>4 DEF StartDue, StartManual, Start, chainVars, ChainAlone
  <2> QED BY <2>1, RowsRunAlone
<1>5. CASE Payer
  BY <1>5, RowsPlanned, RowsSearchStep, RowsSendStep, RowsPollStep DEF Payer
<1>6. CASE PollTimeout \/ Crash
  BY <1>6, RowsPollStep
<1>7. CASE Land \/ Forget
  BY <1>7, RowsLandStep, RowsForgetStep
<1> QED BY <1>1, <1>2, <1>3, <1>4, <1>5, <1>6, <1>7 DEF Next

(* No row of a day is paid by two amendments, in whatever order they are    *)
(* planned, shipped, lost from an image and paid (amendment_refusal's       *)
(* "row in two amendments", amendment_chain_refusal).                       *)
THEOREM RowsPaidOnce == ~ LandsInWindow => (Spec => []RowPaidOnce)
<1> SUFFICES ASSUME ~ LandsInWindow PROVE Spec => []RowPaidOnce
  OBVIOUS
<1>1. IInv /\ RInv => RowPaidOnce
  <2> SUFFICES ASSUME IInv, RInv, NEW m \in AmendIds, NEW n \in AmendIds, m # n,
                      NEW r \in PaidRows(m), NEW s \in PaidRows(n)
               PROVE  <<r.day, r.miner>> # <<s.day, s.miner>>
    BY DEF RowPaidOnce
  <2>1. DOMAIN executed = 1..Len(executed)
    BY ExecutedDomain DEF IInv, SequencesOK
  <2>2. PICK i \in 1..Len(executed) : executed[i].of = Amend(m) /\ r \in executed[i].plan
    BY <2>1 DEF PaidRows, Range
  <2>3. PICK j \in 1..Len(executed) : executed[j].of = Amend(n) /\ s \in executed[j].plan
    BY <2>1 DEF PaidRows, Range
  <2>4. RowsFresh(executed[j].of, executed[j].plan)
    BY DEF RInv, RowsApart
  <2>5. Amend(m)[1] = "amend" /\ Amend(n)[1] = "amend" /\ Amend(m) # Amend(n)
    BY DEF Amend
  <2>6. Apart(executed[i].plan, executed[j].plan)
    BY <2>2, <2>3, <2>4, <2>5 DEF RowsFresh
  <2> QED BY <2>2, <2>3, <2>6 DEF Apart
<1>2. IInv /\ [Next]_vars => IInv'
  BY StepOK
<1>3. IInv /\ RInv /\ [Next]_vars => RInv'
  BY RowsStep
<1> QED BY InitOK, RowsInit, <1>1, <1>2, <1>3, PTL DEF Spec

-----------------------------------------------------------------------------
(* A silent cron                                                            *)
(*                                                                          *)
(* What a run of --due walks past is paid, as long as the service never     *)
(* changes what it published: the plan of a ranked week is then final.      *)

Untouched == left.republish = MaxRepublished

PartsDone(w) == {t.part : t \in Done(Week(w))}

(* A transaction of a week pays a part of its final plan.                   *)
AsPlanned(t) ==
  t.of[1] = "week" =>
    \E w \in Nat : /\ t.of = Week(w) /\ WeekRanked(w) /\ t.plan = WeekPlan(w, published)
                   /\ t.part \in Parts(t.plan) /\ t.sends = Sends(t.plan, t.part)

(* The weeks before n are ranked and on chain.                              *)
Walked(n) ==
  \A w \in 0..(n - 1) : WeekRanked(w) /\ Parts(WeekPlan(w, published)) \subseteq PartsDone(w)

(* The run's plan is the week's, and what it has not to send is on chain.   *)
Planned ==
  run.mode # "amend" =>
    /\ run.pc \in {"search", "send", "wait"} =>
         WeekRanked(run.n) /\ run.plan = WeekPlan(run.n, published)
    /\ run.pc \in {"send", "wait"} =>
         /\ run.todo # {} /\ run.todo \subseteq Parts(run.plan)
         /\ Parts(run.plan) \ run.todo \subseteq PartsDone(run.n)
    /\ run.pc = "wait" => run.tx.of = Week(run.n)

(* The shape of what the argument reads, with nothing said of the chain.    *)
Shape ==
  /\ IsSeq(published) /\ IsSeq(executed)
  /\ DOMAIN left = {"manual", "republish", "unfreeze", "fault"}
  /\ left.republish \in Int /\ left.republish <= MaxRepublished
  /\ run.pc \in {"idle", "plan", "search", "send", "wait"}
  /\ run.pc # "idle" => /\ run.mode \in {"due", "week", "amend"}
                        /\ run.n \in (IF run.mode = "amend" THEN AmendIds ELSE Nat)

BooksPlanned ==
  /\ \A i \in 1..Len(executed) : AsPlanned(executed[i])
  /\ \A t \in pending : AsPlanned(t.tx)

RunWalked ==
  run.pc # "idle" => Planned /\ (run.mode = "due" => Walked(run.n))

ExitWalked == exit # None /\ exit.rc = 0 => exit.n \in Nat /\ Walked(exit.n)

Walking == BooksPlanned /\ RunWalked /\ ExitWalked

DueInv == Shape /\ (Untouched => Walking)

(* A step that takes nothing back: ranked weeks keep their plans, and what  *)
(* is on chain stays there.                                                 *)
Onward ==
  /\ \A w \in Nat : WeekRanked(w) => WeekRanked(w)' /\ WeekPlan(w, published') = WeekPlan(w, published)
  /\ Range(executed) \subseteq Range(executed')

LEMMA DoneStays ==
  ASSUME Onward, NEW w
  PROVE  PartsDone(w) \subseteq PartsDone(w)'
BY DEF Onward, PartsDone, Done

LEMMA PartsKept ==
  ASSUME NEW plan, NEW part
  PROVE  Parts(plan)' = Parts(plan) /\ Sends(plan, part)' = Sends(plan, part)
BY DEF Parts, PartOf, Sends

LEMMA WalkedStays ==
  ASSUME Onward, NEW n, Walked(n), n \in Int
  PROVE  Walked(n)'
<1> SUFFICES ASSUME NEW w \in 0..(n - 1)
             PROVE  /\ WeekRanked(w)'
                    /\ Parts(WeekPlan(w, published')) \subseteq PartsDone(w)'
  BY DEF Walked, Parts, PartOf
<1>1. w \in Nat
  OBVIOUS
<1>2. WeekRanked(w) /\ Parts(WeekPlan(w, published)) \subseteq PartsDone(w)
  BY DEF Walked
<1>3. WeekRanked(w)' /\ WeekPlan(w, published') = WeekPlan(w, published)
  BY <1>1, <1>2 DEF Onward
<1>4. PartsDone(w) \subseteq PartsDone(w)'
  BY DoneStays
<1> QED BY <1>2, <1>3, <1>4

LEMMA PlannedStays ==
  ASSUME Onward, NEW t, AsPlanned(t)
  PROVE  AsPlanned(t)'
<1> SUFFICES ASSUME t.of[1] = "week"
             PROVE  \E w \in Nat :
                      /\ t.of = Week(w) /\ WeekRanked(w)' /\ t.plan = WeekPlan(w, published')
                      /\ t.part \in Parts(t.plan) /\ t.sends = Sends(t.plan, t.part)
  BY DEF AsPlanned, Week, Parts, Sends, PartOf
<1>1. PICK w \in Nat : /\ t.of = Week(w) /\ WeekRanked(w) /\ t.plan = WeekPlan(w, published)
                       /\ t.part \in Parts(t.plan) /\ t.sends = Sends(t.plan, t.part)
  BY DEF AsPlanned
<1>2. WeekRanked(w)' /\ WeekPlan(w, published') = WeekPlan(w, published)
  BY <1>1 DEF Onward
<1> QED BY <1>1, <1>2

(* The days of a ranked week are not touched by a later one.                *)
LEMMA PublishOnward ==
  ASSUME IsSeq(published), IsSeq(executed), Publish
  PROVE  Onward
<1>1. PICK x : published' = Append(published, x)
  BY DEF Publish
<1>2. ~ ended /\ executed' = executed
  BY DEF Publish, chainVars
<1> DEFINE N == Len(published)
<1>3. /\ N \in Nat /\ Len(published') = N + 1 /\ \A i \in 1..N : published'[i] = published[i]
  BY <1>1, AppendOK
<1> HIDE DEF N
<1> SUFFICES ASSUME NEW w \in Nat, WeekRanked(w)
             PROVE  WeekRanked(w)' /\ WeekPlan(w, published') = WeekPlan(w, published)
  BY <1>2 DEF Onward
<1> DEFINE b == (w + 1) * DaysPerWeek
           a == w * DaysPerWeek + 1
<1>4. a \in Nat /\ 1 <= a /\ b \in Nat
  BY PayoutAssumption
<1>5. b <= N
  BY <1>2, <1>4 DEF WeekRanked, N
<1> HIDE DEF a, b
<1>6. Least(N, b) = b /\ Least(N + 1, b) = b
  BY <1>3, <1>4, <1>5 DEF Least
<1>7. SubSeq(published', a, b) = SubSeq(published, a, b)
  <2> DEFINE S == {published[i] : i \in a..b}
             f == SubSeq(published', a, b)
             g == SubSeq(published, a, b)
  <2>1. \A i \in a..b : published'[i] = published[i]
    BY <1>3, <1>4, <1>5
  <2>2. a \in Int /\ b \in Int /\ (\A i \in a..b : published[i] \in S /\ published'[i] \in S)
    BY <1>4, <2>1
  <2> HIDE DEF S, f, g
  <2>3. /\ f \in Seq(S) /\ Len(f) = (IF a <= b THEN b - a + 1 ELSE 0)
        /\ \A i \in 1..(b - a + 1) : f[i] = published'[a + i - 1]
    BY <2>2, SubSeqProperties DEF f
  <2>4. /\ g \in Seq(S) /\ Len(g) = (IF a <= b THEN b - a + 1 ELSE 0)
        /\ \A i \in 1..(b - a + 1) : g[i] = published[a + i - 1]
    BY <2>2, SubSeqProperties DEF g
  <2>5. \A i \in 1..(b - a + 1) : a + i - 1 \in a..b
    BY <1>4
  <2>6. Len(f) = Len(g) /\ \A i \in 1..Len(f) : f[i] = g[i]
    BY <1>4, <2>1, <2>3, <2>4, <2>5
  <2>7. f = g
    BY <2>3, <2>4, <2>6
  <2> QED BY <2>7 DEF f, g
<1>8. DaysOfWeek(w, published') = DaysOfWeek(w, published)
  BY <1>3, <1>6, <1>7 DEF DaysOfWeek, a, b, N
<1>9. WeekPlan(w, published') = WeekPlan(w, published)
  BY <1>8 DEF WeekPlan
<1>10. WeekRanked(w)'
  BY <1>3, <1>4, <1>5 DEF WeekRanked, b
<1> QED BY <1>9, <1>10

LEMMA AloneOnward ==
  ASSUME UNCHANGED rankVars, executed' = executed
  PROVE  Onward
BY DEF Onward, WeekRanked, rankVars

(* A block only adds to the chain.                                          *)
LEMMA LandAdds ==
  ASSUME IsSeq(executed), Land
  PROVE  /\ IsSeq(executed') /\ Range(executed) \subseteq Range(executed')
         /\ \A i \in 1..Len(executed') :
              \/ i \in 1..Len(executed) /\ executed'[i] = executed[i]
              \/ \E t \in pending : executed'[i] = t.tx
<1>1. PICK t \in pending : executed' = executed \/ executed' = Append(executed, t.tx)
  BY DEF Land
<1>2. DOMAIN executed = 1..Len(executed) /\ Len(executed) \in Nat
  BY ExecutedDomain
<1>3. CASE executed' = executed
  BY <1>3 DEF IsSeq
<1>4. CASE executed' = Append(executed, t.tx)
  <2>1. /\ IsSeq(executed')
        /\ Len(executed') = Len(executed) + 1 /\ DOMAIN executed' = 1..(Len(executed) + 1)
        /\ \A i \in 1..Len(executed) : executed'[i] = executed[i]
        /\ executed'[Len(executed) + 1] = t.tx
    BY <1>4, AppendOK
  <2>2. ASSUME NEW x \in Range(executed) PROVE x \in Range(executed')
    <3>1. PICK i \in 1..Len(executed) : x = executed[i]
      BY <1>2 DEF Range
    <3>2. i \in DOMAIN executed' /\ executed'[i] = x
      BY <1>2, <2>1, <3>1
    <3> QED BY <3>2 DEF Range
  <2> QED BY <1>2, <2>1, <2>2
<1> QED BY <1>1, <1>3, <1>4

(* A run that starts, goes on or ends keeps the shape.                      *)
LEMMA ShapeStep ==
  ASSUME Shape, [Next]_vars
  PROVE  Shape' /\ (Untouched' => Untouched)
<1> USE DEF Shape
<1>1. CASE UNCHANGED vars
  BY <1>1 DEF vars, IsSeq, Untouched
<1>2. CASE Publish
  <2>1. IsSeq(published')
    BY <1>2, AppendOK DEF Publish
  <2> QED BY <1>2, <2>1 DEF Publish, chainVars, IsSeq, Untouched
<1>3. CASE Republish
  <2>1. IsSeq(published')
    BY <1>3, RepublishedSeq
  <2>2. left' = [left EXCEPT !.republish = @ - 1, !.fault = @ - 1]
    BY <1>3 DEF Republish
  <2>3. DOMAIN left' = DOMAIN left /\ left'.republish = left.republish - 1
    BY <2>2
  <2>4. left.republish > 0 /\ UNCHANGED <<executed, run>>
    BY <1>3 DEF Republish, chainVars
  <2> QED BY <2>1, <2>3, <2>4, PayoutAssumption DEF IsSeq, Untouched
<1>4. ASSUME UNCHANGED published,
             left' = left \/ (DOMAIN left' = DOMAIN left /\ left'.republish = left.republish),
             IsSeq(executed'),
             \/ UNCHANGED run
             \/ run' = Idle
             \/ /\ run'.pc \in {"send", "search", "wait"} /\ run.pc # "idle"
                /\ run'.mode = run.mode /\ run'.n = run.n
             \/ run'.pc = "plan" /\ run'.mode \in {"due", "week", "amend"}
                /\ run'.n \in (IF run'.mode = "amend" THEN AmendIds ELSE Nat)
      PROVE  Shape' /\ (Untouched' => Untouched)
  BY <1>4 DEF Untouched, Idle, IsSeq
<1>5. CASE \E n \in AmendIds : PlanAmendment(n) \/ Freeze(n) \/ Unfreeze(n)
  <2>1. UNCHANGED <<published, executed, run>>
    BY <1>5 DEF PlanAmendment, Freeze, Unfreeze, rankVars, chainVars
  <2>2. left' = left \/ left' = [left EXCEPT !.unfreeze = @ - 1, !.fault = @ - 1]
    BY <1>5 DEF PlanAmendment, Freeze, Unfreeze
  <2>3. left' = left \/ (DOMAIN left' = DOMAIN left /\ left'.republish = left.republish)
    BY <2>2
  <2> QED BY <1>4, <2>1, <2>3 DEF IsSeq
<1>6. CASE StartDue \/ StartManual
  <2>1. UNCHANGED <<published, executed>>
    BY <1>6 DEF StartDue, StartManual, rankVars, chainVars
  <2>2. left' = left \/ left' = [left EXCEPT !.manual = @ - 1]
    BY <1>6 DEF StartDue, StartManual
  <2>3. left' = left \/ (DOMAIN left' = DOMAIN left /\ left'.republish = left.republish)
    BY <2>2
  <2>4. /\ run'.pc = "plan" /\ run'.mode \in {"due", "week", "amend"}
        /\ run'.n \in (IF run'.mode = "amend" THEN AmendIds ELSE Nat)
    <3>1. CASE Start("due", 0)
      BY <3>1 DEF Start
    <3>2. CASE \E w \in 0..MaxDays - 1 : Start("week", w)
      BY <3>2, PayoutAssumption DEF Start
    <3>3. CASE \E n \in AmendIds : Start("amend", n)
      BY <3>3 DEF Start
    <3> QED BY <1>6, <3>1, <3>2, <3>3 DEF StartDue, StartManual
  <2> QED BY <1>4, <2>1, <2>3, <2>4 DEF IsSeq
<1>7. CASE Payer \/ PollTimeout \/ Crash
  <2>1. UNCHANGED <<published, executed>>
    BY <1>7 DEF Payer, PollTimeout, Crash, PlanNotRanked, PlanWeek, PlanAmend, Search, Send,
                PollFound, InPayer, rankVars, chainVars
  <2>2. left' = left \/ \E v : left' = [left EXCEPT !.fault = v]
    BY <1>7 DEF Payer, PollTimeout, Crash, PlanNotRanked, PlanWeek, PlanAmend, Search, Send,
                PollFound, InPayer
  <2>3. left' = left \/ (DOMAIN left' = DOMAIN left /\ left'.republish = left.republish)
    BY <2>2
  <2>4. run' = Idle \/ run.pc # "idle"
    BY <1>7 DEF Payer, PollTimeout, Crash, PlanNotRanked, PlanWeek, PlanAmend, Search, Send,
                PollFound, Exit
  <2>5. \/ run' = Idle
        \/ \E plan : Searching(plan)
        \/ \E todo : run' = Sending(todo)
        \/ \E tx : run' = [pc |-> "wait", mode |-> run.mode, n |-> run.n, plan |-> run.plan,
                           todo |-> run.todo, tx |-> tx]
        \/ run.mode = "due" /\ run' = [pc |-> "plan", mode |-> "due", n |-> run.n + 1]
    BY <1>7 DEF Payer, PollTimeout, Crash, PlanNotRanked, PlanWeek, PlanAmend, Search, Send,
                PollFound, Exit, Advance
  <2>6. \/ run' = Idle
        \/ run'.pc \in {"send", "search", "wait"} /\ run'.mode = run.mode /\ run'.n = run.n
        \/ run'.pc = "plan" /\ run'.mode = "due" /\ run.mode = "due" /\ run'.n = run.n + 1
    BY <2>5 DEF Searching, Sending
  <2>7. run' = Idle \/ (run.mode = "due" => run.n + 1 \in Nat)
    BY <2>4
  <2> QED BY <1>4, <2>1, <2>3, <2>4, <2>6, <2>7 DEF IsSeq
<1>8. CASE Land
  <2>1. IsSeq(executed')
    BY <1>8, LandAdds
  <2>2. UNCHANGED <<published, run>>
    BY <1>8 DEF Land, rankVars
  <2>3. \E v : left' = [left EXCEPT !.fault = v]
    BY <1>8 DEF Land
  <2>4. DOMAIN left' = DOMAIN left /\ left'.republish = left.republish
    BY <2>3
  <2> QED BY <1>4, <2>1, <2>2, <2>4
<1>9. CASE Forget
  <2>1. UNCHANGED <<published, executed, run>>
    BY <1>9 DEF Forget, rankVars
  <2>2. left' = [left EXCEPT !.fault = @ - 1]
    BY <1>9 DEF Forget
  <2>3. DOMAIN left' = DOMAIN left /\ left'.republish = left.republish
    BY <2>2
  <2> QED BY <1>4, <2>1, <2>3 DEF IsSeq
<1> QED BY <1>1, <1>2, <1>3, <1>5, <1>6, <1>7, <1>8, <1>9 DEF Next

(* What is published is only added to, or the antecedent is gone.           *)
LEMMA StepOnward ==
  ASSUME Shape, Untouched', [Next]_vars
  PROVE  Onward
<1>1. CASE UNCHANGED <<rankVars, executed>>
  BY <1>1, AloneOnward
<1>2. CASE Publish
  BY <1>2, PublishOnward DEF Shape
<1>3. CASE Republish
  <2>1. left' = [left EXCEPT !.republish = @ - 1, !.fault = @ - 1]
    BY <1>3 DEF Republish
  <2>2. left'.republish = left.republish - 1
    BY <2>1 DEF Shape
  <2> QED BY <2>2, PayoutAssumption DEF Shape, Untouched
<1>4. CASE Land
  <2>1. Range(executed) \subseteq Range(executed')
    BY <1>4, LandAdds DEF Shape
  <2> QED BY <1>4, <2>1 DEF Onward, Land, rankVars, WeekRanked
<1>5. UNCHANGED <<rankVars, executed>> \/ Publish \/ Republish \/ Land
  BY DEF Next, vars, rankVars, chainVars, PlanAmendment, Freeze, Unfreeze, StartDue, StartManual,
         Payer, PollTimeout, Crash, PlanNotRanked, PlanWeek, PlanAmend, Search, Send, PollFound,
         InPayer, Forget
<1> QED BY <1>1, <1>2, <1>3, <1>4, <1>5

(* The transaction a run signs is one of its week's plan.                   *)
LEMMA SignsAsPlanned ==
  ASSUME Shape, RunWalked, run.pc = "send"
  PROVE  AsPlanned(TxOf(Min(run.todo))) /\ TxOf(Min(run.todo)).of = Obligation
<1> DEFINE tx == TxOf(Min(run.todo))
<1>1. /\ tx.of = Obligation /\ tx.plan = run.plan /\ tx.part = Min(run.todo)
      /\ tx.sends = Sends(Amounts, Min(run.todo))
  BY DEF TxOf
<1> HIDE DEF tx
<1>2. CASE run.mode = "amend"
  BY <1>1, <1>2 DEF AsPlanned, Obligation, Amend, tx
<1>3. CASE run.mode # "amend"
  <2>1. /\ run.n \in Nat /\ WeekRanked(run.n) /\ run.plan = WeekPlan(run.n, published)
        /\ run.todo # {} /\ run.todo \subseteq Parts(run.plan)
    BY <1>3 DEF Shape, RunWalked, Planned
  <2>2. Parts(run.plan) \subseteq Nat
    <3>1. IsFiniteSet(DOMAIN WeekPlan(run.n, published))
      BY <2>1, WeekPlanFinite DEF Shape
    <3> QED BY <2>1, <3>1, PartsNat
  <2>3. Min(run.todo) \in Parts(run.plan)
    BY <2>1, <2>2, LeastElement
  <2>4. Amounts = run.plan /\ Obligation = Week(run.n)
    BY <1>3 DEF Amounts, Obligation
  <2> QED BY <1>1, <2>1, <2>3, <2>4 DEF AsPlanned, tx
<1> QED BY <1>2, <1>3, <1>1 DEF tx

LEMMA BooksStep ==
  ASSUME Shape, Onward, Walking, [Next]_vars
  PROVE  BooksPlanned'
<1>1. \A t : AsPlanned(t) => AsPlanned(t)'
  BY PlannedStays
<1>2. \A i \in 1..Len(executed') :
        \/ i \in 1..Len(executed) /\ executed'[i] = executed[i]
        \/ \E t \in pending : executed'[i] = t.tx
  <2>1. CASE Land
    BY <2>1, LandAdds DEF Shape
  <2>2. executed' = executed \/ Land
    BY DEF Next, vars, chainVars, Publish, Republish, PlanAmendment, Freeze, Unfreeze, StartDue,
           StartManual, Payer, PollTimeout, Crash, PlanNotRanked, PlanWeek, PlanAmend, Search,
           Send, PollFound, InPayer, Forget
  <2> QED BY <2>1, <2>2
<1>3. \A t \in pending' :
        \/ \E u \in pending : t.tx = u.tx
        \/ run.pc = "send" /\ t.tx = TxOf(Min(run.todo))
  <2>1. CASE Send
    <3> DEFINE tx == TxOf(Min(run.todo))
    <3>1. /\ run.pc = "send"
          /\ \/ pending' = pending
             \/ pending' = {t \in pending : t.tx # tx} \cup {[here |-> TRUE, tx |-> tx]}
      BY <2>1 DEF Send
    <3> HIDE DEF tx
    <3>2. ASSUME NEW t \in pending' PROVE t \in pending \/ t.tx = tx
      BY <3>1, <3>2
    <3> QED BY <3>1, <3>2 DEF tx
  <2>2. CASE Forget
    <3>1. PICK t \in pending, kept \in BOOLEAN :
            pending' = (pending \ {t}) \cup (IF kept THEN {[t EXCEPT !.here = FALSE]} ELSE {})
      BY <2>2 DEF Forget
    <3>2. [t EXCEPT !.here = FALSE].tx = t.tx
      OBVIOUS
    <3> QED BY <3>1, <3>2
  <2>3. pending' = pending \/ pending' = {} \/ Send \/ Forget
    BY DEF Next, vars, chainVars, Publish, Republish, PlanAmendment, Freeze, Unfreeze, StartDue,
           StartManual, Payer, PollTimeout, Crash, PlanNotRanked, PlanWeek, PlanAmend, Search,
           PollFound, InPayer, Land
  <2> QED BY <2>1, <2>2, <2>3
<1>4. run.pc = "send" => AsPlanned(TxOf(Min(run.todo)))
  BY SignsAsPlanned DEF Walking
<1>5. \A i \in 1..Len(executed) : AsPlanned(executed[i])
  BY DEF Walking, BooksPlanned
<1>6. \A t \in pending : AsPlanned(t.tx)
  BY DEF Walking, BooksPlanned
<1>7. ASSUME NEW i \in 1..Len(executed') PROVE \E t : t = executed'[i] /\ AsPlanned(t)'
  <2>1. PICK t : t = executed'[i]
    OBVIOUS
  <2>2. AsPlanned(t)
    BY <1>2, <1>5, <1>6, <2>1
  <2> QED BY <1>1, <2>1, <2>2
<1>8. ASSUME NEW u \in pending' PROVE \E t : t = u.tx /\ AsPlanned(t)'
  <2>1. PICK t : t = u.tx
    OBVIOUS
  <2>2. AsPlanned(t)
    BY <1>3, <1>4, <1>6, <2>1
  <2> QED BY <1>1, <2>1, <2>2
<1> QED BY <1>7, <1>8 DEF BooksPlanned

(* The run while it stays where it is, or ends.                             *)
LEMMA RunRests ==
  ASSUME Shape, Onward, RunWalked, UNCHANGED run \/ run' = Idle
  PROVE  RunWalked'
<1>1. CASE run' = Idle
  BY <1>1 DEF RunWalked, Idle
<1>2. CASE run' = run /\ run.pc = "idle"
  BY <1>2 DEF RunWalked
<1>3. CASE run' = run /\ run.pc # "idle"
  <2>1. Planned'
    <3> SUFFICES ASSUME run.mode # "amend" PROVE Planned'
      BY <1>3 DEF Planned
    <3>1. run.n \in Nat
      BY <1>3 DEF Shape
    <3>2. Planned
      BY <1>3 DEF RunWalked
    <3>3. run.pc \in {"search", "send", "wait"} =>
            WeekRanked(run.n)' /\ run.plan = WeekPlan(run.n, published')
      <4> SUFFICES ASSUME run.pc \in {"search", "send", "wait"}
                   PROVE  WeekRanked(run.n)' /\ run.plan = WeekPlan(run.n, published')
        OBVIOUS
      <4>1. WeekRanked(run.n) /\ run.plan = WeekPlan(run.n, published)
        BY <3>2 DEF Planned
      <4>2. PICK n \in Nat : n = run.n
        BY <3>1
      <4>3. WeekRanked(n)' /\ WeekPlan(n, published') = WeekPlan(n, published)
        BY <4>1, <4>2 DEF Onward
      <4> QED BY <1>3, <4>1, <4>2, <4>3
    <3>4. PartsDone(run.n) \subseteq PartsDone(run.n)'
      <4>1. PICK n : n = run.n
        OBVIOUS
      <4>2. PartsDone(n) \subseteq PartsDone(n)'
        BY DoneStays
      <4> QED BY <1>3, <4>1, <4>2
    <3>5. run.pc \in {"send", "wait"} =>
            /\ run.todo # {} /\ run.todo \subseteq Parts(run.plan)
            /\ Parts(run.plan) \ run.todo \subseteq PartsDone(run.n)'
      BY <3>2, <3>4 DEF Planned
    <3>6. run.pc = "wait" => run.tx.of = Week(run.n)
      BY <3>2 DEF Planned
    <3>7. Parts(run.plan)' = Parts(run.plan)
      BY <1>3 DEF Parts, PartOf
    <3> QED BY <1>3, <3>3, <3>5, <3>6, <3>7 DEF Planned, Week
  <2>2. ASSUME run.mode = "due" PROVE Walked(run.n)'
    <3>1. PICK n \in Nat : n = run.n
      BY <1>3, <2>2 DEF Shape
    <3>2. Walked(n)
      BY <1>3, <2>2, <3>1 DEF RunWalked
    <3>3. Walked(n)'
      BY <3>2, WalkedStays
    <3> QED BY <1>3, <3>1, <3>3
  <2> QED BY <1>3, <2>1, <2>2 DEF RunWalked
<1> QED BY <1>1, <1>2, <1>3

(* A run that begins, or that goes on to the next week.                     *)
LEMMA RunBegins ==
  ASSUME NEW n, run'.pc = "plan", run'.mode = "due" => run'.n = n /\ Walked(n)'
  PROVE  RunWalked'
<1>1. Planned'
  BY DEF Planned
<1>2. run'.mode = "due" => Walked(run.n)'
  OBVIOUS
<1> QED BY <1>1, <1>2 DEF RunWalked

(* The rankings and the chain stay while a run works.                       *)
Working == UNCHANGED <<rankVars, executed>>

LEMMA WorkKeeps ==
  ASSUME Working, NEW n
  PROVE  /\ WeekRanked(n)' = WeekRanked(n) /\ WeekPlan(n, published') = WeekPlan(n, published)
         /\ PartsDone(n)' = PartsDone(n) /\ Walked(n)' = Walked(n)
BY DEF Working, rankVars, WeekRanked, PartsDone, Done, Walked, Parts, PartOf

(* The run goes on with its week: what it plans and sends stays planned.    *)
LEMMA RunWorks ==
  ASSUME Shape, Working, RunWalked, run.pc # "idle", run'.pc # "idle",
         run'.mode = run.mode, run'.n = run.n,
         run.mode # "amend" =>
           /\ run'.pc \in {"search", "send", "wait"} =>
                WeekRanked(run.n) /\ run'.plan = WeekPlan(run.n, published)
           /\ run'.pc \in {"send", "wait"} =>
                /\ run'.todo # {} /\ run'.todo \subseteq Parts(run'.plan)
                /\ Parts(run'.plan) \ run'.todo \subseteq PartsDone(run.n)
           /\ run'.pc = "wait" => run'.tx.of = Week(run.n)
  PROVE  RunWalked'
<1>1. PICK n : n = run.n
  OBVIOUS
<1>2. /\ WeekRanked(n)' = WeekRanked(n) /\ WeekPlan(n, published') = WeekPlan(n, published)
      /\ PartsDone(n)' = PartsDone(n) /\ Walked(n)' = Walked(n)
  BY WorkKeeps
<1>3. Planned'
  BY <1>1, <1>2 DEF Planned, Parts, PartOf, Week
<1>4. run.mode = "due" => Walked(n)'
  BY <1>1, <1>2 DEF RunWalked
<1> QED BY <1>1, <1>3, <1>4 DEF RunWalked

(* The week the walk leaves is on chain in full.                            *)
LEMMA WalkGoesOn ==
  ASSUME Shape, Working, RunWalked, run.pc \in {"search", "send", "wait"}, run.mode = "due",
         Parts(run.plan) \subseteq PartsDone(run.n),
         run' = [pc |-> "plan", mode |-> "due", n |-> run.n + 1]
  PROVE  RunWalked'
<1>1. PICK n \in Nat : n = run.n
  BY DEF Shape
<1>2. WeekRanked(n) /\ run.plan = WeekPlan(n, published) /\ Walked(n)
  BY <1>1 DEF RunWalked, Planned
<1>3. Walked(n + 1)
  BY <1>1, <1>2 DEF Walked
<1>4. PICK m : m = n + 1
  OBVIOUS
<1>5. Walked(m)'
  BY <1>3, <1>4, WorkKeeps
<1>6. run'.pc = "plan" /\ run'.n = m
  BY <1>1, <1>4
<1> QED BY <1>5, <1>6, RunBegins

LEMMA SearchWalks ==
  ASSUME Shape, RunWalked, Search
  PROVE  RunWalked'
<1> DEFINE v == Decide(Obligation, run.plan, Amounts)
<1>1. run.pc = "search" /\ Working
  BY DEF Search, InPayer, Working, chainVars
<1>2. \/ run' = Idle
      \/ v.todo = {} /\ Advance
      \/ v.todo # {} /\ run' = Sending(v.todo)
  BY DEF Search, Exit
<1>3. run.mode # "amend" => v.todo = Parts(run.plan) \ PartsDone(run.n)
  BY DEF Decide, Obligation, Amounts, PartsDone
<1> HIDE DEF v
<1>4. CASE run' = Idle
  BY <1>4 DEF RunWalked, Idle
<1>5. CASE v.todo = {} /\ Advance
  <2>1. CASE run.mode = "due"
    <3>1. Parts(run.plan) \subseteq PartsDone(run.n)
      BY <1>3, <1>5, <2>1
    <3> QED BY <1>1, <1>5, <2>1, <3>1, WalkGoesOn DEF Advance
  <2>2. CASE run.mode # "due"
    BY <1>5, <2>2 DEF Advance, Exit, RunWalked, Idle
  <2> QED BY <2>1, <2>2
<1>6. CASE v.todo # {} /\ run' = Sending(v.todo)
  <2>1. /\ run'.pc = "send" /\ run'.mode = run.mode /\ run'.n = run.n /\ run'.plan = run.plan
        /\ run'.todo = v.todo
    BY <1>6 DEF Sending
  <2>2. run.mode # "amend" => WeekRanked(run.n) /\ run.plan = WeekPlan(run.n, published)
    BY <1>1 DEF RunWalked, Planned
  <2> QED BY <1>1, <1>3, <1>6, <2>1, <2>2, RunWorks
<1> QED BY <1>2, <1>4, <1>5, <1>6

LEMMA PollWalks ==
  ASSUME Shape, RunWalked, PollFound
  PROVE  RunWalked'
<1>1. run.pc = "wait" /\ Working
  BY DEF PollFound, InPayer, Working, chainVars
<1>2. \/ run' = Idle
      \/ run.tx \in Range(executed) /\ run.todo = {run.tx.part} /\ Advance
      \/ /\ run.tx \in Range(executed) /\ run.todo # {run.tx.part}
         /\ run' = Sending(run.todo \ {run.tx.part})
  BY DEF PollFound, Exit
<1>3. ASSUME run.mode # "amend"
      PROVE  /\ WeekRanked(run.n) /\ run.plan = WeekPlan(run.n, published)
             /\ run.todo # {} /\ run.todo \subseteq Parts(run.plan)
             /\ Parts(run.plan) \ run.todo \subseteq PartsDone(run.n)
             /\ run.tx \in Range(executed) => run.tx.part \in PartsDone(run.n)
  BY <1>1, <1>3 DEF RunWalked, Planned, PartsDone, Done
<1>4. CASE run' = Idle
  BY <1>4 DEF RunWalked, Idle
<1>5. CASE run.tx \in Range(executed) /\ run.todo = {run.tx.part} /\ Advance
  <2>1. CASE run.mode = "due"
    <3>1. Parts(run.plan) \subseteq PartsDone(run.n)
      BY <1>3, <1>5, <2>1
    <3> QED BY <1>1, <1>5, <2>1, <3>1, WalkGoesOn DEF Advance
  <2>2. CASE run.mode # "due"
    BY <1>5, <2>2 DEF Advance, Exit, RunWalked, Idle
  <2> QED BY <2>1, <2>2
<1>6. CASE /\ run.tx \in Range(executed) /\ run.todo # {run.tx.part}
           /\ run' = Sending(run.todo \ {run.tx.part})
  <2>1. /\ run'.pc = "send" /\ run'.mode = run.mode /\ run'.n = run.n /\ run'.plan = run.plan
        /\ run'.todo = run.todo \ {run.tx.part}
    BY <1>6 DEF Sending
  <2> QED BY <1>1, <1>3, <1>6, <2>1, RunWorks
<1> QED BY <1>2, <1>4, <1>5, <1>6

LEMMA SendWalks ==
  ASSUME Shape, RunWalked, Send
  PROVE  RunWalked'
<1> DEFINE tx == TxOf(Min(run.todo))
<1>1. run.pc = "send" /\ Working
  BY DEF Send, Working
<1>2. \/ run' = Idle
      \/ run' = [pc |-> "wait", mode |-> run.mode, n |-> run.n, plan |-> run.plan,
                 todo |-> run.todo, tx |-> tx]
  BY DEF Send, Exit
<1>3. run.mode # "amend" => tx.of = Week(run.n)
  BY DEF TxOf, Obligation
<1> HIDE DEF tx
<1>4. CASE run' = Idle
  BY <1>4 DEF RunWalked, Idle
<1>5. CASE run' = [pc |-> "wait", mode |-> run.mode, n |-> run.n, plan |-> run.plan,
                   todo |-> run.todo, tx |-> tx]
  <2>1. /\ run'.pc = "wait" /\ run'.mode = run.mode /\ run'.n = run.n /\ run'.plan = run.plan
        /\ run'.todo = run.todo /\ run'.tx = tx
    BY <1>5
  <2>2. run.mode # "amend" =>
          /\ WeekRanked(run.n) /\ run.plan = WeekPlan(run.n, published)
          /\ run.todo # {} /\ run.todo \subseteq Parts(run.plan)
          /\ Parts(run.plan) \ run.todo \subseteq PartsDone(run.n)
    BY <1>1 DEF RunWalked, Planned
  <2> QED BY <1>1, <1>3, <2>1, <2>2, RunWorks
<1> QED BY <1>2, <1>4, <1>5

LEMMA RunStep ==
  ASSUME Shape, Onward, RunWalked, [Next]_vars
  PROVE  RunWalked'
<1>1. CASE UNCHANGED run \/ run' = Idle
  BY <1>1, RunRests
<1>2. CASE StartDue \/ StartManual
  <2>1. PICK z : z = 0
    OBVIOUS
  <2>2. Walked(z)'
    BY <2>1 DEF Walked
  <2>3. run'.pc = "plan" /\ (run'.mode = "due" => run'.n = z)
    BY <1>2, <2>1 DEF StartDue, StartManual, Start
  <2> QED BY <2>2, <2>3, RunBegins
<1>3. CASE \E plan : run.pc = "plan" /\ Searching(plan) /\ Working
             /\ (run.mode # "amend" => WeekRanked(run.n) /\ plan = WeekPlan(run.n, published))
  <2>1. PICK plan : run.pc = "plan" /\ Searching(plan) /\ Working
             /\ (run.mode # "amend" => WeekRanked(run.n) /\ plan = WeekPlan(run.n, published))
    BY <1>3
  <2>2. run'.pc = "search" /\ run'.mode = run.mode /\ run'.n = run.n /\ run'.plan = plan
    BY <2>1 DEF Searching
  <2> QED BY <2>1, <2>2, RunWorks
<1>4. CASE PlanWeek
  BY <1>1, <1>3, <1>4 DEF PlanWeek, Exit, InPayer, Working, chainVars
<1>5. CASE PlanAmend
  BY <1>1, <1>3, <1>5 DEF PlanAmend, Exit, InPayer, Working, chainVars
<1>6. CASE Search \/ Send \/ PollFound
  BY <1>6, SearchWalks, SendWalks, PollWalks
<1>7. \/ UNCHANGED run \/ run' = Idle \/ StartDue \/ StartManual \/ PlanWeek \/ PlanAmend
      \/ Search \/ Send \/ PollFound
  BY DEF Next, vars, Publish, Republish, PlanAmendment, Freeze, Unfreeze, Payer, PollTimeout,
         Crash, PlanNotRanked, Exit, Land, Forget
<1> QED BY <1>1, <1>2, <1>4, <1>5, <1>6, <1>7

(* A run of --due that ends walked to where it ends.                        *)
LEMMA ExitsWalked ==
  ASSUME Shape, Onward, RunWalked, ExitWalked, [Next]_vars
  PROVE  ExitWalked'
<1>1. \/ exit' = exit
      \/ exit' = None
      \/ \E rc : /\ run.pc # "idle" /\ run.mode = "due" /\ exit' = [n |-> run.n, rc |-> rc]
      \/ Crash /\ exit'.rc = 3
  BY DEF Next, vars, Publish, Republish, PlanAmendment, Freeze, Unfreeze, StartDue, StartManual,
         Payer, PollTimeout, Crash, PlanNotRanked, PlanWeek, PlanAmend, Search, Send, PollFound,
         Advance, Exit, Land, Forget
<1>2. CASE exit' = exit
  <2> SUFFICES ASSUME exit # None, exit.rc = 0
               PROVE  exit'.n \in Nat /\ Walked(exit.n)'
    BY <1>2 DEF ExitWalked
  <2>1. PICK n \in Nat : n = exit.n /\ Walked(n)
    BY DEF ExitWalked
  <2>2. Walked(n)'
    BY <2>1, WalkedStays
  <2> QED BY <1>2, <2>1, <2>2
<1>3. CASE exit' = None
  BY <1>3 DEF ExitWalked
<1>4. CASE \E rc : run.pc # "idle" /\ run.mode = "due" /\ exit' = [n |-> run.n, rc |-> rc]
  <2>1. PICK n \in Nat : n = run.n
    BY <1>4 DEF Shape
  <2>2. Walked(n)
    BY <1>4, <2>1 DEF RunWalked
  <2>3. Walked(n)'
    BY <2>2, WalkedStays
  <2>4. exit'.n = n
    BY <1>4, <2>1
  <2> QED BY <2>3, <2>4 DEF ExitWalked
<1>5. CASE exit'.rc = 3
  BY <1>5 DEF ExitWalked
<1> QED BY <1>1, <1>2, <1>3, <1>4, <1>5

(* Without a republication, --due exits 0 only if every week before the one *)
(* it stopped at is on chain, part by part, with the amounts of its plan:   *)
(* whatever blocks, crashes, lost answers, hand-started runs and other      *)
(* transactions of the account came between, LandsInWindow included.        *)
THEOREM DueTruthful == Spec => []DueExitTruthful
<1>1. Init => DueInv
  <2> SUFFICES ASSUME Init PROVE DueInv
    OBVIOUS
  <2>1. IsSeq(<<>>) /\ Len(<<>>) = 0
    BY DEF IsSeq, Range
  <2>2. run.pc = "idle"
    BY DEF Init, Idle
  <2> QED BY <2>1, <2>2, PayoutAssumption
          DEF Init, DueInv, Shape, Walking, BooksPlanned, RunWalked, ExitWalked
<1>2. DueInv /\ [Next]_vars => DueInv'
  <2> SUFFICES ASSUME DueInv, [Next]_vars PROVE DueInv'
    OBVIOUS
  <2>1. Shape' /\ (Untouched' => Untouched)
    BY ShapeStep DEF DueInv
  <2>2. ASSUME Untouched' PROVE Walking'
    <3>1. Shape /\ Walking
      BY <2>1, <2>2 DEF DueInv
    <3>2. Onward
      BY <2>2, <3>1, StepOnward
    <3> QED BY <3>1, <3>2, BooksStep, RunStep, ExitsWalked DEF Walking
  <2> QED BY <2>1, <2>2 DEF DueInv
<1>3. DueInv => DueExitTruthful
  <2> SUFFICES ASSUME DueInv, exit # None, exit.rc = 0, Untouched, NEW w \in 0..(exit.n - 1)
               PROVE  PaidAsPlanned(Week(w), WeekPlan(w, published), WeekPlan(w, published))
    BY DEF DueExitTruthful, Untouched
  <2> DEFINE p == WeekPlan(w, published)
  <2>1. Parts(p) \subseteq PartsDone(w)
    BY DEF DueInv, Walking, ExitWalked, Walked
  <2>2. ASSUME NEW t \in Done(Week(w))
        PROVE  t.plan = p /\ t.part \in Parts(p) /\ t.sends = Sends(p, t.part)
    <3>1. t.of = Week(w) /\ t.of[1] = "week" /\ t \in Range(executed)
      BY <2>2 DEF Done, Week
    <3>2. AsPlanned(t)
      BY <3>1, ExecutedDomain DEF Range, DueInv, Shape, Walking, BooksPlanned
    <3>3. PICK v \in Nat :
            /\ t.of = Week(v) /\ t.plan = WeekPlan(v, published)
            /\ t.part \in Parts(t.plan) /\ t.sends = Sends(t.plan, t.part)
      BY <3>1, <3>2 DEF AsPlanned
    <3>4. v = w
      BY <3>1, <3>3 DEF Week
    <3> QED BY <3>3, <3>4
  <2> HIDE DEF p
  <2>3. {t.part : t \in Done(Week(w))} = Parts(p)
    BY <2>1, <2>2 DEF PartsDone
  <2>4. PaidAsPlanned(Week(w), p, p)
    BY <2>2, <2>3 DEF PaidAsPlanned
  <2> QED BY <2>4 DEF p
<1> QED BY <1>1, <1>2, <1>3, PTL DEF Spec

-----------------------------------------------------------------------------
(* What the service ranks the payer accepts                                 *)

LEMMA TotalIsSum ==
  ASSUME NEW f
  PROVE  Total(f) = SumOf(f, DOMAIN f) /\ Sum(f) = SumOf(f, DOMAIN f)
BY DEF Total, Sum, FoldFunction, FoldFunctionOnSet, MapThenFoldSet, SumOf, SumsTo, Pick

LEMMA ProductNat ==
  ASSUME NEW a \in Nat, NEW b \in Nat
  PROVE  a * b \in Nat
OBVIOUS

LEMMA DivNat ==
  ASSUME NEW a \in Nat, NEW b \in Nat \ {0}
  PROVE  a \div b \in Nat /\ (a \div b) * b <= a
OBVIOUS

(* What an identity earned is never negative.                               *)
LEMMA GrossNat ==
  ASSUME NEW facts \in DayFacts, NEW m \in DOMAIN facts, NEW r \in SetType
  PROVE  GrossOf(facts[m], r) \in Nat /\ PayableOf(facts[m], r) \in Nat
<1> DEFINE f == facts[m]
<1>1. f.presence \in Int /\ f.verified \in Int /\ f.verdicts \in Int /\ f.judge \in Nat
  BY FactsAssumption
<1>2. /\ r.work \in Nat /\ r.presence \in Nat /\ r.windows \in Nat /\ r.juror \in Nat
      /\ r.judge \in Nat /\ r.probation \in Nat
  BY DEF SetType
<1> HIDE DEF f
<1>3. PresencePaid(f, r) \in Nat /\ Floored(f.verified) \in Nat /\ Floored(f.verdicts) \in Nat
  BY <1>1, <1>2 DEF PresencePaid, Floored, Least
<1>4. /\ PresencePaid(f, r) * r.presence \in Nat /\ Floored(f.verified) * r.work \in Nat
      /\ Floored(f.verdicts) * r.juror \in Nat /\ f.judge * r.judge \in Nat
  BY <1>1, <1>2, <1>3, ProductNat
<1> DEFINE g == PresencePaid(f, r) * r.presence + Floored(f.verified) * r.work
                  + Floored(f.verdicts) * r.juror + (IF r.kit THEN f.judge * r.judge ELSE 0)
<1>5. g \in Nat
  BY <1>4
<1>6. GrossOf(f, r) = IF r.kit /\ f.probation THEN (g * r.probation) \div 10000 ELSE g
  BY DEF GrossOf
<1> HIDE DEF g
<1>7. (g * r.probation) \div 10000 \in Nat
  <2>1. g * r.probation \in Nat
    BY <1>2, <1>5, ProductNat
  <2> QED BY <2>1, DivNat
<1>8. GrossOf(f, r) \in Nat
  BY <1>5, <1>6, <1>7
<1>9. PayableOf(f, r) \in Nat
  BY <1>8 DEF PayableOf
<1> QED BY <1>8, <1>9 DEF f

LEMMA Cancel ==
  ASSUME NEW a \in Nat, NEW b \in Nat, NEW t \in Nat \ {0}, a * t <= b * t
  PROVE  a <= b
<1> SUFFICES ASSUME a >= b + 1 PROVE FALSE
  OBVIOUS
<1>1. PICK d \in Nat : a = b + 1 + d
  <2>1. a - (b + 1) \in Nat /\ a = b + 1 + (a - (b + 1))
    OBVIOUS
  <2> QED BY <2>1
<1>2. a * t = b * t + t + d * t
  BY <1>1
<1>3. d * t \in Nat /\ b * t \in Nat
  BY ProductNat
<1> QED BY <1>2, <1>3

(* The shares of a budget, rounded down, are within it.                     *)
LEMMA SharesWithin ==
  ASSUME NEW D, IsFiniteSet(D), NEW p \in [D -> Nat], NEW b \in Nat,
         NEW s, s = [m \in D |-> Share(p[m], Total(p), b)]
  PROVE  s \in [D -> Nat] /\ Total(s) \in Nat /\ Total(s) <= b
<1> DEFINE t == Total(p)
<1>1. t = SumOf(p, D) /\ t \in Nat
  <2>1. t = SumOf(p, D)
    BY TotalIsSum
  <2> QED BY <2>1, SumOfType
<1> HIDE DEF t
<1>2. Total(s) = SumOf(s, D)
  BY TotalIsSum
<1>3. CASE t <= b
  <2>1. \A m \in D : s[m] = p[m]
    BY <1>1, <1>3 DEF Share, t
  <2>2. SumOf(s, D) = SumOf(p, D)
    BY <2>1, SumOfSame
  <2> QED BY <1>1, <1>2, <1>3, <2>1, <2>2
<1>4. CASE t > b
  <2>0. t \in Nat \ {0}
    BY <1>1, <1>4
  <2>1. \A m \in D : s[m] = (p[m] * b) \div t
    BY <1>1, <1>4 DEF Share, t
  <2>2. ASSUME NEW m \in D
        PROVE  s[m] \in Nat /\ s[m] * t <= p[m] * b /\ p[m] * b \in Nat
    <3>1. p[m] * b \in Nat
      BY ProductNat
    <3>2. PICK x \in Nat : x = p[m] * b
      BY <3>1
    <3> QED BY <2>0, <2>1, <3>1, <3>2, DivNat
  <2> DEFINE f == [m \in D |-> s[m] * t]
             g == [m \in D |-> p[m] * b]
  <2>3. SumOf(f, D) = SumOf(s, D) * t
    <3>1. \A m \in D : s[m] \in Int /\ f[m] = s[m] * t
      BY <2>2
    <3> HIDE DEF f
    <3> QED BY <2>0, <3>1, SumOfScaled
  <2>4. SumOf(g, D) = t * b
    <3>1. \A m \in D : p[m] \in Int /\ g[m] = p[m] * b
      OBVIOUS
    <3> HIDE DEF g
    <3> QED BY <1>1, <3>1, SumOfScaled
  <2>5. SumOf(f, D) <= SumOf(g, D)
    <3>1. \A m \in D : f[m] \in Int /\ g[m] \in Int /\ f[m] <= g[m]
      <4> SUFFICES ASSUME NEW m \in D PROVE f[m] \in Int /\ g[m] \in Int /\ f[m] <= g[m]
        OBVIOUS
      <4>1. s[m] * t \in Nat
        BY <2>0, <2>2, ProductNat
      <4> QED BY <2>2, <4>1
    <3> HIDE DEF f, g
    <3> QED BY <3>1, SumOfAtMost
  <2> HIDE DEF f, g
  <2>6. SumOf(s, D) \in Nat
    BY <2>2, SumOfType
  <2>7. SumOf(s, D) * t <= b * t
    BY <1>1, <2>3, <2>4, <2>5
  <2>8. SumOf(s, D) <= b
    BY <2>0, <2>6, <2>7, Cancel
  <2> QED BY <1>2, <2>2, <2>6, <2>8
<1> QED BY <1>1, <1>3, <1>4

(* What is paid before a day is a running sum.                              *)
LEMMA PaidPrefix ==
  ASSUME NEW s, NEW u, NEW n \in Nat, \A i \in 1..n : s[i] = u[i]
  PROVE  PaidBefore(s, n) = PaidBefore(u, n)
<1>1. [i \in 1..n |-> Total(s[i].paid)] = [i \in 1..n |-> Total(u[i].paid)]
  OBVIOUS
<1> QED BY <1>1 DEF PaidBefore

LEMMA PaidRuns ==
  ASSUME NEW s, NEW n \in Nat, \A i \in 1..n : Total(s[i].paid) \in Nat
  PROVE  /\ PaidBefore(s, n) \in Nat /\ PaidBefore(s, 0) = 0
         /\ n > 0 => PaidBefore(s, n) = PaidBefore(s, n - 1) + Total(s[n].paid)
<1> DEFINE f(k) == [i \in 1..k |-> Total(s[i].paid)]
<1>1. \A k \in Nat : PaidBefore(s, k) = SumOf(f(k), 1..k)
  <2> SUFFICES ASSUME NEW k \in Nat PROVE PaidBefore(s, k) = SumOf(f(k), 1..k)
    OBVIOUS
  <2>1. PaidBefore(s, k) = Total(f(k)) /\ DOMAIN f(k) = 1..k
    BY DEF PaidBefore, Total
  <2> HIDE DEF f
  <2> QED BY <2>1, TotalIsSum
<1>2. \A k \in Nat : IsFiniteSet(1..k)
  BY FS_Interval
<1>3. \A i \in 1..n : f(n)[i] \in Nat
  OBVIOUS
<1>4. PaidBefore(s, n) \in Nat
  <2> DEFINE g == f(n)
  <2>1. PaidBefore(s, n) = SumOf(g, 1..n) /\ (\A i \in 1..n : g[i] \in Nat) /\ IsFiniteSet(1..n)
    BY <1>1, <1>2, <1>3
  <2> HIDE DEF g
  <2> QED BY <2>1, SumOfType
<1>5. PaidBefore(s, 0) = 0
  <2> HIDE DEF f
  <2>1. PaidBefore(s, 0) = SumOf(f(0), 1..0) /\ 1..0 = {}
    BY <1>1
  <2>2. SumOf(f(0), {}) = 0
    BY SumOfStep, FS_EmptySet
  <2> QED BY <2>1, <2>2
<1>6. ASSUME n > 0 PROVE PaidBefore(s, n) = PaidBefore(s, n - 1) + Total(s[n].paid)
  <2> DEFINE g == f(n)
             h == f(n - 1)
             S == 1..n
             U == 1..(n - 1)
  <2>1. n - 1 \in Nat /\ n \in S /\ S \ {n} = U
    BY <1>6
  <2>2. /\ PaidBefore(s, n) = SumOf(g, S) /\ PaidBefore(s, n - 1) = SumOf(h, U)
        /\ IsFiniteSet(S) /\ IsFiniteSet(U)
    BY <1>1, <1>2, <2>1
  <2>3. /\ (\A i \in S : g[i] \in Int) /\ (\A i \in U : g[i] \in Int /\ h[i] = g[i])
        /\ g[n] = Total(s[n].paid)
    BY <1>6, <2>1
  <2> HIDE DEF f, g, h, S, U
  <2>4. SumOf(g, S) = g[n] + SumOf(g, S \ {n})
    BY <2>1, <2>2, <2>3, SumOfRemove
  <2>5. SumOf(h, U) = SumOf(g, U)
    BY <2>2, <2>3, SumOfSame
  <2>6. SumOf(h, U) \in Int /\ g[n] \in Int
    <3>1. \A i \in U : h[i] \in Int
      BY <2>3
    <3> QED BY <2>1, <2>2, <2>3, <3>1, SumOfType
  <2>7. SumOf(g, S) = g[n] + PaidBefore(s, n - 1)
    BY <2>1, <2>2, <2>4, <2>5
  <2>8. PaidBefore(s, n - 1) \in Int
    BY <2>2, <2>6
  <2> QED BY ONLY <2>2, <2>3, <2>6, <2>7, <2>8
<1> QED BY <1>4, <1>5, <1>6

(* The set of a day is one of the sets, and later days have later sets.     *)
LEMMA RulesNumber ==
  ASSUME NEW d \in Nat
  PROVE  /\ RulesForDay(d, From) \in 1..Len(RuleSets)
         /\ \A c \in Nat : c <= d => RulesForDay(c, From) <= RulesForDay(d, From)
<1> DEFINE L == Len(RuleSets)
           S(c) == {1} \cup {i \in 2..L : From[i] # NoDay /\ c >= From[i]}
<1>1. L \in Nat /\ L >= 1
  BY RuleSetsAssumption, FromAssumption
<1> HIDE DEF L
<1>2. ASSUME NEW T, T \subseteq 1..L, 1 \in T
      PROVE  Max(T) \in T /\ \A y \in T : Max(T) >= y
  <2> DEFINE R == {L - y : y \in T}
  <2>1. R \subseteq Nat /\ R # {}
    BY <1>1, <1>2
  <2>2. Min(R) \in R /\ \A z \in R : Min(R) <= z
    <3> HIDE DEF R
    <3> QED BY <2>1, LeastElement
  <2>3. PICK x \in T : Min(R) = L - x
    BY <2>2
  <2>4. \A y \in T : L - x <= L - y
    BY <2>2, <2>3
  <2>5. \A y \in T : x >= y
    BY <1>1, <1>2, <2>4
  <2> QED BY <2>5 DEF Max
<1>3. \A c \in Nat : RulesForDay(c, From) = Max(S(c)) /\ S(c) \subseteq 1..L /\ 1 \in S(c)
  BY <1>1 DEF RulesForDay, L
<1>4. ASSUME NEW c \in Nat, c <= d PROVE S(c) \subseteq S(d)
  <2> SUFFICES ASSUME NEW i \in 2..L, From[i] # NoDay, c >= From[i] PROVE d >= From[i]
    OBVIOUS
  <2>1. From[i] \in Nat
    BY <1>1, FromAssumption DEF L
  <2> QED BY <1>4, <2>1
<1> HIDE DEF S
<1>5. \A c \in Nat : Max(S(c)) \in S(c) /\ \A y \in S(c) : Max(S(c)) >= y
  BY <1>2, <1>3
<1>6. RulesForDay(d, From) \in 1..L
  BY <1>3, <1>5
<1>7. ASSUME NEW c \in Nat, c <= d PROVE RulesForDay(c, From) <= RulesForDay(d, From)
  <2>1. Max(S(c)) \in S(d)
    BY <1>4, <1>5, <1>7
  <2>2. Max(S(d)) >= Max(S(c)) /\ Max(S(c)) \in Int /\ Max(S(d)) \in Int
    BY <1>3, <1>5, <1>7, <2>1
  <2> QED BY <1>3, <1>7, <2>2
<1> QED BY <1>6, <1>7 DEF L

(* A day as compute_day makes it.                                           *)
DayFollows(d, day, k, facts, before) ==
  /\ d.day = day /\ d.set = k /\ d.facts = facts
  /\ d.budget = Budget(RuleSets[k], before) /\ d.budget \in Nat
  /\ d.budget <= RuleSets[k].capSeason - before \/ d.budget = 0
  /\ RowsFollow(d, RuleSets[k])
  /\ d.paid \in [DOMAIN facts -> Nat]
  /\ Total(d.paid) \in Nat /\ Total(d.paid) <= d.budget
  /\ RuleSets[k].capSeason \in Nat

LEMMA ComputedDay ==
  ASSUME NEW day, NEW k \in 1..Len(RuleSets), NEW facts \in DayFacts, NEW before \in Nat
  PROVE  DayFollows(ComputeDay(day, k, facts, before), day, k, facts, before)
<1> DEFINE d == ComputeDay(day, k, facts, before)
           r == RuleSets[k]
           p == [m \in DOMAIN facts |-> PayableOf(facts[m], r)]
           b == Budget(r, before)
           s == [m \in DOMAIN facts |-> Share(p[m], Total(p), b)]
<1>1. r \in SetType
  BY RuleSetsAssumption
<1>2. r.capDay \in Nat /\ r.capSeason \in Nat
  BY <1>1 DEF SetType
<1>3. d = [day |-> day, set |-> k, facts |-> facts, budget |-> b,
           gross |-> [m \in DOMAIN facts |-> GrossOf(facts[m], r)], payable |-> p, paid |-> s]
  BY DEF ComputeDay
<1>4. b \in Nat /\ (b <= r.capSeason - before \/ b = 0)
  BY <1>2 DEF Budget, Floored, Least
<1>5. IsFiniteSet(DOMAIN facts)
  BY FactsAssumption, PayoutAssumption, FS_Subset
<1>6. p \in [DOMAIN facts -> Nat]
  BY <1>1, GrossNat
<1> HIDE DEF d, r, p, b
<1>7. s \in [DOMAIN facts -> Nat] /\ Total(s) \in Nat /\ Total(s) <= b
  <2> DEFINE D == DOMAIN facts
  <2>1. /\ IsFiniteSet(D) /\ p \in [D -> Nat] /\ b \in Nat
        /\ s = [m \in D |-> Share(p[m], Total(p), b)]
    BY <1>4, <1>5, <1>6
  <2> HIDE DEF s, D
  <2>2. s \in [D -> Nat] /\ Total(s) \in Nat /\ Total(s) <= b
    BY ONLY <2>1, SharesWithin
  <2> QED BY <2>2 DEF D
<1> DEFINE g == [m \in DOMAIN facts |-> GrossOf(facts[m], r)]
<1>8. /\ d.day = day /\ d.set = k /\ d.facts = facts /\ d.budget = b /\ d.paid = s
      /\ d.gross = g /\ d.payable = p
  BY <1>3
<1>9. ASSUME NEW m \in DOMAIN d.facts
      PROVE  /\ d.gross[m] = GrossOf(d.facts[m], r)
             /\ d.payable[m] = PayableOf(d.facts[m], r)
             /\ d.paid[m] = Share(d.payable[m], Total(d.payable), d.budget)
  <2>1. m \in DOMAIN facts
    BY <1>8, <1>9
  <2>2. /\ g[m] = GrossOf(facts[m], r) /\ p[m] = PayableOf(facts[m], r)
        /\ s[m] = Share(p[m], Total(p), b)
    BY <2>1 DEF p
  <2> HIDE DEF s, g
  <2> QED BY <1>8, <2>2
<1>10. RowsFollow(d, r)
  BY <1>9 DEF RowsFollow
<1> HIDE DEF s, g
<1> QED BY <1>2, <1>4, <1>7, <1>8, <1>10 DEF r, b, d, DayFollows

(* The published days as the service made them.                             *)
Computed(s, n) ==
  \E facts \in DayFacts :
    s[n] = ComputeDay(n - 1, RulesForDay(n - 1, From), facts, PaidBefore(s, n - 1))

Ranked(s) ==
  IsSeq(s) /\ \A n \in 1..Len(s) : PaidBefore(s, n - 1) \in Nat /\ Computed(s, n)

SetOf(n) == RuleSets[RulesForDay(n - 1, From)]

(* The season's cap, at each day the cap of its set.                        *)
Capped(s) == \A n \in 1..Len(s) : PaidBefore(s, n) <= SetOf(n).capSeason

LEMMA RankedDay ==
  ASSUME NEW s, Ranked(s), NEW n \in 1..Len(s)
  PROVE  /\ s[n].day = n - 1 /\ s[n].set = RulesForDay(n - 1, From)
         /\ s[n].set \in 1..Len(RuleSets)
         /\ s[n].budget = Budget(SetOf(n), PaidBefore(s, n - 1))
         /\ s[n].budget <= SetOf(n).capSeason - PaidBefore(s, n - 1) \/ s[n].budget = 0
         /\ s[n].budget \in Nat /\ SetOf(n).capSeason \in Nat
         /\ RowsFollow(s[n], SetOf(n))
         /\ s[n].facts \in DayFacts /\ s[n].paid \in [DOMAIN s[n].facts -> Nat]
         /\ Total(s[n].paid) \in Nat /\ Total(s[n].paid) <= s[n].budget
<1>1. n - 1 \in Nat /\ PaidBefore(s, n - 1) \in Nat /\ Computed(s, n)
  BY AppendOK DEF Ranked
<1>2. PICK facts \in DayFacts :
        s[n] = ComputeDay(n - 1, RulesForDay(n - 1, From), facts, PaidBefore(s, n - 1))
  BY <1>1 DEF Computed
<1>3. RulesForDay(n - 1, From) \in 1..Len(RuleSets)
  BY <1>1, RulesNumber
<1> DEFINE d == s[n]
           k == RulesForDay(n - 1, From)
           before == PaidBefore(s, n - 1)
           c == n - 1
<1>4. d = ComputeDay(c, k, facts, before) /\ k \in 1..Len(RuleSets) /\ before \in Nat
  BY <1>1, <1>2, <1>3
<1> HIDE DEF d, k, before, c
<1>5. DayFollows(d, c, k, facts, before)
  BY <1>4, ComputedDay
<1>6. d.facts = facts
  BY <1>5 DEF DayFollows
<1> QED BY <1>4, <1>5, <1>6 DEF DayFollows, d, k, before, c, SetOf

LEMMA RankedSums ==
  ASSUME NEW s, Ranked(s)
  PROVE  /\ Len(s) \in Nat /\ PaidBefore(s, 0) = 0
         /\ \A n \in 0..Len(s) : PaidBefore(s, n) \in Nat
         /\ \A n \in 1..Len(s) : PaidBefore(s, n) = PaidBefore(s, n - 1) + Total(s[n].paid)
<1>1. Len(s) \in Nat
  BY AppendOK DEF Ranked
<1>2. \A i \in 1..Len(s) : Total(s[i].paid) \in Nat
  BY RankedDay
<1>3. ASSUME NEW n \in 0..Len(s)
      PROVE  /\ PaidBefore(s, n) \in Nat
             /\ n > 0 => PaidBefore(s, n) = PaidBefore(s, n - 1) + Total(s[n].paid)
  <2>1. n \in Nat /\ \A i \in 1..n : Total(s[i].paid) \in Nat
    BY <1>1, <1>2
  <2> QED BY <2>1, PaidRuns
<1>4. PaidBefore(s, 0) = 0
  <2>1. \A i \in 1..0 : Total(s[i].paid) \in Nat
    OBVIOUS
  <2> QED BY <2>1, PaidRuns
<1> QED BY <1>1, <1>3, <1>4

LEMMA RankedSame ==
  ASSUME NEW s, NEW u, NEW n \in Nat \ {0}, \A i \in 1..n : u[i] = s[i],
         PaidBefore(s, n - 1) \in Nat, Computed(s, n)
  PROVE  PaidBefore(u, n - 1) \in Nat /\ Computed(u, n)
<1>1. n - 1 \in Nat /\ \A i \in 1..(n - 1) : u[i] = s[i]
  OBVIOUS
<1>2. PaidBefore(u, n - 1) = PaidBefore(s, n - 1)
  BY <1>1, PaidPrefix
<1>3. u[n] = s[n]
  OBVIOUS
<1> QED BY <1>2, <1>3 DEF Computed

LEMMA RankedPrefix ==
  ASSUME NEW s, Ranked(s), NEW k \in 0..Len(s)
  PROVE  LET u == SubSeq(s, 1, k) IN
         /\ Ranked(u) /\ Len(u) = k /\ \A i \in 1..k : u[i] = s[i]
<1> DEFINE u == SubSeq(s, 1, k)
           S == {s[i] : i \in 1..k}
<1>1. Len(s) \in Nat
  BY AppendOK DEF Ranked
<1>2. k \in Nat /\ k \in Int /\ \A i \in 1..k : s[i] \in S
  BY <1>1
<1> HIDE DEF S, u
<1>3. u \in Seq(S) /\ Len(u) = k /\ \A i \in 1..k : u[i] = s[i]
  <2>1. /\ u \in Seq(S) /\ Len(u) = (IF 1 <= k THEN k - 1 + 1 ELSE 0)
        /\ \A i \in 1..(k - 1 + 1) : u[i] = s[1 + i - 1]
    BY <1>2, SubSeqProperties DEF u
  <2>2. k - 1 + 1 = k /\ \A i \in 1..k : 1 + i - 1 = i
    BY <1>2
  <2> QED BY <1>2, <2>1, <2>2
<1>4. IsSeq(u)
  BY <1>3 DEF IsSeq, Range
<1>5. ASSUME NEW n \in 1..Len(u) PROVE PaidBefore(u, n - 1) \in Nat /\ Computed(u, n)
  <2>1. n \in Nat \ {0} /\ n \in 1..Len(s) /\ \A i \in 1..n : u[i] = s[i]
    BY <1>1, <1>2, <1>3
  <2>2. PaidBefore(s, n - 1) \in Nat /\ Computed(s, n)
    BY <2>1 DEF Ranked
  <2> QED BY <2>1, <2>2, RankedSame
<1> QED BY <1>3, <1>4, <1>5 DEF Ranked, u

LEMMA RankedAppend ==
  ASSUME NEW s, Ranked(s), NEW facts \in DayFacts, NEW x,
         x = ComputeDay(Len(s), RulesForDay(Len(s), From), facts, PaidBefore(s, Len(s)))
  PROVE  Ranked(Append(s, x))
<1> DEFINE u == Append(s, x)
           N == Len(s)
<1>1. /\ IsSeq(u) /\ N \in Nat /\ Len(u) = N + 1
      /\ (\A i \in 1..N : u[i] = s[i]) /\ u[N + 1] = x
  BY AppendOK DEF Ranked
<1> HIDE DEF u
<1>2. PaidBefore(s, N) \in Nat
  BY <1>1, RankedSums
<1>3. PaidBefore(u, N) = PaidBefore(s, N)
  BY <1>1, PaidPrefix
<1>4. ASSUME NEW n \in 1..N PROVE PaidBefore(u, n - 1) \in Nat /\ Computed(u, n)
  <2>1. n \in Nat \ {0} /\ \A i \in 1..n : u[i] = s[i]
    BY <1>1
  <2>2. PaidBefore(s, n - 1) \in Nat /\ Computed(s, n)
    BY DEF Ranked
  <2> QED BY <2>1, <2>2, RankedSame
<1>5. PaidBefore(u, N + 1 - 1) \in Nat /\ Computed(u, N + 1)
  <2>1. N + 1 - 1 = N
    BY <1>1
  <2>2. u[N + 1] = ComputeDay(N, RulesForDay(N, From), facts, PaidBefore(u, N))
    BY <1>1, <1>3
  <2> QED BY <1>2, <1>3, <2>1, <2>2 DEF Computed
<1>6. \A n \in 1..Len(u) : n \in 1..N \/ n = N + 1
  BY <1>1
<1>7. ASSUME NEW n \in 1..Len(u) PROVE PaidBefore(u, n - 1) \in Nat /\ Computed(u, n)
  BY <1>4, <1>5, <1>6
<1> QED BY <1>1, <1>7 DEF Ranked, u

(* The caps of the season only widen from a set to the next (RULE_HISTORY). *)
CapsWiden ==
  \A i, j \in 1..Len(RuleSets) : i <= j => RuleSets[i].capSeason <= RuleSets[j].capSeason

(* Within the budget of its day, what is paid stays within the cap.         *)
LEMMA CappedSame ==
  ASSUME CapsWiden, NEW s, Ranked(s), NEW n \in 1..Len(s),
         n > 1 => PaidBefore(s, n - 1) <= SetOf(n - 1).capSeason
  PROVE  PaidBefore(s, n) <= SetOf(n).capSeason
<1>1. Len(s) \in Nat /\ n \in Nat /\ n - 1 \in 0..Len(s)
  BY RankedSums
<1>2. /\ PaidBefore(s, n) = PaidBefore(s, n - 1) + Total(s[n].paid)
      /\ PaidBefore(s, n - 1) \in Nat /\ PaidBefore(s, 0) = 0
  BY <1>1, RankedSums
<1>3. /\ s[n].budget <= SetOf(n).capSeason - PaidBefore(s, n - 1) \/ s[n].budget = 0
      /\ s[n].budget \in Nat /\ SetOf(n).capSeason \in Nat
      /\ Total(s[n].paid) \in Nat /\ Total(s[n].paid) <= s[n].budget
  BY RankedDay
<1>4. PaidBefore(s, n - 1) <= SetOf(n).capSeason
  <2>1. CASE n = 1
    BY <1>2, <1>3, <2>1
  <2>2. CASE n > 1
    <3>1. /\ RulesForDay(n - 1 - 1, From) \in 1..Len(RuleSets)
          /\ RulesForDay(n - 1, From) \in 1..Len(RuleSets)
          /\ RulesForDay(n - 1 - 1, From) <= RulesForDay(n - 1, From)
      <4>1. n - 1 \in Nat /\ n - 1 - 1 \in Nat /\ n - 1 - 1 <= n - 1
        BY <1>1, <2>2
      <4> QED BY <4>1, RulesNumber
    <3>2. SetOf(n - 1).capSeason <= SetOf(n).capSeason
      BY <3>1 DEF CapsWiden, SetOf
    <3>3. SetOf(n - 1).capSeason \in Nat
      <4>1. SetOf(n - 1) \in SetType
        BY <3>1, RuleSetsAssumption DEF SetOf
      <4> QED BY <4>1 DEF SetType
    <3> QED BY <1>2, <1>3, <2>2, <3>2, <3>3
  <2> QED BY <1>1, <2>1, <2>2
<1> QED BY <1>2, <1>3, <1>4

LEMMA CappedPrefix ==
  ASSUME NEW s, NEW u, Capped(s), Len(u) \in 0..Len(s), Len(s) \in Nat,
         \A i \in 1..Len(u) : u[i] = s[i]
  PROVE  Capped(u)
<1> SUFFICES ASSUME NEW n \in 1..Len(u) PROVE PaidBefore(u, n) <= SetOf(n).capSeason
  BY DEF Capped
<1>1. n \in Nat /\ n \in 1..Len(s) /\ \A i \in 1..n : u[i] = s[i]
  OBVIOUS
<1>2. PaidBefore(u, n) = PaidBefore(s, n)
  BY <1>1, PaidPrefix
<1> QED BY <1>1, <1>2 DEF Capped

LEMMA CappedAppend ==
  ASSUME CapsWiden, NEW s, Ranked(s), Capped(s), NEW x, Ranked(Append(s, x))
  PROVE  Capped(Append(s, x))
<1> DEFINE u == Append(s, x)
           N == Len(s)
<1>1. N \in Nat /\ Len(u) = N + 1 /\ (\A i \in 1..N : u[i] = s[i])
  BY AppendOK DEF Ranked
<1>2. Ranked(u)
  OBVIOUS
<1> HIDE DEF u
<1>3. ASSUME NEW n \in 1..N PROVE PaidBefore(u, n) <= SetOf(n).capSeason
  <2>1. n \in Nat /\ \A i \in 1..n : u[i] = s[i]
    BY <1>1
  <2>2. PaidBefore(u, n) = PaidBefore(s, n)
    BY <2>1, PaidPrefix
  <2> QED BY <2>2 DEF Capped
<1>4. PaidBefore(u, N + 1) <= SetOf(N + 1).capSeason
  <2> DEFINE n == N + 1
  <2>1. n \in 1..Len(u) /\ (n > 1 => n - 1 \in 1..N)
    BY <1>1
  <2>2. n > 1 => PaidBefore(u, n - 1) <= SetOf(n - 1).capSeason
    BY <1>3, <2>1
  <2> HIDE DEF n
  <2>3. PaidBefore(u, n) <= SetOf(n).capSeason
    BY <1>2, <2>1, <2>2, CappedSame
  <2> QED BY <2>3 DEF n
<1>5. \A n \in 1..Len(u) : n \in 1..N \/ n = N + 1
  BY <1>1
<1> QED BY <1>3, <1>4, <1>5 DEF Capped, u

RankInv == Ranked(published) /\ Capped(published)

LEMMA RankPublish ==
  ASSUME CapsWiden, RankInv, Publish
  PROVE  RankInv'
<1>1. Ranked(published) /\ Capped(published)
  BY DEF RankInv
<1>2. PICK facts \in DayFacts :
        published' = Append(published, Budgeted(Len(published), facts, published))
  BY DEF Publish
<1> DEFINE x == Budgeted(Len(published), facts, published)
<1>3. x = ComputeDay(Len(published), RulesForDay(Len(published), From), facts,
                     PaidBefore(published, Len(published)))
  BY DEF Budgeted
<1>4. published' = Append(published, x)
  BY <1>2
<1> HIDE DEF x
<1>5. Ranked(Append(published, x))
  BY <1>1, <1>3, RankedAppend
<1>6. Capped(Append(published, x))
  BY <1>1, <1>5, CappedAppend
<1>7. Ranked(published') /\ Capped(published')
  BY <1>4, <1>5, <1>6
<1> QED BY <1>7 DEF RankInv, Ranked, Capped, Computed

LEMMA RankRepublish ==
  ASSUME CapsWiden, RankInv, Republish
  PROVE  RankInv'
<1>1. Ranked(published) /\ Capped(published) /\ Len(published) \in Nat
  BY RankedSums DEF RankInv
<1>2. PICK n \in 1..Len(published) :
        \/ published' = SubSeq(published, 1, n - 1)
        \/ \E facts \in DayFacts :
             published' = Append(SubSeq(published, 1, n - 1), Budgeted(n - 1, facts, published))
  BY DEF Republish
<1> DEFINE u == SubSeq(published, 1, n - 1)
           k == n - 1
<1>3. k \in 0..Len(published) /\ k \in Nat
  BY <1>1
<1>4. Ranked(u) /\ Len(u) = k /\ \A i \in 1..k : u[i] = published[i]
  <2> HIDE DEF k
  <2>1. LET v == SubSeq(published, 1, k) IN
          Ranked(v) /\ Len(v) = k /\ \A i \in 1..k : v[i] = published[i]
    BY <1>1, <1>3, RankedPrefix
  <2> QED BY <2>1 DEF k
<1>5. \/ published' = u
      \/ \E facts \in DayFacts : published' = Append(u, Budgeted(k, facts, published))
  BY <1>2
<1> HIDE DEF u, k
<1>6. Capped(u)
  BY <1>1, <1>3, <1>4, CappedPrefix
<1>7. PaidBefore(published, k) = PaidBefore(u, k)
  BY <1>3, <1>4, PaidPrefix
<1>8. ASSUME NEW facts \in DayFacts, published' = Append(u, Budgeted(k, facts, published))
      PROVE  Ranked(published') /\ Capped(published')
  <2> DEFINE x == Budgeted(k, facts, published)
  <2>1. x = ComputeDay(Len(u), RulesForDay(Len(u), From), facts, PaidBefore(u, Len(u)))
    BY <1>4, <1>7 DEF Budgeted
  <2>2. published' = Append(u, x)
    BY <1>8
  <2> HIDE DEF x
  <2>3. Ranked(Append(u, x))
    BY <1>4, <2>1, RankedAppend
  <2>4. Capped(Append(u, x))
    BY <1>4, <1>6, <2>3, CappedAppend
  <2> QED BY <2>2, <2>3, <2>4
<1>9. Ranked(published') /\ Capped(published')
  BY <1>4, <1>5, <1>6, <1>8
<1> QED BY <1>9 DEF RankInv, Ranked, Capped, Computed

LEMMA RankStep ==
  ASSUME CapsWiden, RankInv, [Next]_vars
  PROVE  RankInv'
<1>1. CASE Publish
  BY <1>1, RankPublish
<1>2. CASE Republish
  BY <1>2, RankRepublish
<1>3. CASE UNCHANGED published
  BY <1>3 DEF RankInv, Ranked, Capped, Computed
<1>4. Publish \/ Republish \/ UNCHANGED published
  BY DEF Next, vars, rankVars, InPayer, PlanAmendment, Freeze, Unfreeze, StartDue, StartManual,
         Payer, PlanNotRanked, PlanWeek, PlanAmend, Search, Send, PollFound, PollTimeout, Crash,
         Land, Forget
<1> QED BY <1>1, <1>2, <1>3, <1>4

(* The sets with the doubled rates start at the day the payer is told.      *)
DoublingNamed ==
  \A d \in Nat : (RulesForDay(d, From) \in Doubled) = (DoubledFrom # NoDay /\ d >= DoubledFrom)

LEMMA RankAccepted ==
  ASSUME CapsWiden, DoublingNamed, RankInv
  PROVE  RankingsAccepted
<1> DEFINE s == published
<1>1. Ranked(s) /\ Capped(s) /\ Len(s) \in Nat
  BY RankedSums DEF RankInv
<1> HIDE DEF s
<1>2. ASSUME NEW n \in 1..Len(s)
      PROVE  /\ s[n].day = n - 1
             /\ n > 1 => s[n - 1].set <= s[n].set
             /\ RowsFollow(s[n], RuleSets[s[n].set])
             /\ s[n].budget = Budget(RuleSets[s[n].set], PaidBefore(s, n - 1))
             /\ Total(s[n].paid) <= s[n].budget
             /\ PaidBefore(s, n) <= RuleSets[s[n].set].capSeason
             /\ (s[n].set \in Doubled) = (DoubledFrom # NoDay /\ n - 1 >= DoubledFrom)
  <2>1. /\ s[n].day = n - 1 /\ s[n].set = RulesForDay(n - 1, From)
        /\ s[n].budget = Budget(SetOf(n), PaidBefore(s, n - 1))
        /\ RowsFollow(s[n], SetOf(n))
        /\ Total(s[n].paid) <= s[n].budget
    BY <1>1, RankedDay
  <2>2. SetOf(n) = RuleSets[s[n].set]
    BY <2>1 DEF SetOf
  <2>3. PaidBefore(s, n) <= SetOf(n).capSeason
    BY <1>1 DEF Capped
  <2>4. (s[n].set \in Doubled) = (DoubledFrom # NoDay /\ n - 1 >= DoubledFrom)
    <3>1. n - 1 \in Nat
      BY <1>1
    <3> QED BY <2>1, <3>1 DEF DoublingNamed
  <2>5. ASSUME n > 1 PROVE s[n - 1].set <= s[n].set
    <3> DEFINE m == n - 1
    <3>1. m \in 1..Len(s) /\ m - 1 \in Nat /\ n - 1 \in Nat /\ m - 1 <= n - 1
      BY <1>1, <2>5
    <3> HIDE DEF m
    <3>2. s[m].set = RulesForDay(m - 1, From)
      BY <1>1, <3>1, RankedDay
    <3>3. RulesForDay(m - 1, From) <= RulesForDay(n - 1, From)
      BY <3>1, RulesNumber
    <3>4. s[m].set <= s[n].set
      BY <2>1, <3>2, <3>3
    <3> QED BY <3>4 DEF m
  <2> QED BY <2>1, <2>2, <2>3, <2>4, <2>5
<1>3. CheckDays(s)
  BY <1>2 DEF CheckDays
<1>4. CheckDoubledFrom(s, Doubled, DoubledFrom)
  BY <1>2 DEF CheckDoubledFrom
<1> QED BY <1>3, <1>4 DEF RankingsAccepted, DaysRefused, s

LEMMA RankInit == Init => RankInv
<1> SUFFICES ASSUME Init PROVE RankInv
  OBVIOUS
<1>1. published = <<>>
  BY DEF Init
<1>2. <<>> \in Seq(Range(<<>>)) /\ Len(<<>>) = 0
  OBVIOUS
<1> QED BY <1>1, <1>2 DEF RankInv, Ranked, Capped, IsSeq

(* The payer accepts every ranking the service publishes or publishes again *)
(* (compute_day, check_days, check_doubled_from), if the season's cap only  *)
(* widens from a rule set to the next and the payer is told the day the     *)
(* doubled rates start.                                                     *)
THEOREM Accepted == CapsWiden /\ DoublingNamed => (Spec => []RankingsAccepted)
<1>1. ASSUME CapsWiden, DoublingNamed PROVE Spec => []RankingsAccepted
  <2>1. RankInv /\ [Next]_vars => RankInv'
    BY <1>1, RankStep
  <2>2. RankInv => RankingsAccepted
    BY <1>1, RankAccepted
  <2> QED BY RankInit, <2>1, <2>2, PTL DEF Spec
<1> QED BY <1>1

-----------------------------------------------------------------------------
(* The shape of the state                                                   *)

(* Each sequence number went to one transaction, and the numbers ran out in *)
(* order.                                                                   *)
TallyInv ==
  /\ IsFiniteSet(failed) /\ Len(executed) + Cardinality(failed) = seq
  /\ \A t \in failed : t.seq \in Nat /\ t.seq < seq
  /\ \A i \in 1..Len(executed) : \A j \in 1..(i - 1) : executed[j].seq < executed[i].seq
  /\ \A t \in failed : \A i \in 1..Len(executed) : executed[i].seq # t.seq

LEMMA TallyLand ==
  ASSUME IInv, TallyInv, Land
  PROVE  TallyInv'
<1>1. PICK t \in pending, ok \in BOOLEAN :
        /\ executed' = IF ok THEN Append(executed, t.tx) ELSE executed
        /\ failed' = IF ok THEN failed ELSE failed \cup {t.tx}
  BY DEF Land
<1>2. /\ seq' = seq + 1 /\ t.tx.seq = seq /\ seq \in Nat /\ IsSeq(executed)
      /\ Len(executed) \in Nat
  BY ExecutedDomain DEF Land, IInv, PendingOK, SequencesOK
<1>3. \A i \in 1..Len(executed) : executed[i].seq \in Nat /\ executed[i].seq < seq
  BY DEF IInv, ExecutedOK
<1>4. /\ IsFiniteSet(failed) /\ Len(executed) + Cardinality(failed) = seq
      /\ \A x \in failed : x.seq \in Nat /\ x.seq < seq
      /\ \A i \in 1..Len(executed) : \A j \in 1..(i - 1) : executed[j].seq < executed[i].seq
      /\ \A x \in failed : \A i \in 1..Len(executed) : executed[i].seq # x.seq
  BY DEF TallyInv
<1>5. CASE ok
  <2>1. /\ failed' = failed /\ Len(executed') = Len(executed) + 1
        /\ \A i \in 1..Len(executed) : executed'[i] = executed[i]
        /\ executed'[Len(executed) + 1] = t.tx
    BY <1>1, <1>2, <1>5, AppendOK
  <2>2. \A i \in 1..Len(executed') : i \in 1..Len(executed) \/ i = Len(executed) + 1
    BY <1>2, <2>1
  <2>3. \A i \in 1..Len(executed') : \A j \in 1..(i - 1) : executed'[j].seq < executed'[i].seq
    <3> SUFFICES ASSUME NEW i \in 1..Len(executed'), NEW j \in 1..(i - 1)
                 PROVE  executed'[j].seq < executed'[i].seq
      OBVIOUS
    <3>1. j \in 1..Len(executed) /\ executed'[j] = executed[j]
      BY <1>2, <2>1
    <3>2. CASE i \in 1..Len(executed)
      BY <1>4, <2>1, <3>1, <3>2
    <3>3. CASE i = Len(executed) + 1
      BY <1>2, <1>3, <2>1, <3>1, <3>3
    <3> QED BY <2>2, <3>2, <3>3
  <2>4. \A x \in failed' : \A i \in 1..Len(executed') : executed'[i].seq # x.seq
    <3> SUFFICES ASSUME NEW x \in failed, NEW i \in 1..Len(executed')
                 PROVE  executed'[i].seq # x.seq
      BY <2>1
    <3>1. CASE i \in 1..Len(executed)
      BY <1>4, <2>1, <3>1
    <3>2. CASE i = Len(executed) + 1
      BY <1>2, <1>4, <2>1, <3>2
    <3> QED BY <2>2, <3>1, <3>2
  <2>5. \A x \in failed' : x.seq \in Nat /\ x.seq < seq'
    <3> SUFFICES ASSUME NEW x \in failed PROVE x.seq \in Nat /\ x.seq < seq + 1
      BY <1>2, <2>1
    <3> QED BY <1>2, <1>4
  <2>6. Len(executed') + Cardinality(failed') = seq'
    <3>1. Cardinality(failed) \in Nat
      BY <1>4, FS_CardinalityType
    <3> QED BY <1>2, <1>4, <2>1, <3>1
  <2> QED BY <1>4, <2>1, <2>3, <2>4, <2>5, <2>6 DEF TallyInv
<1>6. CASE ~ ok
  <2>1. failed' = failed \cup {t.tx} /\ executed' = executed
    BY <1>1, <1>6
  <2>2. t.tx \notin failed
    BY <1>2, <1>4
  <2>3. IsFiniteSet(failed') /\ Cardinality(failed') = Cardinality(failed) + 1
    BY <1>4, <2>1, <2>2, FS_AddElement
  <2>4. Len(executed') + Cardinality(failed') = seq'
    <3>1. Cardinality(failed) \in Nat
      BY <1>4, FS_CardinalityType
    <3> QED BY <1>2, <1>4, <2>1, <2>3, <3>1
  <2>5. \A x \in failed' : x.seq \in Nat /\ x.seq < seq'
    <3> SUFFICES ASSUME NEW x \in failed' PROVE x.seq \in Nat /\ x.seq < seq + 1
      BY <1>2
    <3> QED BY <1>2, <1>4, <2>1
  <2>6. \A x \in failed' : \A i \in 1..Len(executed') : executed'[i].seq # x.seq
    <3> SUFFICES ASSUME NEW x \in failed', NEW i \in 1..Len(executed) PROVE executed[i].seq # x.seq
      BY <2>1
    <3> QED BY <1>2, <1>3, <1>4, <2>1
  <2> QED BY <1>4, <2>1, <2>3, <2>4, <2>5, <2>6 DEF TallyInv
<1> QED BY <1>5, <1>6

LEMMA TallyStep ==
  ASSUME IInv, TallyInv, [Next]_vars
  PROVE  TallyInv'
<1>1. CASE Land
  BY <1>1, TallyLand
<1>2. CASE UNCHANGED <<executed, failed, seq>>
  BY <1>2 DEF TallyInv
<1>3. Land \/ UNCHANGED <<executed, failed, seq>>
  BY DEF Next, vars, chainVars, InPayer, Publish, Republish, PlanAmendment, Freeze, Unfreeze,
         StartDue, StartManual, Payer, PlanNotRanked, PlanWeek, PlanAmend, Search, Send, PollFound,
         PollTimeout, Crash, Forget
<1> QED BY <1>1, <1>2, <1>3

LEMMA Shaped ==
  ASSUME IInv, TallyInv
  PROVE  TypeOK
<1>1. DOMAIN executed = 1..Len(executed)
  BY ExecutedDomain DEF IInv, SequencesOK
<1>2. /\ run.pc \in {"idle", "plan", "search", "send", "wait"}
      /\ run.pc \in {"send", "wait"} => run.todo # {} /\ run.todo \subseteq Parts(Amounts)
  BY DEF IInv, RunOK
<1>3. \A t \in pending : t.tx.seq = seq
  BY DEF IInv, PendingOK
<1>4. \A i \in DOMAIN executed : executed[i].seq < seq
  BY <1>1 DEF IInv, ExecutedOK
<1> QED BY <1>1, <1>2, <1>3, <1>4 DEF TypeOK, TallyInv

(* The rows of the documents carry what the rankings earned.                *)
PricesInv ==
  \A n \in AmendIds :
    /\ drafts[n] # None => \A r \in drafts[n] : r.amt \in Nat
    /\ frozen[n] # None => \A r \in frozen[n] : r.amt \in Nat

LEMMA UnprovenPriced ==
  ASSUME Ranked(published), NEW wanted \in SUBSET (1..Len(published)), NEW r \in Unproven(wanted)
  PROVE  r.amt \in Nat
<1>1. PICK d \in wanted : \E m \in Miners \cap DOMAIN published[d].facts : r = RowOf(d, m)
  BY DEF Unproven
<1>2. PICK m \in DOMAIN published[d].facts : r = RowOf(d, m)
  BY <1>1
<1>3. d \in 1..Len(published)
  OBVIOUS
<1>4. /\ published[d].facts \in DayFacts /\ RowsFollow(published[d], SetOf(d))
      /\ published[d].set = RulesForDay(d - 1, From) /\ published[d].set \in 1..Len(RuleSets)
  BY <1>3, RankedDay
<1>5. SetOf(d) \in SetType
  BY <1>4, RuleSetsAssumption DEF SetOf
<1>6. published[d].gross[m] = GrossOf(published[d].facts[m], SetOf(d))
  BY <1>4 DEF RowsFollow
<1>7. GrossOf(published[d].facts[m], SetOf(d)) \in Nat
  BY <1>4, <1>5, GrossNat
<1> QED BY <1>2, <1>6, <1>7 DEF RowOf

LEMMA PricesStep ==
  ASSUME DocumentsOK, Ranked(published), PricesInv, [Next]_vars
  PROVE  PricesInv'
<1>1. ASSUME NEW n \in AmendIds, PlanAmendment(n) \/ Freeze(n) \/ Unfreeze(n)
      PROVE  PricesInv'
  <2>0. DOMAIN drafts = AmendIds /\ DOMAIN frozen = AmendIds
    BY DEF DocumentsOK
  <2>1. CASE PlanAmendment(n)
    <3>0. PICK wanted \in SUBSET (1..Len(published)) :
            \E x \in SUBSET Unproven(wanted) : drafts' = [drafts EXCEPT ![n] = x]
      BY <2>1 DEF PlanAmendment
    <3>1. PICK proven \in SUBSET Unproven(wanted) : drafts' = [drafts EXCEPT ![n] = proven]
      BY <3>0
    <3>2. \A r \in proven : r.amt \in Nat
      BY UnprovenPriced
    <3>3. UNCHANGED frozen
      BY <2>1 DEF PlanAmendment
    <3> QED BY <2>0, <3>1, <3>2, <3>3 DEF PricesInv
  <2>2. CASE Freeze(n)
    BY <2>0, <2>2 DEF Freeze, PricesInv
  <2>3. CASE Unfreeze(n)
    BY <2>0, <2>3 DEF Unfreeze, PricesInv
  <2> QED BY <1>1, <2>1, <2>2, <2>3
<1>2. CASE UNCHANGED <<drafts, frozen>>
  BY <1>2 DEF PricesInv
<1>3. UNCHANGED <<drafts, frozen>> \/ \E n \in AmendIds : PlanAmendment(n) \/ Freeze(n) \/ Unfreeze(n)
  BY DEF Next, vars, amendVars, InPayer, Publish, Republish, StartDue, StartManual, Payer,
         PlanNotRanked, PlanWeek, PlanAmend, Search, Send, PollFound, PollTimeout, Crash, Land,
         Forget
<1> QED BY <1>1, <1>2, <1>3

-----------------------------------------------------------------------------
(* What a week's plan adds up to                                            *)

LEMMA OnlyOne ==
  ASSUME NEW S, IsFiniteSet(S), NEW f, NEW j \in S, f[j] \in Int, \A x \in S \ {j} : f[x] = 0
  PROVE  SumOf(f, S) = f[j]
<1>1. \A x \in S : f[x] \in Int
  OBVIOUS
<1>2. SumOf(f, S) = f[j] + SumOf(f, S \ {j})
  BY <1>1, SumOfRemove
<1>3. IsFiniteSet(S \ {j})
  BY FS_Subset
<1>4. SumOf(f, S \ {j}) = 0
  BY <1>3, SumOfZero
<1> QED BY <1>2, <1>4

(* The days of a week are consecutive.                                      *)
LEMMA WeekOfDays ==
  ASSUME NEW s, Len(s) \in Nat, NEW w \in Nat
  PROVE  LET m == w * DaysPerWeek
             n == Least(Len(s), (w + 1) * DaysPerWeek)
         IN  /\ Len(DaysOfWeek(w, s)) = (IF m + 1 <= n THEN n - m ELSE 0)
             /\ Len(DaysOfWeek(w, s)) \in Nat
             /\ \A k \in 1..Len(DaysOfWeek(w, s)) :
                  m + k \in 1..Len(s) /\ DaysOfWeek(w, s)[k] = s[m + k]
<1> DEFINE m == w * DaysPerWeek
           e == (w + 1) * DaysPerWeek
           n == Least(Len(s), e)
           days == DaysOfWeek(w, s)
           S == {s[i] : i \in (m + 1)..n}
<1>1. m \in Nat /\ e \in Nat
  BY PayoutAssumption
<1>2. days = SubSeq(s, m + 1, n)
  BY DEF DaysOfWeek
<1> HIDE DEF m, e, days
<1>3. n \in Nat /\ n <= Len(s)
  BY <1>1 DEF Least
<1> HIDE DEF n
<1>4. m + 1 \in Int /\ n \in Int /\ \A i \in (m + 1)..n : s[i] \in S
  BY <1>1, <1>3
<1> HIDE DEF S
<1>5. /\ Len(days) = (IF m + 1 <= n THEN n - (m + 1) + 1 ELSE 0)
      /\ \A i \in 1..(n - (m + 1) + 1) : days[i] = s[m + 1 + i - 1]
  BY <1>2, <1>4, SubSeqProperties
<1>6. Len(days) = (IF m + 1 <= n THEN n - m ELSE 0) /\ Len(days) \in Nat
  BY <1>1, <1>3, <1>5
<1>7. ASSUME NEW k \in 1..Len(days) PROVE m + k \in 1..Len(s) /\ days[k] = s[m + k]
  <2>1. k \in 1..(n - (m + 1) + 1) /\ m + 1 + k - 1 = m + k
    BY <1>1, <1>3, <1>6
  <2>2. m + k \in 1..Len(s)
    BY <1>1, <1>3, <1>6
  <2> QED BY <1>5, <2>1, <2>2
<1> QED BY <1>6, <1>7 DEF m, e, n, days

(* Days whose rows pay what may be counted.                                 *)
PaidDays(days) ==
  /\ Len(days) \in Nat
  /\ \A k \in 1..Len(days) : /\ DOMAIN days[k].facts \subseteq Miners
                             /\ days[k].paid \in [DOMAIN days[k].facts -> Nat]

LEMMA RankedPays ==
  ASSUME NEW s, Ranked(s)
  PROVE  PaidDays(s) /\ \A w \in Nat : PaidDays(DaysOfWeek(w, s))
<1>1. PaidDays(s)
  <2>1. Len(s) \in Nat
    BY RankedSums
  <2>2. \A k \in 1..Len(s) : s[k].facts \in DayFacts /\ s[k].paid \in [DOMAIN s[k].facts -> Nat]
    BY RankedDay
  <2> QED BY <2>1, <2>2, FactsAssumption DEF PaidDays
<1>2. ASSUME NEW w \in Nat PROVE PaidDays(DaysOfWeek(w, s))
  <2> DEFINE m == w * DaysPerWeek
             days == DaysOfWeek(w, s)
  <2>0. Len(s) \in Nat
    BY <1>1 DEF PaidDays
  <2>1. /\ Len(days) \in Nat
        /\ \A k \in 1..Len(days) : m + k \in 1..Len(s) /\ days[k] = s[m + k]
    BY <2>0, WeekOfDays
  <2> HIDE DEF m, days
  <2>2. PaidDays(days)
    BY <1>1, <2>1 DEF PaidDays
  <2> QED BY <2>2 DEF days
<1> QED BY <1>1, <1>2

(* The totals of a week share out what its days paid.                       *)
LEMMA WeekTotalsSum ==
  ASSUME NEW days, PaidDays(days)
  PROVE  /\ DOMAIN WeekTotals(days) = Earners(days) /\ IsFiniteSet(Earners(days))
         /\ \A a \in Earners(days) : WeekTotals(days)[a] \in Nat
         /\ SumOf(WeekTotals(days), Earners(days))
              = SumOf([k \in 1..Len(days) |-> Total(days[k].paid)], 1..Len(days))
<1> DEFINE D == 1..Len(days)
           R == {x \in D \X Miners : x[2] \in DOMAIN days[x[1]].facts}
           row == [x \in R |-> days[x[1]].paid[x[2]]]
           P == {x \in R : row[x] > 0}
           addr(x) == days[x[1]].facts[x[2]].addr
           t == WeekTotals(days)
           by == [k \in D |-> Total(days[k].paid)]
<1>1. IsFiniteSet(D) /\ IsFiniteSet(R) /\ IsFiniteSet(P)
  <2>1. IsFiniteSet(D)
    BY FS_Interval DEF PaidDays
  <2>2. IsFiniteSet(D \X Miners)
    BY <2>1, FS_Product, PayoutAssumption
  <2>3. R \subseteq D \X Miners /\ P \subseteq R
    OBVIOUS
  <2> QED BY ONLY <2>1, <2>2, <2>3, FS_Subset
<1>2. \A x \in R : row[x] \in Nat
  BY DEF PaidDays
<1>3. SumOf(row, R) = SumOf(row, P)
  <2> HIDE DEF row, R
  <2>1. \A x \in R : row[x] \in Int
    BY <1>2
  <2>2. P \in SUBSET R /\ \A x \in R \ P : row[x] = 0
    BY <1>2
  <2> HIDE DEF P
  <2>3. SumOf(row, R) = SumOf(row, P) + SumOf(row, R \ P)
    BY <1>1, <2>1, <2>2, SumOfSplit
  <2>4. IsFiniteSet(R \ P)
    BY <1>1, FS_Subset
  <2>5. SumOf(row, R \ P) = 0
    BY <2>2, <2>4, SumOfZero
  <2>6. SumOf(row, P) \in Int
    BY <1>1, <2>1, <2>2, SumOfType
  <2> QED BY <2>3, <2>5, <2>6
<1>4. \A a : EarnedRows(days, a) = {x \in P : addr(x) = a}
  BY DEF EarnedRows
<1>5. Earners(days) = {addr(x) : x \in P}
  <2>1. ASSUME NEW x \in P PROVE addr(x) \in Earners(days)
    <3>1. x \in EarnedRows(days, addr(x)) /\ x[1] \in 1..Len(days) /\ x[2] \in Miners
      BY <1>4
    <3> DEFINE n == x[1]
               m == x[2]
    <3>2. addr(x) = days[n].facts[m].addr /\ n \in 1..Len(days) /\ m \in Miners
      BY <3>1
    <3>3. EarnedRows(days, addr(x)) # {}
      BY <3>1
    <3>4. PICK a : a = addr(x)
      OBVIOUS
    <3> HIDE DEF n, m, addr, P
    <3>5. a \in {days[i].facts[j].addr : i \in 1..Len(days), j \in Miners} /\ EarnedRows(days, a) # {}
      BY <3>2, <3>3, <3>4
    <3>6. a \in Earners(days)
      BY <3>5 DEF Earners
    <3> QED BY <3>4, <3>6
  <2>2. ASSUME NEW a \in Earners(days) PROVE \E x \in P : a = addr(x)
    <3>1. PICK x : x \in EarnedRows(days, a)
      BY <2>2 DEF Earners
    <3> QED BY <1>4, <3>1
  <2> HIDE DEF P, addr
  <2> QED BY <2>1, <2>2
<1>6. DOMAIN t = Earners(days) /\ IsFiniteSet(Earners(days))
  <2> DEFINE col == [x \in P |-> addr(x)]
  <2>1. {col[x] : x \in P} = Earners(days)
    BY <1>5
  <2> HIDE DEF col, P
  <2>2. IsFiniteSet({col[x] : x \in P})
    BY <1>1, ImageFinite
  <2> QED BY <2>1, <2>2 DEF WeekTotals
<1>7. \A a \in Earners(days) : t[a] = SumOf(row, {x \in P : addr(x) = a})
  <2> SUFFICES ASSUME NEW a \in Earners(days) PROVE t[a] = SumOf(row, {x \in P : addr(x) = a})
    OBVIOUS
  <2> DEFINE E == EarnedRows(days, a)
             f == [x \in E |-> days[x[1]].paid[x[2]]]
  <2>1. t[a] = Total(f) /\ DOMAIN f = E
    BY DEF WeekTotals
  <2>2. E = {x \in P : addr(x) = a} /\ E \subseteq P
    BY <1>4
  <2>3. \A x \in E : f[x] = row[x]
    BY <2>2
  <2>4. IsFiniteSet(E)
    BY <1>1, <2>2, FS_Subset
  <2> HIDE DEF t, f, E, row
  <2>5. Total(f) = SumOf(f, E)
    BY <2>1, TotalIsSum
  <2>6. SumOf(f, E) = SumOf(row, E)
    BY <2>3, <2>4, SumOfSame
  <2> QED BY <2>1, <2>2, <2>5, <2>6
<1>8. \A a \in Earners(days) : t[a] \in Nat
  <2> SUFFICES ASSUME NEW a \in Earners(days) PROVE t[a] \in Nat
    OBVIOUS
  <2> DEFINE E == {x \in P : addr(x) = a}
  <2>1. E \subseteq P /\ \A x \in E : row[x] \in Nat
    BY <1>2
  <2>2. IsFiniteSet(E) /\ t[a] = SumOf(row, E)
    BY <1>1, <1>7, <2>1, FS_Subset
  <2> HIDE DEF E, row, t
  <2>3. SumOf(row, E) \in Nat
    BY <2>1, <2>2, SumOfType
  <2> QED BY <2>2, <2>3
<1>9. SumOf(row, P) = SumOf(t, Earners(days))
  <2> DEFINE col == [x \in P |-> addr(x)]
             C == Earners(days)
  <2>1. col \in [P -> C]
    BY <1>5
  <2> DEFINE K == [a \in C |-> {x \in P : addr(x) = a}]
  <2>2. /\ \A a \in C : K[a] \subseteq P /\ \A x \in P : x \in K[a] <=> col[x] = a
        /\ \A a \in C : t[a] = SumOf(row, K[a])
    BY <1>7
  <2>3. \A x \in P : row[x] \in Int
    BY <1>2
  <2>4. IsFiniteSet(P) /\ IsFiniteSet(C)
    BY <1>1, <1>6
  <2> HIDE DEF K, col, C, t, row, P
  <2>5. SumOf(row, P) = SumOf(t, C)
    BY ONLY <2>1, <2>2, <2>3, <2>4, SumOfClasses
  <2> QED BY <2>5 DEF C
<1>10. \A k \in D : by[k] = SumOf(row, {x \in R : x[1] = k})
  <2> SUFFICES ASSUME NEW k \in D PROVE by[k] = SumOf(row, {x \in R : x[1] = k})
    OBVIOUS
  <2> DEFINE M == DOMAIN days[k].facts
             f == days[k].paid
             at == [m \in M |-> <<k, m>>]
             K == {x \in R : x[1] = k}
  <2>1. M \subseteq Miners /\ f \in [M -> Nat] /\ DOMAIN f = M
    BY DEF PaidDays
  <2>2. IsFiniteSet(M)
    BY <2>1, FS_Subset, PayoutAssumption
  <2>3. \A m \in M : at[m] \in K /\ f[m] = row[at[m]]
    BY <2>1
  <2>4. \A x \in K : x[2] \in M /\ at[x[2]] = x
    OBVIOUS
  <2>5. \A m, n \in M : at[m] = at[n] => m = n
    OBVIOUS
  <2>6. at \in [M -> K]
    BY <2>3
  <2>7. IsFiniteSet(K) /\ \A x \in K : row[x] \in Int
    <3>1. K \subseteq R
      OBVIOUS
    <3> QED BY <1>1, <1>2, <3>1, FS_Subset
  <2>8. by[k] = Total(f)
    OBVIOUS
  <2> HIDE DEF at, K, row, M, f, by
  <2>9. SumOf(f, M) = SumOf(row, {at[m] : m \in M})
    BY <2>2, <2>3, <2>5, <2>6, <2>7, SumOfRenumbered
  <2>10. {at[m] : m \in M} = K
    BY <2>3, <2>4
  <2>11. Total(f) = SumOf(f, M)
    BY <2>1, TotalIsSum
  <2>12. by[k] = SumOf(row, K)
    BY <2>8, <2>9, <2>10, <2>11
  <2> QED BY <2>12 DEF K
<1>11. SumOf(row, R) = SumOf(by, D)
  <2> DEFINE col == [x \in R |-> x[1]]
  <2>1. col \in [R -> D]
    OBVIOUS
  <2> DEFINE K == [k \in D |-> {x \in R : x[1] = k}]
  <2>2. \A k \in D : K[k] \subseteq R /\ \A x \in R : x \in K[k] <=> col[x] = k
    OBVIOUS
  <2>3. \A k \in D : by[k] = SumOf(row, K[k])
    BY <1>10
  <2>4. \A x \in R : row[x] \in Int
    BY <1>2
  <2> HIDE DEF K, col, by, row, R, D
  <2> QED BY ONLY <1>1, <2>1, <2>2, <2>3, <2>4, SumOfClasses
<1> HIDE DEF row, R, P, t
<1>12. SumOf(t, Earners(days)) = SumOf(by, D)
  BY <1>3, <1>9, <1>11
<1> QED BY <1>6, <1>8, <1>12 DEF t

(* Adding up a function over all there is.                                  *)
LEMMA SumIs ==
  ASSUME NEW f, NEW D, DOMAIN f = D
  PROVE  Sum(f) = SumOf(f, D)
BY TotalIsSum

(* The payable and the set aside part of a week's totals.                   *)
LEMMA WeekSplits ==
  ASSUME NEW s, Ranked(s), NEW w \in Nat
  PROVE  /\ Sum(WeekPlan(w, s)) + Sum(SetAside(w, s))
              = SumOf([k \in 1..Len(DaysOfWeek(w, s)) |-> Total(DaysOfWeek(w, s)[k].paid)],
                      1..Len(DaysOfWeek(w, s)))
         /\ \A a \in DOMAIN WeekPlan(w, s) : WeekPlan(w, s)[a] \in Nat
         /\ Sum(WeekPlan(w, s)) \in Nat /\ Sum(SetAside(w, s)) \in Nat
<1> DEFINE days == DaysOfWeek(w, s)
           t == WeekTotals(days)
           E == Earners(days)
           A == DOMAIN t \ Unpayable
           B == DOMAIN t \cap Unpayable
           p == WeekPlan(w, s)
           q == SetAside(w, s)
<1>1. PaidDays(days)
  BY RankedPays
<1>2. p = [a \in A |-> t[a]] /\ q = [a \in B |-> t[a]]
  BY DEF WeekPlan, SetAside, Restrict
<1> HIDE DEF days, p, q
<1>3. /\ DOMAIN t = E /\ IsFiniteSet(E) /\ \A a \in E : t[a] \in Nat
      /\ SumOf(t, E) = SumOf([k \in 1..Len(days) |-> Total(days[k].paid)], 1..Len(days))
  BY <1>1, WeekTotalsSum
<1> HIDE DEF t, E
<1>4. A \in SUBSET E /\ B = E \ A /\ DOMAIN p = A /\ DOMAIN q = B
  BY <1>2, <1>3
<1>5. /\ \A a \in A : p[a] = t[a] /\ p[a] \in Nat
      /\ \A a \in B : q[a] = t[a] /\ q[a] \in Nat
  BY <1>2, <1>3
<1> HIDE DEF A, B
<1>6. IsFiniteSet(A) /\ IsFiniteSet(B)
  BY <1>3, <1>4, FS_Subset
<1>7. Sum(p) = SumOf(p, A) /\ Sum(q) = SumOf(q, B)
  BY <1>4, SumIs
<1>8. SumOf(p, A) = SumOf(t, A) /\ SumOf(q, B) = SumOf(t, B)
  BY <1>5, <1>6, SumOfSame
<1>9. SumOf(t, E) = SumOf(t, A) + SumOf(t, E \ A)
  <2>1. \A a \in E : t[a] \in Int
    BY <1>3
  <2> QED BY <1>3, <1>4, <2>1, SumOfSplit
<1>10. SumOf(p, A) \in Nat /\ SumOf(q, B) \in Nat
  BY <1>5, <1>6, SumOfType
<1>11. Sum(p) + Sum(q) = SumOf(t, E) /\ Sum(p) \in Nat /\ Sum(q) \in Nat
  BY <1>4, <1>7, <1>8, <1>9, <1>10
<1>12. \A a \in DOMAIN p : p[a] \in Nat
  BY <1>4, <1>5
<1> QED BY <1>3, <1>11, <1>12 DEF days, p, q

(* Every day is in one week, at its place.                                  *)
LEMMA DayOfWeek ==
  ASSUME NEW N \in Nat, NEW n \in 1..N, NEW D \in Nat \ {0}
  PROVE  LET w == (n - 1) \div D IN
         /\ w \in 0..((N - 1) \div D)
         /\ n - w * D \in Nat \ {0} /\ n <= (w + 1) * D
<1> DEFINE w == (n - 1) \div D
           v == (N - 1) \div D
<1>1. w \in Nat /\ w * D <= n - 1 /\ n - 1 < w * D + D
  BY SMTT(30)
<1>2. v \in Nat /\ v * D <= N - 1 /\ N - 1 < v * D + D
  BY SMTT(30)
<1> HIDE DEF w, v
<1>3. w <= v
  <2> SUFFICES ASSUME w >= v + 1 PROVE FALSE
    BY <1>1, <1>2
  <2>1. PICK k \in Nat : w = v + 1 + k
    <3>1. w - (v + 1) \in Nat /\ w = v + 1 + (w - (v + 1))
      BY <1>1, <1>2
    <3> QED BY <3>1
  <2>2. w * D = v * D + D + k * D
    BY <1>1, <1>2, <2>1
  <2>3. k * D \in Nat /\ v * D \in Nat /\ w * D \in Nat
    BY <1>1, <1>2, <2>1, ProductNat
  <2> QED BY <1>1, <1>2, <2>2, <2>3
<1>4. w * D \in Nat /\ (w + 1) * D = w * D + D
  BY <1>1, ProductNat
<1> QED BY <1>1, <1>2, <1>3, <1>4 DEF w, v

LEMMA PlaceInWeek ==
  ASSUME NEW w \in Nat, NEW k \in Nat \ {0}, NEW D \in Nat \ {0}, k <= D
  PROVE  (w * D + k - 1) \div D = w
<1>1. PICK m \in Nat : m = w * D
  BY ProductNat
<1>2. PICK q \in Nat : q = (m + (k - 1)) \div D
  <2>1. m + (k - 1) \in Nat
    BY <1>1
  <2> QED BY <2>1, DivNat
<1>3. q * D <= m + (k - 1) /\ m + (k - 1) < q * D + D
  <2>1. PICK j \in Nat : j = m + (k - 1)
    BY <1>1
  <2>2. q = j \div D
    BY <1>2, <2>1
  <2>3. q * D <= j /\ j < q * D + D
    BY <2>2, SMTT(30)
  <2> QED BY <2>1, <2>3
<1>4. PICK r \in Nat : r = q * D
  BY <1>2, ProductNat
<1>5. ASSUME q >= w + 1 PROVE FALSE
  <2>1. PICK j \in Nat : q = w + 1 + j
    <3>1. q - (w + 1) \in Nat /\ q = w + 1 + (q - (w + 1))
      BY <1>5
    <3> QED BY <3>1
  <2>2. q * D = w * D + D + j * D /\ j * D \in Nat
    BY <2>1, ProductNat
  <2> QED BY <1>1, <1>3, <1>4, <2>2
<1>6. ASSUME w >= q + 1 PROVE FALSE
  <2>1. PICK j \in Nat : w = q + 1 + j
    <3>1. w - (q + 1) \in Nat /\ w = q + 1 + (w - (q + 1))
      BY <1>6
    <3> QED BY <3>1
  <2>2. w * D = q * D + D + j * D /\ j * D \in Nat
    BY <2>1, ProductNat
  <2> QED BY <1>1, <1>3, <1>4, <2>2
<1>7. q = w
  BY <1>5, <1>6
<1>8. w * D + k - 1 = m + (k - 1)
  BY <1>1
<1> QED BY <1>2, <1>7, <1>8

(* The weeks pay what the days pay.                                         *)
LEMMA WeekIsItsDays ==
  ASSUME NEW s, Ranked(s), NEW w \in Nat,
         NEW tot, tot = [n \in 1..Len(s) |-> Total(s[n].paid)]
  PROVE  Sum(WeekPlan(w, s)) + Sum(SetAside(w, s))
           = SumOf(tot, {n \in 1..Len(s) : (n - 1) \div DaysPerWeek = w})
<1> DEFINE N == Len(s)
           D == DaysPerWeek
           m == w * D
           e == (w + 1) * D
           z == Least(N, e)
           days == DaysOfWeek(w, s)
           L == Len(days)
           h == [k \in 1..L |-> Total(days[k].paid)]
           K == {n \in 1..N : (n - 1) \div D = w}
           at == [k \in 1..L |-> m + k]
<1>1. N \in Nat /\ D \in Nat \ {0} /\ m \in Nat /\ e = m + D
  BY RankedSums, PayoutAssumption, ProductNat
<1>2. /\ L = (IF m + 1 <= z THEN z - m ELSE 0) /\ L \in Nat
      /\ \A k \in 1..L : m + k \in 1..N /\ days[k] = s[m + k]
  BY <1>1, WeekOfDays
<1>3. z \in Nat /\ z <= N /\ z <= e /\ (z = N \/ z = e)
  BY <1>1 DEF Least
<1>4. Sum(WeekPlan(w, s)) + Sum(SetAside(w, s)) = SumOf(h, 1..L)
  BY WeekSplits
<1>5. \A n \in 1..N : tot[n] = Total(s[n].paid) /\ tot[n] \in Nat
  BY RankedDay
<1> HIDE DEF N, m, e, z, days, L
<1>6. \A k \in 1..L : k <= D /\ k \in Nat \ {0}
  BY <1>1, <1>2, <1>3
<1>7. ASSUME NEW k \in 1..L PROVE m + k \in K
  <2>1. k \in Nat \ {0} /\ k <= D
    BY <1>6
  <2>2. (w * D + k - 1) \div D = w
    <3> HIDE DEF D
    <3> QED BY <1>1, <2>1, PlaceInWeek
  <2>3. w * D + k - 1 = (m + k) - 1
    BY <1>1, <2>1 DEF m
  <2>4. m + k \in 1..N /\ ((m + k) - 1) \div D = w
    BY <1>2, <2>2, <2>3
  <2> QED BY <2>4
<1>8. ASSUME NEW n \in K PROVE \E k \in 1..L : n = m + k
  <2>1. n \in 1..N /\ (n - 1) \div D = w
    OBVIOUS
  <2>2. n - w * D \in Nat \ {0} /\ n <= (w + 1) * D
    <3> HIDE DEF D
    <3> QED BY <1>1, <2>1, DayOfWeek
  <2>3. n - m \in Nat \ {0} /\ n <= e
    BY <2>2 DEF m, e
  <2>4. n - m \in 1..L /\ n = m + (n - m)
    BY <1>1, <1>2, <1>3, <2>1, <2>3
  <2> QED BY <2>4
<1>9. at \in [1..L -> K] /\ \A i, j \in 1..L : at[i] = at[j] => i = j
  BY <1>1, <1>7
<1>10. \A k \in 1..L : h[k] = tot[at[k]]
  BY <1>2, <1>5
<1>11. {at[k] : k \in 1..L} = K
  <2>1. \A k \in 1..L : at[k] = m + k
    OBVIOUS
  <2> HIDE DEF at, K
  <2> QED BY <1>7, <1>8, <2>1
<1>12. IsFiniteSet(K) /\ IsFiniteSet(1..L) /\ \A n \in K : tot[n] \in Int
  <2>1. N \in Int /\ L \in Int /\ 1 \in Int
    BY <1>1, <1>2
  <2>2. IsFiniteSet(1..N) /\ IsFiniteSet(1..L)
    BY ONLY <2>1, FS_Interval
  <2>3. K \subseteq 1..N
    OBVIOUS
  <2>4. IsFiniteSet(K)
    BY ONLY <2>2, <2>3, FS_Subset
  <2> QED BY <1>5, <2>2, <2>3, <2>4
<1> DEFINE I == 1..L
<1>13. /\ IsFiniteSet(K) /\ IsFiniteSet(I) /\ (\A n \in K : tot[n] \in Int) /\ at \in [I -> K]
       /\ (\A k \in I : h[k] = tot[at[k]]) /\ \A i, j \in I : at[i] = at[j] => i = j
  BY <1>9, <1>10, <1>12
<1> HIDE DEF K, I, at, h
<1>14. SumOf(h, I) = SumOf(tot, {at[k] : k \in I})
  BY ONLY <1>13, SumOfRenumbered
<1>15. {at[k] : k \in I} = K
  BY <1>11 DEF I
<1>16. SumOf(h, 1..L) = SumOf(tot, K)
  BY <1>14, <1>15 DEF I
<1> QED BY <1>4, <1>16 DEF K, N

LEMMA WeeksAreTheDays ==
  ASSUME Ranked(published)
  PROVE  PaidBefore(published, Len(published))
           = Sum([w \in Weeks |-> Sum(WeekPlan(w, published)) + Sum(SetAside(w, published))])
<1> DEFINE N == Len(published)
           D == DaysPerWeek
           S == 1..N
           tot == [n \in S |-> Total(published[n].paid)]
           g == [w \in Weeks |-> Sum(WeekPlan(w, published)) + Sum(SetAside(w, published))]
           K == [w \in Weeks |-> {n \in S : (n - 1) \div D = w}]
           col == [n \in S |-> (n - 1) \div D]
<1>1. N \in Nat /\ D \in Nat \ {0} /\ IsFiniteSet(S)
  BY RankedSums, PayoutAssumption, FS_Interval
<1>2. \A w \in Weeks : w \in Nat
  BY DEF Weeks
<1>3. IsFiniteSet(Weeks)
  <2>1. (N - 1) \div D \in Int
    BY <1>1
  <2> QED BY <2>1, FS_Interval DEF Weeks
<1>4. col \in [S -> Weeks]
  <2> SUFFICES ASSUME NEW n \in S PROVE (n - 1) \div D \in Weeks
    OBVIOUS
  <2>1. (n - 1) \div D \in 0..((N - 1) \div D)
    <3> HIDE DEF D, N
    <3> QED BY <1>1, DayOfWeek
  <2> QED BY <2>1 DEF Weeks
<1>5. \A w \in Weeks : K[w] \subseteq S /\ \A n \in S : n \in K[w] <=> col[n] = w
  OBVIOUS
<1>6. \A w \in Weeks : g[w] = SumOf(tot, K[w])
  <2> SUFFICES ASSUME NEW w \in Weeks PROVE g[w] = SumOf(tot, K[w])
    OBVIOUS
  <2>1. Sum(WeekPlan(w, published)) + Sum(SetAside(w, published))
          = SumOf(tot, {n \in 1..N : (n - 1) \div D = w})
    BY <1>2, WeekIsItsDays
  <2> HIDE DEF tot
  <2> QED BY <2>1
<1>7. \A n \in S : tot[n] \in Int
  BY RankedDay
<1>8. PaidBefore(published, N) = SumOf(tot, S) /\ Sum(g) = SumOf(g, Weeks)
  <2>1. PaidBefore(published, N) = Total(tot) /\ DOMAIN tot = S /\ DOMAIN g = Weeks
    BY DEF PaidBefore, Total
  <2> HIDE DEF tot, g, S
  <2> QED BY <2>1, TotalIsSum
<1> HIDE DEF S, tot, g, K, col
<1>9. SumOf(tot, S) = SumOf(g, Weeks)
  BY ONLY <1>1, <1>3, <1>4, <1>5, <1>6, <1>7, SumOfClasses
<1> QED BY <1>8, <1>9 DEF g

-----------------------------------------------------------------------------
(* The list and the chain                                                   *)

(* What each of some payments gives an address.                             *)
Given(fs, a) == [i \in DOMAIN fs |-> IF a \in DOMAIN fs[i] THEN fs[i][a] ELSE 0]

LEMMA SumOverIs ==
  ASSUME NEW fs, NEW a
  PROVE  SumOver(fs, a) = SumOf(Given(fs, a), DOMAIN fs)
<1>1. SumOver(fs, a) = Sum(Given(fs, a)) /\ DOMAIN Given(fs, a) = DOMAIN fs
  BY DEF SumOver, Given
<1> QED BY <1>1, SumIs

LEMMA AmendmentNat ==
  ASSUME NEW doc, IsFiniteSet(doc), \A r \in doc : r.amt \in Nat
  PROVE  \A a \in DOMAIN AmendmentPayable(doc) : AmendmentPayable(doc)[a] \in Nat
<1> SUFFICES ASSUME NEW a \in DOMAIN AmendmentPayable(doc)
             PROVE  AmendmentPayable(doc)[a] \in Nat
  OBVIOUS
<1> DEFINE rows == {r \in doc : r.addr = a}
           f == [r \in rows |-> r.amt]
<1>1. AmendmentPayable(doc)[a] = Sum(f) /\ DOMAIN f = rows
  BY DEF AmendmentPayable, Amount
<1>2. IsFiniteSet(rows) /\ \A r \in rows : f[r] \in Nat
  BY FS_Subset
<1> HIDE DEF rows, f
<1>3. Sum(f) = SumOf(f, rows)
  BY <1>1, SumIs
<1>4. SumOf(f, rows) \in Nat
  BY <1>2, SumOfType
<1> QED BY <1>1, <1>3, <1>4

(* No part of an obligation is on chain twice.                              *)
PartsDistinct ==
  \A i, j \in 1..Len(executed) :
    i # j => <<executed[i].of, executed[i].part>> # <<executed[j].of, executed[j].part>>

(* The parts of one obligation give each address what its plan says.        *)
LEMMA ObligationSent ==
  ASSUME IsSeq(executed), PartsDistinct,
         NEW o, NEW plan, NEW amounts, PaidAsPlanned(o, plan, amounts),
         NEW a, a \in DOMAIN amounts => amounts[a] \in Nat,
         NEW C, C \subseteq 1..Len(executed),
         \A i \in 1..Len(executed) : i \in C <=> executed[i].of = o
  PROVE  /\ \A i \in C : Given(Sent, a)[i] \in Nat
         /\ SumOf(Given(Sent, a), C) = IF a \in DOMAIN amounts THEN amounts[a] ELSE 0
<1> DEFINE f == Given(Sent, a)
           I == 1..Len(executed)
<1>1. Len(executed) \in Nat /\ DOMAIN executed = I /\ IsFiniteSet(C)
  <2>1. Len(executed) \in Nat /\ DOMAIN executed = I
    BY ExecutedDomain
  <2>2. IsFiniteSet(I)
    BY <2>1, FS_Interval
  <2>3. C \subseteq I
    OBVIOUS
  <2> HIDE DEF I
  <2> QED BY ONLY <2>1, <2>2, <2>3, FS_Subset
<1>2. ASSUME NEW i \in C
      PROVE  /\ executed[i] \in Done(o)
             /\ executed[i].sends = Sends(amounts, executed[i].part)
             /\ f[i] = IF a \in DOMAIN executed[i].sends THEN executed[i].sends[a] ELSE 0
  <2>1. i \in DOMAIN executed /\ executed[i].of = o
    BY <1>1
  <2>2. executed[i] \in Done(o)
    BY <2>1 DEF Done, Range
  <2>3. executed[i].sends = Sends(amounts, executed[i].part)
    BY <2>2 DEF PaidAsPlanned
  <2>4. f[i] = IF a \in DOMAIN executed[i].sends THEN executed[i].sends[a] ELSE 0
    BY <2>1 DEF Given, Sent
  <2> QED BY <2>2, <2>3, <2>4
<1> HIDE DEF f
<1>3. ASSUME NEW i \in C
      PROVE  f[i] = IF a \in DOMAIN amounts /\ PartOf(amounts, a) = executed[i].part
                    THEN amounts[a] ELSE 0
  <2> DEFINE A == {b \in DOMAIN amounts : PartOf(amounts, b) = executed[i].part}
  <2>1. executed[i].sends = [b \in A |-> amounts[b]]
    BY <1>2 DEF Sends, Restrict
  <2> HIDE DEF A
  <2>2. DOMAIN executed[i].sends = A /\ \A b \in A : executed[i].sends[b] = amounts[b]
    BY <2>1
  <2>3. f[i] = IF a \in A THEN amounts[a] ELSE 0
    BY <1>2, <2>2
  <2> QED BY <2>3 DEF A
<1>4. \A i \in C : f[i] \in Nat
  BY <1>3
<1>5. CASE a \notin DOMAIN amounts
  <2>1. \A i \in C : f[i] = 0
    BY <1>3, <1>5
  <2>2. SumOf(f, C) = 0
    BY <1>1, <2>1, SumOfZero
  <2> QED BY <1>4, <1>5, <2>2 DEF f
<1>6. CASE a \in DOMAIN amounts
  <2>1. PartOf(amounts, a) \in Parts(amounts)
    BY <1>6 DEF Parts
  <2>2. PICK t \in Done(o) : t.part = PartOf(amounts, a)
    BY <2>1 DEF PaidAsPlanned
  <2>3. PICK j \in C : executed[j] = t
    <3>1. t \in Range(executed) /\ t.of = o
      BY <2>2 DEF Done
    <3> QED BY <1>1, <3>1 DEF Range
  <2>4. f[j] = amounts[a]
    BY <1>3, <1>6, <2>2, <2>3
  <2>5. \A i \in C \ {j} : f[i] = 0
    <3> SUFFICES ASSUME NEW i \in C \ {j} PROVE f[i] = 0
      OBVIOUS
    <3>1. executed[i].part # executed[j].part
      BY DEF PartsDistinct
    <3> QED BY <1>3, <2>2, <2>3, <3>1
  <2>6. SumOf(f, C) = f[j]
    <3>1. f[j] \in Int
      BY <1>4
    <3>2. IsFiniteSet(C) /\ j \in C
      BY <1>1
    <3> QED BY ONLY <2>5, <3>1, <3>2, OnlyOne
  <2> QED BY <1>4, <1>6, <2>4, <2>6 DEF f
<1> QED BY <1>5, <1>6

(* S are the transactions of one kind, for the numbers T.                   *)
OfKind(kind, T, S) ==
  /\ S \subseteq 1..Len(executed)
  /\ \A i \in S : \E x \in T : executed[i].of = <<kind, x>>
  /\ \A i \in 1..Len(executed) : executed[i].of[1] = kind => i \in S

AllPaid(kind, T, plan, amounts) ==
  DOMAIN amounts = T /\ \A x \in T : PaidAsPlanned(<<kind, x>>, plan[x], amounts[x])

Counted(T, amounts, a) == \A x \in T : a \in DOMAIN amounts[x] => amounts[x][a] \in Nat

SentAs(S, T, amounts, a) ==
  /\ \A i \in S : Given(Sent, a)[i] \in Nat
  /\ SumOf(Given(Sent, a), S) = SumOf(Given(amounts, a), T)

(* The transactions of one kind, obligation by obligation.                  *)
LEMMA KindSent ==
  ASSUME IsSeq(executed), PartsDistinct, NEW kind, NEW T, IsFiniteSet(T),
         NEW plan, NEW amounts, AllPaid(kind, T, plan, amounts),
         NEW a, Counted(T, amounts, a), NEW S, OfKind(kind, T, S)
  PROVE  SentAs(S, T, amounts, a)
<1> USE DEF AllPaid, OfKind, Counted, SentAs
<1> DEFINE f == Given(Sent, a)
           g == Given(amounts, a)
           col == [i \in S |-> executed[i].of[2]]
           K == [x \in T |-> {i \in 1..Len(executed) : executed[i].of = <<kind, x>>}]
<1>1. IsFiniteSet(S)
  <2>1. Len(executed) \in Nat
    BY ExecutedDomain
  <2>2. IsFiniteSet(1..Len(executed))
    BY <2>1, FS_Interval
  <2> QED BY ONLY <2>2, S \subseteq 1..Len(executed), FS_Subset
<1>2. ASSUME NEW x \in T
      PROVE  (\A i \in K[x] : f[i] \in Nat) /\ g[x] = SumOf(f, K[x])
  <2>1. K[x] = {i \in 1..Len(executed) : executed[i].of = <<kind, x>>}
    OBVIOUS
  <2>2. g[x] = IF a \in DOMAIN amounts[x] THEN amounts[x][a] ELSE 0
    BY DEF Given
  <2>3. PaidAsPlanned(<<kind, x>>, plan[x], amounts[x])
    OBVIOUS
  <2> DEFINE o == <<kind, x>>
             p == plan[x]
             m == amounts[x]
             C == K[x]
  <2>4. /\ PaidAsPlanned(o, p, m) /\ C \subseteq 1..Len(executed)
        /\ \A i \in 1..Len(executed) : i \in C <=> executed[i].of = o
        /\ a \in DOMAIN m => m[a] \in Nat
    BY <2>1, <2>3
  <2> HIDE DEF o, p, m, C, K
  <2>5. /\ \A i \in C : Given(Sent, a)[i] \in Nat
        /\ SumOf(Given(Sent, a), C) = IF a \in DOMAIN m THEN m[a] ELSE 0
    BY ONLY <2>4, IsSeq(executed), PartsDistinct, ObligationSent
  <2> QED BY <2>2, <2>5 DEF m, C
<1>3. ASSUME NEW i \in S
      PROVE  col[i] \in T /\ executed[i].of = <<kind, col[i]>> /\ i \in K[col[i]]
  BY <1>3
<1>4. ASSUME NEW x \in T PROVE K[x] \subseteq S /\ \A i \in S : i \in K[x] <=> col[i] = x
  <2>1. K[x] \subseteq S
    OBVIOUS
  <2>2. ASSUME NEW i \in S PROVE i \in K[x] <=> col[i] = x
    BY <1>3
  <2> QED BY <2>1, <2>2
<1>5. \A i \in S : f[i] \in Nat
  BY <1>2, <1>3
<1>6. col \in [S -> T] /\ (\A i \in S : f[i] \in Int) /\ \A x \in T : g[x] = SumOf(f, K[x])
  <2>1. \A x \in T : g[x] = SumOf(f, K[x])
    BY <1>2
  <2>2. \A i \in S : col[i] \in T /\ f[i] \in Int
    BY <1>3, <1>5
  <2> HIDE DEF f, g, K
  <2> QED BY <2>1, <2>2
<1>7. \A x \in T : K[x] \subseteq S /\ \A i \in S : i \in K[x] <=> col[i] = x
  BY <1>4
<1> HIDE DEF f, g, col, K
<1>8. SumOf(f, S) = SumOf(g, T)
  BY ONLY <1>1, <1>6, <1>7, IsFiniteSet(T), SumOfClasses
<1> QED BY <1>5, <1>8 DEF f, g

LEMMA WeeksFinite ==
  ASSUME Len(published) \in Nat
  PROVE  IsFiniteSet(Weeks) /\ Weeks \subseteq Nat
<1>1. (Len(published) - 1) \div DaysPerWeek \in Int
  BY PayoutAssumption
<1>2. IsFiniteSet(Weeks)
  BY <1>1, FS_Interval DEF Weeks
<1> QED BY <1>2 DEF Weeks

(* What the chain sent, address by address, is what the plans list.         *)
LEMMA SentIsListed ==
  ASSUME IsSeq(executed), KnownOK, Ranked(published), DocumentsOK, PricesInv, ListChecked
  PROVE  Listed = [a \in Addresses |-> SumOver(Sent, a)]
<1> DEFINE I == 1..Len(executed)
           SW == {i \in I : executed[i].of[1] = "week"}
           SA == {i \in I : executed[i].of[1] # "week"}
           TW == Weeks
           TA == Frozen(frozen)
           weeks == [w \in TW |-> WeekPlan(w, published)]
           files == [n \in TA |-> frozen[n]]
           amends == [n \in TA |-> AmendmentPayable(frozen[n])]
<1>1. Len(executed) \in Nat /\ DOMAIN executed = I /\ IsFiniteSet(I) /\ DOMAIN Sent = I
  <2>1. Len(executed) \in Nat /\ DOMAIN executed = I
    BY ExecutedDomain
  <2>2. IsFiniteSet(I)
    BY <2>1, FS_Interval
  <2> QED BY <2>1, <2>2 DEF Sent
<1>2. IsFiniteSet(TW) /\ TW \subseteq Nat
  <2>1. Len(published) \in Nat
    BY RankedSums
  <2> QED BY <2>1, WeeksFinite
<1>3. IsFiniteSet(TA) /\ TA \subseteq AmendIds /\ \A n \in TA : frozen[n] # None
  <2>1. TA \subseteq AmendIds /\ \A n \in TA : frozen[n] # None
    BY DEF Frozen
  <2> QED BY <2>1, FS_Subset, PayoutAssumption
<1>4. PartsDistinct
  BY <1>1 DEF ListChecked, PartsDistinct
<1>5. \A i \in I : \/ \E w \in Nat : executed[i].of = <<"week", w>>
                   \/ \E n \in AmendIds : executed[i].of = <<"amend", n>>
  BY DEF KnownOK, Obligations
<1>6. ASSUME NEW i \in SW PROVE \E w \in TW : executed[i].of = <<"week", w>>
  <2>1. PICK w \in Nat : executed[i].of = <<"week", w>>
    BY <1>5
  <2>2. executed[i] \in Range(executed)
    BY <1>1 DEF Range
  <2>3. w \in WeeksOnChain
    BY <2>1, <2>2 DEF WeeksOnChain
  <2>4. w \in TW
    BY <2>3 DEF ListChecked
  <2> QED BY <2>1, <2>4
<1>7. ASSUME NEW i \in SA PROVE \E n \in TA : executed[i].of = <<"amend", n>>
  <2>1. PICK n \in AmendIds : executed[i].of = <<"amend", n>>
    BY <1>5
  <2>2. executed[i] \in Range(executed)
    BY <1>1 DEF Range
  <2>3. n \in TA
    BY <2>1, <2>2 DEF ListChecked
  <2> QED BY <2>1, <2>3
<1>8. \A w \in TW : PaidAsPlanned(<<"week", w>>, weeks[w], weeks[w])
  BY DEF ListChecked, Week
<1>9. \A n \in TA : PaidAsPlanned(<<"amend", n>>, files[n], amends[n])
  BY DEF ListChecked, Amend
<1>10. \A w \in TW : \A a \in DOMAIN weeks[w] : weeks[w][a] \in Nat
  <2> SUFFICES ASSUME NEW w \in TW PROVE \A a \in DOMAIN weeks[w] : weeks[w][a] \in Nat
    OBVIOUS
  <2>1. \A a \in DOMAIN WeekPlan(w, published) : WeekPlan(w, published)[a] \in Nat
    BY <1>2, WeekSplits
  <2>2. weeks[w] = WeekPlan(w, published)
    OBVIOUS
  <2> HIDE DEF weeks
  <2> QED BY <2>1, <2>2
<1>11. \A n \in TA : \A a \in DOMAIN amends[n] : amends[n][a] \in Nat
  <2> SUFFICES ASSUME NEW n \in TA PROVE \A a \in DOMAIN amends[n] : amends[n][a] \in Nat
    OBVIOUS
  <2> DEFINE doc == frozen[n]
  <2>1. IsFiniteSet(doc) /\ \A r \in doc : r.amt \in Nat
    BY <1>3 DEF DocumentsOK, PricesInv
  <2>2. amends[n] = AmendmentPayable(doc)
    OBVIOUS
  <2> HIDE DEF doc, amends
  <2>3. \A a \in DOMAIN AmendmentPayable(doc) : AmendmentPayable(doc)[a] \in Nat
    BY <2>1, AmendmentNat
  <2> QED BY <2>2, <2>3
<1>12. DOMAIN weeks = TW /\ DOMAIN amends = TA
  OBVIOUS
<1>13. \A i \in I : /\ executed[i].of[1] = "week" => i \in SW
                    /\ executed[i].of[1] = "amend" => i \in SA
  OBVIOUS
<1>14. SW \subseteq I /\ SA \subseteq I /\ SA = I \ SW
  OBVIOUS
<1>15. (\A i \in SW : \E w \in TW : executed[i].of = <<"week", w>>)
       /\ \A i \in SA : \E n \in TA : executed[i].of = <<"amend", n>>
  BY <1>6, <1>7
<1>16. Listed = [a \in Addresses |-> SumOver(weeks, a) + SumOver(amends, a)]
  BY DEF Listed
<1> HIDE DEF SW, SA, TW, TA, weeks, files, amends
<1>17. ASSUME NEW a
       PROVE  SumOver(weeks, a) + SumOver(amends, a) = SumOver(Sent, a)
  <2> DEFINE f == Given(Sent, a)
  <2>1. /\ \A i \in SW : Given(Sent, a)[i] \in Nat
        /\ SumOf(Given(Sent, a), SW) = SumOf(Given(weeks, a), TW)
    <3>1. \A w \in TW : a \in DOMAIN weeks[w] => weeks[w][a] \in Nat
      BY <1>10
    <3>2. OfKind("week", TW, SW) /\ AllPaid("week", TW, weeks, weeks)
      BY <1>8, <1>12, <1>13, <1>14, <1>15 DEF OfKind, AllPaid
    <3>3. Counted(TW, weeks, a) /\ IsFiniteSet(TW)
      BY <1>2, <3>1 DEF Counted
    <3>4. SentAs(SW, TW, weeks, a)
      BY ONLY IsSeq(executed), <1>4, <3>2, <3>3, KindSent
    <3> QED BY <3>4 DEF SentAs
  <2>2. /\ \A i \in SA : Given(Sent, a)[i] \in Nat
        /\ SumOf(Given(Sent, a), SA) = SumOf(Given(amends, a), TA)
    <3>1. \A n \in TA : a \in DOMAIN amends[n] => amends[n][a] \in Nat
      BY <1>11
    <3>2. OfKind("amend", TA, SA) /\ AllPaid("amend", TA, files, amends)
      BY <1>9, <1>12, <1>13, <1>14, <1>15 DEF OfKind, AllPaid
    <3>3. Counted(TA, amends, a) /\ IsFiniteSet(TA)
      BY <1>3, <3>1 DEF Counted
    <3>4. SentAs(SA, TA, amends, a)
      BY ONLY IsSeq(executed), <1>4, <3>2, <3>3, KindSent
    <3> QED BY <3>4 DEF SentAs
  <2> HIDE DEF f
  <2>3. SumOf(f, SW) = SumOf(Given(weeks, a), TW) /\ SumOf(f, SA) = SumOf(Given(amends, a), TA)
        /\ \A i \in I : f[i] \in Int
    BY <1>14, <2>1, <2>2 DEF f
  <2>4. SumOf(f, I) = SumOf(f, SW) + SumOf(f, I \ SW)
    <3>1. SW \in SUBSET I
      BY <1>14
    <3> HIDE DEF I
    <3> QED BY ONLY <1>1, <2>3, <3>1, SumOfSplit
  <2>5. SumOver(Sent, a) = SumOf(f, I)
    BY <1>1, SumOverIs DEF f
  <2>6. SumOver(weeks, a) = SumOf(Given(weeks, a), TW) /\ SumOver(amends, a) = SumOf(Given(amends, a), TA)
    BY <1>12, SumOverIs
  <2> QED BY ONLY <1>14, <2>3, <2>4, <2>5, <2>6
<1> QED BY <1>16, <1>17

(* The payer, the list and the chain agree with the rankings, whatever      *)
(* crashed, timed out, was lost or published again: every ranking is        *)
(* accepted, no row is paid by two amendments, the list is what was sent,   *)
(* and a silent cron owes nothing (final_season_payout.py).                 *)
THEOREM Sound ==
  ~ LandsInWindow /\ CapsWiden /\ DoublingNamed => (Spec => []PayoutSound)
<1> SUFFICES ASSUME ~ LandsInWindow, CapsWiden, DoublingNamed PROVE Spec => []PayoutSound
  OBVIOUS
<1>1. IInv /\ [Next]_vars => IInv'
  BY StepOK
<1>2. IInv /\ RInv /\ [Next]_vars => RInv'
  BY RowsStep
<1>3. RankInv /\ [Next]_vars => RankInv'
  BY RankStep
<1>4. IInv /\ TallyInv /\ [Next]_vars => TallyInv'
  BY TallyStep
<1>5. IInv /\ RankInv /\ PricesInv /\ [Next]_vars => PricesInv'
  BY PricesStep DEF IInv, RankInv
<1>6. Init => IInv /\ RInv /\ RankInv /\ TallyInv /\ PricesInv
  <2> SUFFICES ASSUME Init PROVE IInv /\ RInv /\ RankInv /\ TallyInv /\ PricesInv
    OBVIOUS
  <2>1. IInv /\ RInv /\ RankInv
    BY InitOK, RowsInit, RankInit
  <2>2. executed = <<>> /\ Len(<<>>) = 0 /\ failed = {} /\ seq = 0
    BY DEF Init
  <2>3. IsFiniteSet({}) /\ Cardinality({}) = 0
    BY FS_EmptySet
  <2>4. TallyInv
    BY <2>2, <2>3 DEF TallyInv
  <2>5. PricesInv
    BY DEF Init, PricesInv
  <2> QED BY <2>1, <2>4, <2>5
<1>7. IInv /\ TallyInv => TypeOK
  BY Shaped
<1>8. RankInv => RankingsAccepted
  BY RankAccepted
<1>9. IInv /\ RInv /\ RankInv /\ PricesInv => ListIsWhatWasSent
  <2> SUFFICES ASSUME IInv, RInv, RankInv, PricesInv, ListChecked
               PROVE  /\ Listed = [a \in Addresses |-> SumOver(Sent, a)]
                      /\ PaidBefore(published, Len(published)) =
                           Sum([w \in Weeks |-> Sum(WeekPlan(w, published)) + Sum(SetAside(w, published))])
    BY DEF ListIsWhatWasSent
  <2>1. IsSeq(executed) /\ KnownOK /\ Ranked(published) /\ DocumentsOK
    BY DEF IInv, SequencesOK, RInv, RankInv
  <2> QED BY <2>1, SentIsListed, WeeksAreTheDays
<1>10. Spec => []RowPaidOnce /\ []DueExitTruthful
  BY RowsPaidOnce, DueTruthful, PTL
<1>11. Spec => []IInv /\ []RInv /\ []RankInv /\ []TallyInv /\ []PricesInv
  BY <1>1, <1>2, <1>3, <1>4, <1>5, <1>6, PTL DEF Spec
<1>12. TypeOK /\ RowPaidOnce /\ RankingsAccepted /\ ListIsWhatWasSent /\ DueExitTruthful => PayoutSound
  BY DEF PayoutSound
<1> QED BY <1>7, <1>8, <1>9, <1>10, <1>11, <1>12, PTL

=============================================================================

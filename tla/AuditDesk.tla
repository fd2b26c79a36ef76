------------------------------- MODULE AuditDesk -------------------------------
(* One audited job after another, from the primary's reveal to a juror's verdict:   *)
(* the reveal worker of each primary (src/services/reveal_worker.py with            *)
(* reveal_helpers.py and reveal_marker.py) and one judge worker                      *)
(* (src/services/judge_worker.py), over the chain and the relay. Both keep their      *)
(* state in memory and are restarted; the relay is out for whole passes; a            *)
(* transaction's fate is read, not read, or refused.                                *)
EXTENDS Integers, FiniteSets

CONSTANTS None, Jobs, Primary, DisputedAt, MaxEpoch, Grace, MinOthers,
          DeskProfiles   \* [flags, left]: how the judge is configured and what is disputed
                         \* ([two, div, abandon, open]), with the budget of each fault

VARIABLES epoch,      \* chain: the epoch of the height
          jury,       \* chain: "none", "me" (this juror is seated) or "other"
          open,       \* chain: audits disputed and not resolved
          verdict,    \* chain: this juror's verdict
          vtx,        \* a verdict broadcast whose inclusion was not seen
          roots,      \* chain: jobs under the marker of a primary and epoch, {} when none
          lists,      \* relay: the list of a marker
          copies,     \* relay: jobs revealed to this juror
          rw,         \* reveal workers: [done, pending, cur]
          jw,         \* the judge worker
          past,       \* what this judge process did on an audit
          flags,
          deskLeft

dvars == <<epoch, jury, open, verdict, vtx, roots, lists, copies, rw, jw, past, flags, deskLeft>>
dchain == <<epoch, jury, open, verdict, vtx, roots>>
drelay == <<lists, copies>>

-----------------------------------------------------------------------------
(* The decisions of the judge worker that read nothing themselves: the verdict on a   *)
(* revealed answer from the readings of the judge model, and the vote on an absent     *)
(* reveal from the markers and from what the other primaries deliver.                   *)

Reading == {"yes", "no", "unread"}

(* One attempt's readings, made in the order of decide_verdict up to the one that     *)
(* decides: the comparisons and how many references were generated. A reading that was *)
(* not reached is filed as unread; an unread relevance goes on like a read one.        *)
Readings(rel, gens, s12, sc, s13, multi) ==
  [relevant : rel, gens : gens, same12 : s12, sc : sc, same13 : s13, multi : multi]

Attempt ==
  LET on == {"yes", "unread"}
      none == {"unread"}
  IN  Readings({"no"}, {0}, none, none, none, none)
      \union Readings(on, {0, 1}, none, none, none, none)
      \union Readings(on, {2}, {"no", "unread"}, none, none, none)
      \union Readings(on, {2}, {"yes"}, Reading, none, none)
      \union Readings(on, {3}, {"yes"}, {"no"}, {"no", "unread"}, none)
      \union Readings(on, {3}, {"yes"}, {"no"}, {"yes"}, Reading)

Out(v, stage) == [v |-> v, stage |-> stage]

(* decide_verdict, in its order of stages, for one coherence reading.              *)
DecideVerdict(coherent, r) ==
  IF coherent = "no" THEN Out("invalid", "coherence")
  ELSE IF r.relevant = "no" THEN Out("abstain", "relevance")
  ELSE IF r.gens < 2 THEN Out("abstain", "gen-fail")
  ELSE IF r.same12 = "unread" THEN Out("abstain", "sc-unreadable")
  ELSE IF r.same12 = "no" THEN Out("abstain", "sc-diverge")
  ELSE IF r.sc = "unread" THEN Out("abstain", "sc-unreadable")
  ELSE IF r.sc = "yes" THEN Out("valid", "sc-valid")
  ELSE IF r.gens < 3 THEN Out("abstain", "gen-fail")
  ELSE IF r.same13 # "yes" THEN Out("abstain", "sc-unstable")
  ELSE IF r.multi = "yes" THEN Out("abstain", "multiok")
  ELSE IF r.multi = "unread" THEN Out("abstain", "multiok-unreadable")
  ELSE Out("invalid", "slash")

(* The divergence guard: an invalid read against this judge's own references is      *)
(* held unless armed.                                                               *)
DivergenceGuard(o, armed) ==
  IF o.v = "invalid" /\ o.stage = "slash" /\ ~ armed THEN Out("abstain", "divergence-held") ELSE o

(* abstain_to_vote: only a proven ambiguity becomes a valid vote.                   *)
Ambiguous == {"sc-diverge", "multiok"}

BenefitOfDoubt(o, allowed) ==
  IF o.v = "abstain" /\ o.stage \in Ambiguous /\ allowed THEN Out("valid", o.stage) ELSE o

(* judge_revealed. `pm` is prompt_check, `anchor` the reading of the committed       *)
(* embedding, `cap` whether the request's envelope was read.                        *)
PromptCheck == {"match", "mismatch", "unreadable", "unverified"}
Anchor == {"same", "other", "unreadable", "shape"}

JudgeRevealed(pm, anchor, cap, coherent, r, armed, allowed) ==
  IF pm = "mismatch" THEN Out("abstain", "prompt-mismatch")
  ELSE IF anchor = "unreadable" THEN Out("abstain", "anchor-unreadable")
  ELSE IF anchor = "shape" THEN Out("abstain", "anchor-shape")
  ELSE IF anchor = "other" THEN Out("abstain", "anchor-mismatch")
  ELSE IF pm = "unreadable" THEN Out("abstain", "prompt-unreadable")
  ELSE IF (~ cap \/ pm = "unverified") /\ coherent = "no" THEN Out("invalid", "coherence")
  ELSE IF pm = "unverified" THEN Out("abstain", "prompt-unverified")
  ELSE IF ~ cap THEN Out("abstain", "request-unreadable")
  ELSE BenefitOfDoubt(DivergenceGuard(DecideVerdict(coherent, r), armed), allowed)

(* The coherence stage is reached: its reading is made, and kept when definite.      *)
CoherenceAsked(pm, anchor) == pm \in {"match", "unverified"} /\ anchor = "same"

(* Abstentions that are tried again; every other one is a judgment, given once.      *)
RetryStages == {"judge-error", "gen-fail", "request-unreadable", "anchor-unreadable", "sc-unreadable",
                "multiok-unreadable", "prompt-unreadable", "memory-guard"}

(* Stages after which an ambiguity found by a later attempt does not vote.           *)
AgreedRefsStages == {"sc-unreadable", "multiok-unreadable"}

(* Every outcome of one attempt for a coherence reading: what a retry of the same     *)
(* audit may draw again.                                                            *)
Outcomes(c, armed, allowed) ==
  LET outcome(pm, an, cap, r) ==
        [out |-> JudgeRevealed(pm, an, cap, c, r, armed, allowed), asked |-> CoherenceAsked(pm, an)]
      unreached == CHOOSE r \in Attempt : r.relevant = "no"
  IN  { outcome("match", "same", TRUE, r) : r \in Attempt }
      \union { outcome(k.pm, k.an, k.cap, unreached) : k \in
                { x \in [pm : PromptCheck, an : Anchor, cap : BOOLEAN] : x # [pm |-> "match", an |-> "same", cap |-> TRUE] } }

-----------------------------------------------------------------------------
(* An absent reveal                                                             *)

(* covering_epochs with its default span.                                         *)
CoveringEpochs(e) == {e, e + 1}

(* marker_state: `found` gives the jobs under the root each epoch anchored ({} is    *)
(* none), `served` the list the relay serves ({} is unreadable).                     *)
MarkerState(j, e, found, served) ==
  LET anchored == { x \in CoveringEpochs(e) : found[x] # {} }
      unreliable(x) == served[x] # found[x]
      before(x) == { y \in anchored : y < x }
  IN  IF \E x \in anchored : unreliable(x) /\ \A y \in before(x) : ~ unreliable(y) /\ j \notin found[y]
      THEN "unread"
      ELSE IF \E x \in anchored : j \in found[x] THEN "yes" ELSE "no"

(* marker_stage_usable: some primary mute in this pass has anchored a marker.        *)
MarkerStageUsable(n) == n >= 1

NorevealVerdictFault(marker, othersOk, othersMissing, minOthers) ==
  IF marker = "no" THEN Out("0", "stage1")
  ELSE IF othersOk + othersMissing >= minOthers THEN Out("0", "stage2") ELSE Out("abstain", "undecidable")

(* noreveal_verdict: "0" or an abstention, with the stage that decides.              *)
NorevealVerdict(marker, othersOk, othersMissing, minOthers) ==
  IF marker = "no" THEN Out("0", "stage1")
  ELSE IF othersOk + othersMissing < minOthers THEN Out("abstain", "undecidable")
  ELSE IF othersOk >= minOthers THEN Out("0", "stage2")
  ELSE Out("abstain", "correlated")

-----------------------------------------------------------------------------
Primaries == { Primary[j] : j \in Jobs }
Epochs == 0..(MaxEpoch + 1)
DeskFault(f) == deskLeft[f] > 0 /\ deskLeft' = [deskLeft EXCEPT ![f] = @ - 1]

-----------------------------------------------------------------------------
(* The chain                                                                    *)

NextEpoch ==
  /\ epoch < MaxEpoch /\ epoch' = epoch + 1
  /\ UNCHANGED <<jury, open, verdict, vtx, roots, drelay, rw, jw, past, flags, deskLeft>>

SeatJury(j) ==
  /\ jury[j] = "none" /\ j \in open /\ epoch >= DisputedAt[j]
  /\ \E who \in {"me", "other"} : jury' = [jury EXCEPT ![j] = who]
  /\ UNCHANGED <<epoch, open, verdict, vtx, roots, drelay, rw, jw, past, flags, deskLeft>>

CloseAudit(j) ==
  /\ j \in open /\ jury[j] # "none" /\ open' = open \ {j}
  /\ UNCHANGED <<epoch, jury, verdict, vtx, roots, drelay, rw, jw, past, flags, deskLeft>>

VerdictSettled(j) ==
  /\ vtx[j] # None /\ vtx' = [vtx EXCEPT ![j] = None]
  /\ \E lands \in BOOLEAN :
       verdict' = IF lands /\ verdict[j] = None THEN [verdict EXCEPT ![j] = vtx[j]] ELSE verdict
  /\ UNCHANGED <<epoch, jury, open, roots, drelay, rw, jw, past, flags, deskLeft>>

-----------------------------------------------------------------------------
(* The reveal worker                                                            *)

FreshReveal == [done |-> {}, pending |-> [e \in Epochs |-> {}], cur |-> None]

(* anchor_marker of every elapsed epoch with a reveal, at the round that reads a     *)
(* new epoch. The list goes to the relay first; the chain's answer is the            *)
(* broadcast's. A failure keeps the epoch, for the next change of epoch.             *)
Elapsed(p) == { e \in Epochs : e < epoch /\ rw[p].pending[e] # {} }

RootedFault(fate) == fate \in {"anchored", "relay"}
Rooted(fate) == fate = "anchored"

EpochTurn(p) ==
  /\ rw[p].cur # epoch
  /\ \E fate \in {"anchored", "relay", "refused", "lost"} :
       LET closed == IF rw[p].cur = None THEN {} ELSE Elapsed(p)
           kept == fate \in {"relay", "refused"}
       IN  /\ IF fate = "anchored" THEN UNCHANGED deskLeft
              ELSE closed # {} /\ DeskFault(IF fate = "lost" THEN "lost" ELSE "marker")
           /\ lists' = [lists EXCEPT ![p] = [e \in Epochs |->
                IF e \in closed /\ fate # "relay" THEN rw[p].pending[e] ELSE @[e]]]
           /\ roots' = [roots EXCEPT ![p] = [e \in Epochs |->
                IF e \in closed /\ Rooted(fate) /\ @[e] = {} THEN rw[p].pending[e] ELSE @[e]]]
           /\ rw' = [rw EXCEPT ![p].cur = epoch,
                               ![p].pending = [e \in Epochs |-> IF e \in closed /\ ~ kept THEN {} ELSE @[e]]]
  /\ UNCHANGED <<epoch, jury, open, verdict, vtx, copies, jw, past, flags>>

(* decide_reveal: sealed to the anchored jury, to nobody before there is one.        *)
SealsTo(j) == jury[j] # "none"

(* reveal_disputed_job, then main: a job is retired once every juror's copy is        *)
(* accepted, and noted under the last epoch read. A copy may be stored and its        *)
(* answer lost; the retry then finds it.                                             *)
Noted(p, j) ==
  IF rw[p].cur = None THEN rw[p].pending ELSE [rw[p].pending EXCEPT ![rw[p].cur] = @ \union {j}]

Reveal(j) ==
  LET p == Primary[j] IN
  /\ j \in open /\ j \notin rw[p].done /\ SealsTo(j)
  /\ \E told \in BOOLEAN :
       /\ IF told THEN UNCHANGED deskLeft ELSE j \notin copies /\ jury[j] = "me" /\ DeskFault("put")
       /\ copies' = IF jury[j] = "me" THEN copies \union {j} ELSE copies
       /\ rw' = IF told THEN [rw EXCEPT ![p].done = @ \union {j}, ![p].pending = Noted(p, j)] ELSE rw
  /\ UNCHANGED <<dchain, lists, jw, past, flags>>

RestartReveal(p) ==
  /\ DeskFault("crash") /\ rw[p] # FreshReveal
  /\ rw' = [rw EXCEPT ![p] = FreshReveal]
  /\ UNCHANGED <<dchain, drelay, jw, past, flags>>

-----------------------------------------------------------------------------
(* The judge worker                                                             *)

FreshJudge ==
  [done |-> {}, miss |-> [j \in Jobs |-> 0], seat |-> [j \in Jobs |-> None], decided |-> [j \in Jobs |-> None],
   agreed |-> {}, memo |-> [j \in Jobs |-> None], slow |-> {}, zero |-> {},
   owed |-> {}, counted |-> [j \in Jobs |-> 0]]       \* JudgeLedger: pending and abstentions

(* History of the process: completed judgments, definite coherence readings, whether  *)
(* an attempt got past its references agreeing, a posting raised, why a "0" was voted   *)
(* without a reveal.                                                                *)
FreshPast ==
  [j \in Jobs |-> [given |-> 0, voted |-> FALSE, read |-> 0, stage |-> FALSE, raised |-> FALSE, zero |-> None]]

ConcludedFault(w, S) ==
  [w EXCEPT !.counted = [j \in Jobs |-> @[j] + IF j \in S \cap w.owed THEN 1 ELSE 0]]

(* JudgeLedger: concluded, answered, concluded_outside.                             *)
Concluded(w, S) ==
  [w EXCEPT !.owed = @ \ S, !.counted = [j \in Jobs |-> @[j] + IF j \in S \cap w.owed THEN 1 ELSE 0]]
AnsweredFault(w, j) == w
Answered(w, j) == [w EXCEPT !.owed = @ \ {j}]
Abstained(w, j) == [w EXCEPT !.owed = @ \union {j}]
Retired(w, j) == [w EXCEPT !.done = @ \union {j}]

(* The seat of a job as this pass reads it: an anchored jury is read once.           *)
SeatRead(j, unread) ==
  IF jw.seat[j] # None THEN jw.seat[j] ELSE IF unread THEN "unknown" ELSE jury[j]

(* noreveal_action: waits for the grace, then retries for ever, unless the operator    *)
(* set a horizon.                                                                   *)
PastGrace(j) == jw.miss[j] + 1 >= Grace
GivenUpFault(late) == late
GivenUp(late) == IF flags.abandon THEN late ELSE {}

(* Statistics of one pass over the jobs observed.                                   *)
Mute(obs, seen) == obs \ seen
Others(j, S) == Cardinality({ k \in S : Primary[k] # Primary[j] })
Anchors(j) == \E e \in CoveringEpochs(DisputedAt[j]) : roots[Primary[j]][e] # {}
Stage1Ok(obs, seen) == MarkerStageUsable(Cardinality({ Primary[j] : j \in { k \in Mute(obs, seen) : Anchors(k) } }))
Served(p, up) == [e \in Epochs |-> IF up THEN lists[p][e] ELSE {}]

NoRevealVote(j, obs, seen, up) ==
  NorevealVerdict(IF Stage1Ok(obs, seen)
                  THEN MarkerState(j, DisputedAt[j], roots[Primary[j]], Served(Primary[j], up)) ELSE "unread",
                  Others(j, seen), Others(j, Mute(obs, seen)), MinOthers)

(* Pass 1: the disputed list, the seats, the reveals, then what is done about those   *)
(* that are missing. `due` are the jobs whose pause is over.                         *)
Scan ==
  /\ jw.slow = {} /\ jw.zero = {}
  /\ \E due \in SUBSET (open \ jw.done), up \in BOOLEAN, unread \in BOOLEAN :
       /\ due # {}
       /\ (~ up => deskLeft.relay > 0) /\ (unread => deskLeft.seat > 0)
       /\ deskLeft' = [f \in DOMAIN deskLeft |->
            deskLeft[f] - IF (f = "relay" /\ ~ up) \/ (f = "seat" /\ unread) THEN 1 ELSE 0]
       /\ LET seat == [j \in due |-> SeatRead(j, unread)]
              obs == { j \in due : seat[j] \in {"me", "unknown"} }
              seen == IF up THEN obs \cap copies ELSE {}
              late == { j \in Mute(obs, seen) : PastGrace(j) }
              quit == GivenUp(late)
              zero == IF flags.two THEN { j \in late \ quit : NoRevealVote(j, obs, seen, up).v = "0" } ELSE {}
              w == Concluded(jw, (jw.owed \ open) \union quit)
          IN  /\ jw' = [w EXCEPT
                   !.seat = [j \in Jobs |-> IF j \in due /\ seat[j] \in {"me", "other"} THEN seat[j] ELSE @[j]],
                   !.done = @ \union { j \in due : seat[j] = "other" } \union quit,
                   !.owed = @ \ { j \in due : seat[j] = "other" },
                   !.miss = [j \in Jobs |-> IF j \in seen THEN 0
                                            ELSE IF j \in obs /\ @[j] < Grace THEN @[j] + 1 ELSE @[j]],
                   !.slow = seen, !.zero = zero]
              /\ past' = [j \in Jobs |->
                   IF j \in zero THEN [past[j] EXCEPT !.zero = [stage |-> NoRevealVote(j, obs, seen, up).stage,
                                                                  there |-> j \in copies]] ELSE past[j]]
  /\ UNCHANGED <<dchain, drelay, rw, flags>>

(* The audits that left the list are concluded by the ledger at the next pass.        *)
Leave ==
  /\ jw.slow = {} /\ jw.zero = {} /\ jw.owed \ open # {}
  /\ jw' = Concluded(jw, jw.owed \ open)
  /\ UNCHANGED <<dchain, drelay, rw, past, flags, deskLeft>>

(* verdict_post_outcome. What the worker does next is `after(outcome)`. What is       *)
(* raised by the call (a timeout) may come before or after the broadcast.             *)
Post(j, v, after(_), raised) ==
  \E st \in {"anchored", "already-set", "refused", "unconfirmed", "pooled", "raised"} :
    /\ st = "already-set" <=> verdict[j] # None
    /\ IF st \in {"anchored", "already-set"} THEN UNCHANGED deskLeft
       ELSE DeskFault(IF st = "raised" THEN "raise" ELSE "tx")
    /\ verdict' = IF st = "anchored" THEN [verdict EXCEPT ![j] = v] ELSE verdict
    /\ \E sent \in BOOLEAN :
         /\ st # "raised" => sent = (st = "pooled")
         /\ vtx' = IF sent THEN [vtx EXCEPT ![j] = v] ELSE vtx
    /\ past' = IF st = "raised" THEN [past EXCEPT ![j].raised = TRUE] ELSE past
    /\ \E adjudicated \in BOOLEAN :
         open' = IF adjudicated /\ st = "anchored" THEN open \ {j} ELSE open
    /\ jw' = IF st = "raised" THEN raised ELSE after(st)

(* Pass 1b: the "0" on an absent reveal.                                            *)
PostZero(j) ==
  LET w == [jw EXCEPT !.zero = @ \ {j}]
      after(st) == IF st \in {"anchored", "already-set"} THEN Retired(Answered(w, j), j) ELSE w
  IN  /\ j \in jw.zero
      /\ Post(j, "0", after, [jw EXCEPT !.zero = {}, !.slow = {}])    \* what is raised here ends the pass
      /\ UNCHANGED <<epoch, jury, roots, drelay, rw, flags>>

(* Pass 2, before the judgment: this juror's verdict found on chain retires the audit, *)
(* and the memory guard may hold the attempt back.                                   *)
Turn(j) == j \in jw.slow /\ jw.zero = {} /\ jw.decided[j] = None

FoundOnChain(j) ==
  /\ j \in jw.slow /\ jw.zero = {} /\ verdict[j] # None
  /\ jw' = [Retired(Answered(jw, j), j) EXCEPT !.decided[j] = None, !.slow = @ \ {j}]
  /\ UNCHANGED <<dchain, drelay, rw, past, flags, deskLeft>>

HeldBack(j) ==
  /\ Turn(j) /\ verdict[j] = None /\ DeskFault("engine")
  /\ jw' = [Abstained(jw, j) EXCEPT !.slow = @ \ {j}]
  /\ UNCHANGED <<dchain, drelay, rw, past, flags>>

(* ambiguity_vote_allowed.                                                         *)
AmbiguityVoteAllowedFault(j) == TRUE
AmbiguityVoteAllowed(j) == j \notin jw.agreed

(* coherence_memo: a definite reading of an answer is made once per process.          *)
CoherenceReadings(j) == IF jw.memo[j] # None THEN {jw.memo[j]} ELSE Reading
MemoFault(j, c) == None
Memo(j, c) == IF c = "unread" THEN jw.memo[j] ELSE c

(* A verdict is kept until it is seen on chain; a completed abstention is final; an    *)
(* attempt that could not judge is tried again.                                      *)
KeepsFault(o) == None
Keeps(o) == IF o.v = "abstain" THEN None ELSE [v |-> IF o.v = "valid" THEN "1" ELSE "0", stage |-> o.stage]

Judge(j) ==
  /\ Turn(j) /\ verdict[j] = None
  /\ \E c \in CoherenceReadings(j) : \E r \in Outcomes(c, flags.div, AmbiguityVoteAllowed(j)) :
       LET o == r.out
           retried == o.v = "abstain" /\ o.stage \in RetryStages
           final == o.v = "abstain" /\ ~ retried
           w == [jw EXCEPT !.decided[j] = Keeps(o),
                           !.memo[j] = IF r.asked THEN Memo(j, c) ELSE @,
                           !.agreed = IF o.stage \in AgreedRefsStages THEN @ \union {j} ELSE @,
                           !.slow = IF o.v = "abstain" THEN @ \ {j} ELSE @]
       IN  /\ IF retried THEN DeskFault("engine") ELSE UNCHANGED deskLeft
           /\ jw' = IF retried THEN Abstained(w, j)
                    ELSE IF final THEN Retired(Concluded(Abstained(w, j), {j}), j)
                    ELSE Answered(w, j)
           /\ past' = [past EXCEPT ![j] = [@ EXCEPT
                !.given = IF retried THEN @ ELSE @ + 1,
                !.voted = @ \/ o.v # "abstain",
                !.read = IF r.asked /\ c # "unread" /\ jw.memo[j] = None THEN @ + 1 ELSE @,
                !.stage = @ \/ o.stage \in AgreedRefsStages]]
  /\ UNCHANGED <<dchain, drelay, rw, flags>>

(* The decided verdict is posted, and posted again while it is not on chain.          *)
PostVerdict(j) ==
  LET w == [jw EXCEPT !.slow = @ \ {j}]
      after(st) ==
        IF st = "anchored" THEN [Retired(w, j) EXCEPT !.decided[j] = None]
        ELSE IF st = "already-set" THEN [Retired(Answered(w, j), j) EXCEPT !.decided[j] = None] ELSE w
  IN  /\ j \in jw.slow /\ jw.zero = {} /\ jw.decided[j] # None /\ verdict[j] = None
      /\ Post(j, jw.decided[j].v, after, Abstained(w, j))
      /\ UNCHANGED <<epoch, jury, roots, drelay, rw, flags>>

RestartJudge ==
  /\ DeskFault("crash") /\ jw # FreshJudge
  /\ jw' = FreshJudge /\ past' = FreshPast
  /\ UNCHANGED <<dchain, drelay, rw, flags>>

-----------------------------------------------------------------------------
Init ==
  /\ epoch = 0 /\ \E prof \in DeskProfiles : flags = prof.flags /\ deskLeft = prof.left /\ open = prof.flags.open
  /\ jury = [j \in Jobs |-> "none"] /\ verdict = [j \in Jobs |-> None] /\ vtx = [j \in Jobs |-> None]
  /\ roots = [p \in Primaries |-> [e \in Epochs |-> {}]] /\ lists = roots /\ copies = {}
  /\ rw = [p \in Primaries |-> FreshReveal] /\ jw = FreshJudge /\ past = FreshPast

JudgeStep == Scan \/ Leave \/ \E j \in Jobs : PostZero(j) \/ FoundOnChain(j) \/ HeldBack(j) \/ Judge(j) \/ PostVerdict(j)
RevealStep == \E j \in Jobs : Reveal(j)

Next ==
  \/ NextEpoch \/ \E j \in Jobs : SeatJury(j) \/ CloseAudit(j) \/ VerdictSettled(j)
  \/ RevealStep \/ \E p \in Primaries : EpochTurn(p) \/ RestartReveal(p)
  \/ JudgeStep \/ RestartJudge

Spec == Init /\ [][Next]_dvars

(* Both workers poll their list for ever and try every due job of it in each pass; a   *)
(* retried attempt's failures are finitely many.                                      *)
Listed(j) == Scan /\ j \in jw'.slow
Fair ==
  /\ \A j \in Jobs : WF_dvars(Reveal(j)) /\ WF_dvars(PostZero(j)) /\ WF_dvars(FoundOnChain(j))
                     /\ WF_dvars(Judge(j)) /\ WF_dvars(PostVerdict(j))
                     /\ SF_dvars(Listed(j))

-----------------------------------------------------------------------------
(* Properties                                                                   *)

(* The shape of the state.                                                       *)
TypeOK ==
  /\ \A j \in Jobs : verdict[j] \in {None, "0", "1"} /\ jw.miss[j] \in 0..Grace /\ jw.counted[j] \in 0..1
  /\ jw.slow \subseteq copies /\ jw.zero \cap jw.slow = {}
  /\ \A p \in Primaries : \A e \in Epochs : roots[p][e] \subseteq { j \in Jobs : Primary[j] = p }

(* "A completed judgment is final; a failed one is not": one process completes at    *)
(* most one judgment of an audit, whatever becomes of its transaction, and reads the   *)
(* coherence of its answer at most once definitely.                                   *)
JudgedOnce == \A j \in Jobs : past[j].given <= 1 /\ past[j].read <= 1

(* "A retry must not be a second draw at an acquittal": after an attempt that ended at *)
(* a stage of AGREED_REFS_STAGES, no ambiguity votes for the audit in this process.     *)
AcquittedOnce == \A j \in Jobs : jw.decided[j] # None /\ past[j].stage => jw.decided[j].stage \notin Ambiguous

(* anchor_marker: the list is published before its root, so a marker on chain can be   *)
(* checked by every juror.                                                           *)
MarkerVerifiable == \A p \in Primaries : \A e \in Epochs : roots[p][e] # {} => lists[p][e] = roots[p][e]

(* An audit counted as left without an answer has no verdict this process decided and  *)
(* the chain holds. The exception is one whose posting raised: that is filed as an      *)
(* abstention of the audit, and nothing withdraws it if the audit closes before this    *)
(* judge sees the verdict that landed.                                               *)
Unanswered(j) == ~ (jw.counted[j] > 0 /\ past[j].voted /\ verdict[j] # None)
AnsweredNotCounted == \A j \in Jobs : ~ past[j].raised => Unanswered(j)

(* JudgeLedger: "the audits this judge left without an answer, each counted once".      *)
CountedUnanswered == \A j \in Jobs : Unanswered(j)

(* An outage of the relay never makes the correlation stage accuse a primary whose     *)
(* copies are there.                                                                *)
OutageNotIsolated == \A j \in jw.zero : ~ (past[j].zero.there /\ past[j].zero.stage = "stage2")

Seated(j) == jury[j] = "me" /\ j \in open /\ ~ flags.abandon
VerdictIn(j) == j \notin open \/ verdict[j] # None \/ (past[j].given > 0 /\ ~ past[j].voted)

(* noreveal_action: "Abstention is a state, not a verdict". A juror seated on an audit  *)
(* that stays open ends with a verdict, or with a completed judgment that abstains.     *)
SeatAnswered == \A j \in Jobs : Seated(j) ~> VerdictIn(j)
=============================================================================

----------------------------- MODULE SeasonJury -----------------------------
(* The jurors' part of a day's ranking (services/final_season_facts.py,       *)
(* final_season_rank.py, the readers of final_season_chain.py): the audits of  *)
(* the programme's requests on chain, the reveals the relay records, the       *)
(* controlled-fault period with its commitment, and the ranking of one day     *)
(* computed from what the chain says when it is read. A published ranking is   *)
(* never computed again by the service; any reader may recompute it later.     *)
(* Every request was settled in the day, by block Settled; the committee is    *)
(* the same for every audit. Time runs two units per block: BlockTime(h) = 2h. *)
EXTENDS Naturals, FiniteSets

CONSTANTS
  None, Jobs, Jurors,
  Sets,          \* rule sets of the run: "kit" (decision 24) or "jury"
  Faults,        \* the requests the seed of the fault period draws
  First, Last,   \* the day's counted blocks
  Settled,
  Unwind, Timeout, Margin,   \* audit_unwind_blocks, audit_resolve_timeout, FINALITY_MARGIN
  Quorum, MaxHeight

VARIABLES
  height,
  drawn,      \* the block of each audit's draw
  commit,     \* each juror's verdict on each job: vote, block, whether the outcome was public
  resolved,   \* each audit's resolution: block, where, outcome
  arrival,    \* when the relay recorded the reveal of each job sealed to each juror
  memo,       \* the block of the fault commitment's memo
  reveal,     \* the fault reveal: what each listed request is said to be
  set,        \* the rule set of the day
  published   \* the day's ranking

vars == <<height, drawn, commit, resolved, arrival, memo, reveal, set, published>>

-----------------------------------------------------------------------------
(* The chain                                                                   *)

BlockTime(h) == 2 * h

(* A juror's verdict is accepted whenever the audit has been drawn, after its   *)
(* resolution too (F3), and is never overwritten.                               *)
CommitFault(j, m, v) ==
  /\ height < MaxHeight /\ commit[j][m] = None
  /\ commit' = [commit EXCEPT ![j][m] = [vote |-> v, h |-> height, public |-> resolved[j] # None]]
  /\ UNCHANGED <<height, drawn, resolved, arrival, memo, reveal, set, published>>

Commit(j, m, v) ==
  /\ height < MaxHeight
  /\ drawn[j] # None /\ commit[j][m] = None
  /\ commit' = [commit EXCEPT ![j][m] = [vote |-> v, h |-> height, public |-> resolved[j] # None]]
  /\ UNCHANGED <<height, drawn, resolved, arrival, memo, reveal, set, published>>

Voters(j) == {m \in Jurors : commit[j][m] # None}
For(j, v) == {m \in Voters(j) : commit[j][m].vote = v}
Majority(j) == IF Cardinality(For(j, 0)) > Cardinality(For(j, 1)) THEN 0 ELSE 1

Open(j) == drawn[j] # None /\ resolved[j] = None

(* MsgAdjudicateDispute: a transaction; the votes of its block may come after.  *)
Adjudicate(j) ==
  /\ Open(j) /\ Voters(j) # {}
  /\ resolved' = [resolved EXCEPT ![j] = [h |-> height, in |-> "tx", outcome |-> Majority(j)]]
  /\ UNCHANGED <<height, drawn, commit, arrival, memo, reveal, set, published>>

(* The end of a block: a draw, the deadline's tally, or the unwind of an audit   *)
(* that could not conclude. Every audit of the day has ended at Settled + Unwind *)
(* + Timeout at the latest.                                                      *)
EndOf(j) == Settled + Unwind + Timeout

EndBlock ==
  /\ height < MaxHeight
  /\ height' = height + 1
  /\ \E draw \in SUBSET {j \in Jobs : drawn[j] = None}, end \in SUBSET {j \in Jobs : resolved[j] = None} :
       /\ \A j \in Jobs : height >= EndOf(j) => resolved[j] # None \/ j \in end
       /\ \A j \in draw : resolved[j] = None /\ j \notin end
       /\ drawn' = [j \in Jobs |-> IF j \in draw THEN height ELSE drawn[j]]
       /\ resolved' = [j \in Jobs |->
            IF j \notin end THEN resolved[j]
            ELSE IF Cardinality(Voters(j)) >= Quorum
                   THEN [h |-> height, in |-> "end", outcome |-> Majority(j)]
            ELSE [h |-> height, in |-> "end", outcome |-> None]]   \* unwound
  /\ UNCHANGED <<commit, arrival, memo, reveal, set, published>>

(* The relay records the reveal sealed to a juror between two blocks.            *)
Arrive(j, m) ==
  /\ drawn[j] # None /\ arrival[j][m] = None /\ height < EndOf(j)
  /\ arrival' = [arrival EXCEPT ![j][m] = BlockTime(height) - 1]
  /\ UNCHANGED <<height, drawn, commit, resolved, memo, reveal, set, published>>

(* The season payer's memo, and the reveal of the period after it; only a day of  *)
(* the jury set reads them.                                                       *)
PutMemo ==
  /\ set = "jury" /\ memo = None /\ height <= First
  /\ memo' = height
  /\ UNCHANGED <<height, drawn, commit, resolved, arrival, reveal, set, published>>

(* check_fault_reveal: only requests the seed draws, each faulted or honest.      *)
PutReveal(r) ==
  /\ set = "jury" /\ reveal = None /\ height > Last
  /\ reveal' = r
  /\ UNCHANGED <<height, drawn, commit, resolved, arrival, memo, set, published>>

-----------------------------------------------------------------------------
(* The ranking                                                                  *)

(* finality_blocks.                                                             *)
Finality == Unwind + Timeout + Margin
WindowEnd == Last + Finality

(* rank_day, juried: the audits a day reads, concluded or, under the jury set,   *)
(* unwound too.                                                                 *)
Audited == {j \in Jobs : resolved[j] # None /\ (resolved[j].outcome # None \/ set = "jury")}

(* verdict_commits: what the commits hold now; commit_height: their block in the *)
(* window from the draw to the day's final block, None outside it.               *)
Commits == [j \in Audited |-> {m \in Jurors : commit[j][m] # None}]
Committed(j, m) ==
  LET h == commit[j][m].h IN IF h >= drawn[j] /\ h <= WindowEnd THEN h ELSE None

(* timely_verdicts: committed before the resolution.                             *)
TimelyFault(j, m) == Committed(j, m) # None

Timely(j, m) ==
  LET h == Committed(j, m)
  IN  h # None /\ (h < resolved[j].h \/ (resolved[j].in = "end" /\ h = resolved[j].h))

(* The verdicts listed, counted or not: the jobs with a verdict, and for each    *)
(* those dated in the window.                                                    *)
Proof ==
  [j \in {x \in Audited : Commits[x] # {}} |-> {m \in Commits[j] : Committed(j, m) # None}]

(* jury_verdicts, judge_presence: a verdict strictly after the reveal's arrival.  *)
AfterRevealFault(j, m) == TRUE
AfterReveal(j, m) == arrival[j][m] # None /\ BlockTime(commit[j][m].h) > arrival[j][m]

(* chain_day_facts: verdicts that agree with the outcome.                         *)
Agreeing(m) == {j \in Audited : m \in Commits[j] /\ Timely(j, m) /\ commit[j][m].vote = resolved[j].outcome}

(* jury_verdicts: every timely verdict after its reveal, whatever it says.         *)
JuryPaid(m) == {j \in Audited : m \in Commits[j] /\ Timely(j, m) /\ AfterReveal(j, m)}

(* contradicted_jurors: a verdict against the outcome of an audit resolved in the  *)
(* day; its date is not read.                                                     *)
ContradictedJurors ==
  {m \in Jurors : \E j \in Audited :
     /\ m \in Commits[j] /\ resolved[j].h \in First..Last
     /\ resolved[j].outcome # None /\ commit[j][m].vote # resolved[j].outcome}

(* fault_contradictions: a "1" on a fault the reveal names; the class without a    *)
(* reveal contradicts only a juror that had none.                                  *)
FaultContradictions ==
  {m \in Jurors : \E j \in DOMAIN Proof :
     /\ m \in Proof[j] /\ commit[j][m].vote = 1
     /\ reveal # None /\ reveal[j] \in {"incoherent", "no_reveal"}
     /\ reveal[j] = "no_reveal" => arrival[j][m] = None}

(* judge_presence: seats on concluded audits drawn in the day.                    *)
JudgeActive(contradicted) ==
  {m \in Jurors \ contradicted : \E j \in Audited :
     /\ resolved[j].outcome # None /\ drawn[j] \in First..Last
     /\ m \in Commits[j] /\ Timely(j, m) /\ AfterReveal(j, m)}

(* What rank_day pays the jurors.                                                 *)
Pays ==
  LET contradicted == IF set = "jury" THEN FaultContradictions ELSE ContradictedJurors
  IN  [verdicts |-> [m \in Jurors |-> IF set = "jury"
                       THEN (IF m \in contradicted THEN {} ELSE JuryPaid(m)) ELSE Agreeing(m)],
       judges |-> JudgeActive(contradicted)]

RankDay == [pays |-> Pays, proof |-> Proof]

(* checked_faults: the memo below the period's first block and the reveal there;  *)
(* drawn_not_listed: every request the seed draws is listed.                      *)
CheckedFaults ==
  /\ memo # None /\ memo < First
  /\ reveal # None /\ \A j \in Faults : reveal[j] # None

RankableFault == height > Last /\ (set = "jury" => CheckedFaults)

(* season_window: the chain is past the day's final block; `height` is the block   *)
(* being built.                                                                     *)
Rankable == height > WindowEnd /\ (set = "jury" => CheckedFaults)

Publish ==
  /\ published = None /\ Rankable
  /\ published' = RankDay
  /\ UNCHANGED <<height, drawn, commit, resolved, arrival, memo, reveal, set>>

-----------------------------------------------------------------------------
Reveals == {r \in [Jobs -> {None, "incoherent", "no_reveal", "honest"}] : \A j \in Jobs \ Faults : r[j] = None}

Init ==
  /\ height = First - 1
  /\ drawn = [j \in Jobs |-> None]
  /\ commit = [j \in Jobs |-> [m \in Jurors |-> None]]
  /\ resolved = [j \in Jobs |-> None]
  /\ arrival = [j \in Jobs |-> [m \in Jurors |-> None]]
  /\ memo = None /\ reveal = None /\ set \in Sets /\ published = None

Next ==
  \/ EndBlock \/ PutMemo \/ Publish
  \/ \E r \in Reveals : PutReveal(r)
  \/ \E j \in Jobs : Adjudicate(j)
  \/ \E j \in Jobs, m \in Jurors : Arrive(j, m) \/ \E v \in {0, 1} : Commit(j, m, v)

Spec == Init /\ [][Next]_vars

-----------------------------------------------------------------------------
(* Properties                                                                  *)

(* A verdict is dated from the draw of its audit on, a resolution not before.   *)
TypeOK ==
  /\ height \in First - 1..MaxHeight
  /\ \A j \in Jobs, m \in Jurors : commit[j][m] # None => drawn[j] # None /\ drawn[j] <= commit[j][m].h
  /\ \A j \in Jobs : resolved[j] # None /\ resolved[j].outcome # None => drawn[j] <= resolved[j].h

(* timely_verdicts (F3): "a drawn juror who never voted could post the winning   *)
(* vote in between and be paid" - no verdict cast once the outcome was public is *)
(* ever paid, as a verdict or as a judge day.                                    *)
NoPublicVotePaid ==
  published # None =>
    /\ \A m \in Jurors : \A j \in published.pays.verdicts[m] : ~ commit[j][m].public
    /\ \A m \in published.pays.judges : \E j \in Jobs : commit[j][m] # None /\ ~ commit[j][m].public

(* jury_verdicts, judge_presence: a juror that voted before the answer sealed to  *)
(* it arrived judged nothing, and is not paid for it under the jury set.           *)
NoBlindVotePaid ==
  published # None =>
    /\ set = "jury" => \A m \in Jurors : \A j \in published.pays.verdicts[m] :
         arrival[j][m] # None /\ arrival[j][m] < BlockTime(commit[j][m].h)
    /\ \A m \in published.pays.judges : \E j \in Jobs :
         commit[j][m] # None /\ arrival[j][m] # None /\ arrival[j][m] < BlockTime(commit[j][m].h)

(* finality_blocks: whatever happens on chain after the day is final, a recompute *)
(* of the day pays every verdict exactly as published; under the jury set every   *)
(* judge day too.                                                                 *)
VerdictPayRecomputes ==
  published # None =>
    /\ Pays.verdicts = published.pays.verdicts
    /\ set = "jury" => Pays = published.pays

(* timely_verdicts: "a ranking must recompute identically" - the whole day, its     *)
(* judge days and its proof too. Violated: the first verdict on an audit nobody had *)
(* voted on adds that audit, with no juror, to the proof (verdict_commits); and,    *)
(* under the rules of decision 24, a verdict committed after the day is final       *)
(* contradicts its juror, whose judge day for another audit then goes               *)
(* (contradicted_jurors reads no date).                                             *)
DayRecomputes == published # None => RankDay = published

=============================================================================

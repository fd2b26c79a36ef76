------------------------------- MODULE Points -------------------------------
(***************************************************************************)
(* The Season 0 leaderboard (services/points_indexer.py): points computed  *)
(* from the jobs, the registry and the verdicts, gated by slashes, capped  *)
(* in three stages, and served with a mark when a read failed. The reads   *)
(* of one refresh are separate and the chain moves between them.           *)
(* Points are whole units: a computed value is rounded to the nearest one, *)
(* as the code rounds to a thousandth.                                     *)
(***************************************************************************)
EXTENDS Integers, FiniteSetsExt

CONSTANTS None,
          PointMiners, OpOf,     \* the miners and their operators
          PointClients,          \* paying addresses, an operator's among them
          Subsidised,            \* DENDRA_R2_EXCLUDE_ADDRS
          WeightJudge,           \* of a verdict; a job weighs its fee as work, half of it as use
          UseCap, OwnerCap, IdCap,   \* p / (1 - p) of each share, as [num, den]
          RefreshS, MaxPointClock, PointProfiles

VARIABLES pj,        \* the chain's jobs: id -> [st, miner, client, fee, slashed, votes]
          enrolled,  \* the registered miners
          ptime, attempt, reads,   \* clock, time of the last attempt, the refresh being made
          board,     \* what is served: [rows, current, since], with the computation and the listing behind it
          pointLeft

pointvars == <<pj, enrolled, ptime, attempt, reads, board, pointLeft>>

PJobs == DOMAIN pj
PIds == PointMiners \cup PointClients
Total(r, S) == MapThenSumSet(LAMBDA i : r[i], S)
Rounded(n, d) == (2 * n + d) \div (2 * d)
HasP(f) == pointLeft[f] > 0
TakeP(f) == pointLeft' = [pointLeft EXCEPT ![f] = @ - 1]

-----------------------------------------------------------------------------
(* The formula                                                             *)

\* Mutation: a job whose audit was unwound still counts as work and use.
BucketFault(j, operators) ==
  CASE j.st = "unpaid" -> "unpaid" [] j.st = "clawed" -> "clawed" [] j.st = "pending" -> "pending"
    [] OTHER -> IF j.client \in Subsidised THEN "subsidized"
                ELSE IF j.client \in operators THEN "operator_client" ELSE "counted"
\* What a job counts as, by its markers and then by who paid it.
Bucket(j, operators) ==
  CASE j.st = "unpaid" -> "unpaid" [] j.st = "clawed" -> "clawed" [] j.st = "pending" -> "pending"
    [] j.st = "unwound" -> "unwound"
    [] OTHER -> IF j.client \in Subsidised THEN "subsidized"
                ELSE IF j.client \in operators THEN "operator_client" ELSE "counted"

\* The outcome a verdict can agree with: none while the audit is open, or unwound with no ruling.
AuditIssue(j) == CASE j.st = "clawed" -> 0 [] j.st = "cleared" -> 1 [] OTHER -> None

\* Work, use and verdicts of each identity, nothing for a slashed one.
Raw(J, reg, V) ==
  LET operators == {OpOf[m] : m \in reg}
      b == [k \in DOMAIN J |-> Bucket(J[k], operators)]
      gated == UNION {J[k].slashed : k \in {x \in DOMAIN J : b[x] = "clawed"}}
      served(m) == {k \in DOMAIN J : J[k].miner = m /\ b[k] \in {"counted", "subsidized", "operator_client"}}
      paid(c) == {k \in DOMAIN J : J[k].client = c /\ b[k] = "counted"}
      agreed(m) == {k \in DOMAIN J : AuditIssue(J[k]) # None /\ V[k][m] = AuditIssue(J[k])}
  IN [i \in PIds |->
        IF i \in gated THEN 0
        ELSE IF i \in PointMiners
          THEN MapThenSumSet(LAMBDA k : J[k].fee, served(i)) + WeightJudge * Cardinality(agreed(i))
          ELSE MapThenSumSet(LAMBDA k : J[k].fee, paid(i)) \div 2]

\* Mutation: the cap is a share of the total that includes the capped party.
CapAbsFault(p, r, S) == [num |-> p.num * Total(r, PIds), den |-> p.num + p.den]
\* The closed-form bound of a final share: p / (1 - p) of the points of the others.
CapAbs(p, r, S) == [num |-> p.num * Total(r, PIds \ S), den |-> p.den]
Over(sum, cap) == sum > 0 /\ sum * cap.den > cap.num
Scaled(v, cap, sum) == Rounded(v * cap.num, cap.den * sum)

\* (i) the use bucket, scaled down together; without other points there is no reference.
UseStage(r) ==
  LET use == Total(r, PointClients) cap == CapAbs(UseCap, r, PointClients) IN
  IF Total(r, PointMiners) > 0 /\ Over(use, cap)
  THEN [i \in PIds |-> IF i \in PointClients THEN Scaled(r[i], cap, use) ELSE r[i]] ELSE r

\* The miners of one operator are one group; a miner the registry does not list is its own.
Group(m, reg) == IF m \in reg THEN {x \in reg : OpOf[x] = OpOf[m]} ELSE {m}

\* (ii) the groups, each against the points outside it before this stage, truncated in proportion.
OwnerStage(r, reg) ==
  [i \in PIds |-> IF i \notin PointMiners THEN r[i]
                  ELSE LET g == Group(i, reg) sum == Total(r, g) cap == CapAbs(OwnerCap, r, g)
                       IN IF Over(sum, cap) THEN Scaled(r[i], cap, sum) ELSE r[i]]

\* (iii) each identity, clients included, against the others as they enter the stage.
IdStage(r) ==
  [i \in PIds |-> LET cap == CapAbs(IdCap, r, {i}) IN IF Over(r[i], cap) THEN Rounded(cap.num, cap.den) ELSE r[i]]

ComputePoints(J, reg, V) ==
  LET raw == Raw(J, reg, V)
      a == UseStage(raw) b == OwnerStage(a, reg) c == IdStage(b)
  IN [raw |-> raw, used |-> a, owned |-> b, final |-> c, reg |-> reg]

\* The published rows: miners by name, the clients as one sum.
FoldClients(r) == [miners |-> [m \in PointMiners |-> r[m]], clients |-> Total(r, PointClients)]

-----------------------------------------------------------------------------
(* The chain                                                               *)

Moves(j, st) == pj' = [pj EXCEPT ![j].st = st]
OnlyChain == UNCHANGED <<ptime, attempt, reads, board>>

JobMoves(j) ==
  /\ HasP("moves") /\ TakeP("moves")
  /\ \/ pj[j].st = "unpaid" /\ Moves(j, "paid")
     \/ pj[j].st = "paid" /\ \E s \in {"pending", "unwound"} : Moves(j, s)
     \/ pj[j].st = "pending" /\ \E s \in {"cleared", "unwound"} : Moves(j, s)
     \/ pj[j].st = "pending" /\ \E S \in {{}, {pj[j].miner}} :
          pj' = [pj EXCEPT ![j].st = "clawed", ![j].slashed = S]
  /\ UNCHANGED enrolled /\ OnlyChain

\* A juror's verdict is written once, while the audit is open.
VerdictPosted(j, m) ==
  /\ pj[j].st = "pending" /\ m \in enrolled /\ m # pj[j].miner /\ pj[j].votes[m] = None
  /\ HasP("votes") /\ TakeP("votes")
  /\ \E v \in {0, 1} : pj' = [pj EXCEPT ![j].votes[m] = v]
  /\ UNCHANGED enrolled /\ OnlyChain

Departs(m) ==
  /\ m \in enrolled /\ HasP("departs") /\ TakeP("departs") /\ enrolled' = enrolled \ {m}
  /\ UNCHANGED pj /\ OnlyChain

PointTick == ptime < MaxPointClock /\ ptime' = ptime + 1 /\ UNCHANGED <<pj, enrolled, attempt, reads, board, pointLeft>>

-----------------------------------------------------------------------------
(* A refresh                                                               *)

NoReads == [pc |-> "idle", jobs |-> None, reg |-> None, now |-> 0]

\* A request starts one, at most one at a time and at the refresh pace; the attempt is dated before it is made.
Refresh ==
  /\ reads.pc = "idle" /\ (attempt = None \/ (attempt # None => ptime - attempt >= RefreshS))
  /\ attempt' = ptime /\ reads' = [NoReads EXCEPT !.pc = "jobs", !.now = ptime]
  /\ UNCHANGED <<pj, enrolled, ptime, board, pointLeft>>

\* Mutation: the kept board is not marked.
KeepBoardFault ==
  board' = [board EXCEPT !.since = IF @ = None THEN reads.now ELSE @]
\* Nothing is computed over what was not read: the board is kept, marked, dated by the first failure.
KeepBoard ==
  board' = [board EXCEPT !.current = FALSE, !.since = IF @ = None THEN reads.now ELSE @]
Unmeasured == HasP("fail") /\ TakeP("fail") /\ KeepBoard /\ reads' = NoReads

ReadJobs ==
  /\ reads.pc = "jobs"
  /\ \/ reads' = [reads EXCEPT !.pc = "miners", !.jobs = pj] /\ UNCHANGED <<board, pointLeft>>
     \/ Unmeasured
  /\ UNCHANGED <<pj, enrolled, ptime, attempt>>

ReadMiners ==
  /\ reads.pc = "miners"
  /\ \/ reads' = [reads EXCEPT !.pc = "verdicts", !.reg = enrolled] /\ UNCHANGED <<board, pointLeft>>
     \/ Unmeasured
  /\ UNCHANGED <<pj, enrolled, ptime, attempt>>

\* Mutation: every verdict on the chain is kept, whoever is registered.
FetchVerdictsFault == [j \in DOMAIN reads.jobs |-> [m \in PointMiners |-> pj[j].votes[m]]]
\* The verdicts of the audits the listing shows concluded, of the registered miners but the one judged; a juror who did
\* not vote is an answer, not a failure.
FetchVerdicts ==
  [j \in DOMAIN reads.jobs |->
     [m \in PointMiners |-> IF AuditIssue(reads.jobs[j]) # None /\ m \in reads.reg /\ m # reads.jobs[j].miner
                            THEN pj[j].votes[m] ELSE None]]

PublishBoard ==
  /\ reads.pc = "verdicts"
  /\ \/ /\ LET c == ComputePoints(reads.jobs, reads.reg, FetchVerdicts) IN
           board' = [rows |-> FoldClients(c.final), comp |-> c, jobs |-> reads.jobs, current |-> TRUE, since |-> None]
        /\ UNCHANGED pointLeft /\ reads' = NoReads
     \/ Unmeasured
  /\ UNCHANGED <<pj, enrolled, ptime, attempt>>

-----------------------------------------------------------------------------

Init ==
  /\ \E p \in PointProfiles :
       /\ pointLeft = p.left /\ enrolled = p.miners
       /\ pj = [k \in DOMAIN p.jobs |-> [st |-> p.jobs[k].st, miner |-> p.jobs[k].miner, client |-> p.jobs[k].client,
                   fee |-> p.jobs[k].fee, slashed |-> {}, votes |-> [m \in PointMiners |-> None]]]
  /\ ptime = 0 /\ attempt = None /\ reads = NoReads
  /\ board = [rows |-> None, comp |-> None, jobs |-> None, current |-> FALSE, since |-> None]

Next ==
  \/ \E j \in PJobs : JobMoves(j) \/ \E m \in PointMiners : VerdictPosted(j, m)
  \/ \E m \in PointMiners : Departs(m)
  \/ PointTick \/ Refresh \/ ReadJobs \/ ReadMiners \/ PublishBoard

Spec == Init /\ [][Next]_pointvars

-----------------------------------------------------------------------------
(* Properties                                                              *)

Slack(cap) == cap.den * Cardinality(PIds)
Cut(i) == board.comp.final[i] < board.comp.used[i]

\* The board is marked current exactly when no attempt failed since it was built, and a mark is dated in the past.
TypeOK ==
  /\ reads.pc \in {"idle", "jobs", "miners", "verdicts"} /\ board.current \in BOOLEAN
  /\ board.current => board.comp # None /\ board.since = None
  /\ board.since # None => board.since \in 0..ptime

\* A party's points against those of the others, at the final share a cap allows.
Within(cap, f, S, g, T) == Total(f, S) * cap.den <= cap.num * Total(g, T) + Slack(cap)

\* What the three caps bound, and what they do not. The uses published stay within their cap of what the miners had
\* when the use bucket was scaled, and the miners of one operator within theirs of what everybody else had when the
\* groups were truncated, whatever the stages after them cut (compute_points, Order). Those are not shares of what is
\* published: a cut among the others lowers the total and not the party. They are its shares when nobody else was cut.
CapsBind ==
  board.comp # None =>
    LET c == board.comp IN
    /\ Total(c.used, PointMiners) > 0 => Within(UseCap, c.final, PointClients, c.used, PointMiners)
    /\ (\A m \in PointMiners : ~Cut(m)) /\ Total(c.final, PointMiners) > 0 =>
         Within(UseCap, c.final, PointClients, c.final, PointMiners)
    /\ \A m \in PointMiners :
         LET g == Group(m, c.reg) others == PIds \ g IN
         /\ Within(OwnerCap, c.final, g, c.used, others)
         /\ (\A i \in others : ~Cut(i)) => Within(OwnerCap, c.final, g, c.final, others)

\* What compute_points publishes of itself, "the final share is bounded" (share_caps), for the use bucket. Violated when
\* a miner is truncated after the bucket was scaled against what it had.
UseShareBound ==
  board.comp # None /\ (board.comp # None => Total(board.comp.final, PointMiners) > 0) =>
    Within(UseCap, board.comp.final, PointClients, board.comp.final, PointMiners)

\* Nobody is published with more than what the verified outcomes of the listing gave it: a job still in audit, unwound
\* or clawed gives its miner and its client nothing, and a verdict counts only in agreement with a ruling.
EarnedOnly ==
  board.comp # None =>
    \A i \in PIds :
      /\ board.comp.final[i] <=
           MapThenSumSet(LAMBDA k : board.jobs[k].fee,
             {k \in DOMAIN board.jobs : board.jobs[k].st \in {"paid", "cleared"} /\ i \in {board.jobs[k].miner, board.jobs[k].client}})
           + WeightJudge * Cardinality({k \in DOMAIN board.jobs :
               i \in PointMiners /\ pj[k].st \in {"clawed", "cleared"} /\ (i \in PointMiners => pj[k].votes[i] = AuditIssue(pj[k]))})
      /\ (\E k \in DOMAIN board.jobs : board.jobs[k].st = "clawed" /\ i \in board.jobs[k].slashed) => board.comp.final[i] = 0

\* A refresh made over reads that answered is computed from one listing and its final verdicts, whatever the chain did
\* between the reads; a failed one leaves the board it keeps as it was, dated by the first failure.
BoardIsAReading ==
  board.comp # None =>
    board.comp.final = ComputePoints(board.jobs, board.comp.reg,
      [j \in DOMAIN board.jobs |-> [m \in PointMiners |->
         IF AuditIssue(board.jobs[j]) # None /\ m \in board.comp.reg THEN pj[j].votes[m] ELSE None]]).final
==============================================================================

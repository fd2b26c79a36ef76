--------------------------- MODULE ProofPartition ---------------------------
(***************************************************************************)
(* The partition of the opened audits that the public feed publishes       *)
(* (services/the_proof.py, services/c3_gate.py), read from a chain that    *)
(* moves between the reads: the counter of opened audits, the job listing, *)
(* the block events that tell where an unwound job came from, and the      *)
(* counter again.                                                          *)
(*                                                                         *)
(* The chain side is x/jobs reduced to what the feed reads: the markers of *)
(* a job, the AuditSelected set, the counter, and the events of each       *)
(* block.  Every step of it is a block.                                    *)
(***************************************************************************)
EXTENDS Integers, Sequences, FiniteSets

CONSTANTS None, AuditJobs, MaxFound, PartProfiles

VARIABLES pjob,     \* by job: [disputed, end, selected, counted]
          pOpened,  \* the chain's counter of opened audits
          events,   \* by block: [noseed, unwound, deferred]
          chainNo,  \* which chain this is (a relaunch starts another)
          rd,       \* the build being made
          origins,  \* the origin cache: [chain, scanned, noseed, drawn]
          part,     \* the last partition published: None or a record
          partLeft

partvars == <<pjob, pOpened, events, chainNo, rd, origins, part, partLeft>>
chainSide == <<pjob, pOpened, events, chainNo>>

FreshJob == [disputed |-> FALSE, end |-> None, selected |-> FALSE, counted |-> FALSE]
NewOrigins == [chain |-> None, scanned |-> 0, noseed |-> {}, drawn |-> {}]
IdleBuild == [pc |-> "idle", again |-> TRUE, before |-> None, after |-> None, listed |-> 0, top |-> 0, rows |-> <<>>,
              origin |-> None, found |-> 0]
HasP(f) == partLeft[f] > 0
TakeP(f) == partLeft' = [partLeft EXCEPT ![f] = @ - 1]
Height == Len(events)
Event(noseed, unwound, deferred) == [noseed |-> noseed, unwound |-> unwound, deferred |-> deferred]
Block(e) == events' = Append(events, e) /\ HasP("blocks") /\ TakeP("blocks")

-----------------------------------------------------------------------------
(* The chain                                                               *)

\* The lottery draws a paid job (or retries one it selected): its jury is large enough, or the audit is deferred,
\* or the retention is old and unwound at once.
Lottery(j) ==
  LET r == pjob[j]
      first == ~r.selected /\ ~r.disputed
      count == pOpened' = IF first THEN pOpened + 1 ELSE pOpened
      hit == [r EXCEPT !.counted = @ \/ first]
  IN
  /\ r.end = None
  /\ \/ Block(Event(FALSE, {}, {})) /\ count
        /\ pjob' = [pjob EXCEPT ![j] = [hit EXCEPT !.disputed = TRUE, !.selected = FALSE]]
     \/ Block(Event(FALSE, {}, {j})) /\ count /\ pjob' = [pjob EXCEPT ![j] = [hit EXCEPT !.selected = TRUE]]
     \/ Block(Event(FALSE, {j}, {})) /\ count
        /\ pjob' = [pjob EXCEPT ![j] = [hit EXCEPT !.selected = FALSE, !.end = "unwound"]]
  /\ UNCHANGED <<chainNo, rd, origins, part>>

\* A block without a decentralized seed draws nothing; it may unwind old retentions.
NoSeedBlock ==
  /\ \E S \in SUBSET {j \in AuditJobs : pjob[j].end = None} :
       /\ Block(Event(TRUE, S, {}))
       /\ pjob' = [j \in AuditJobs |-> IF j \in S THEN [pjob[j] EXCEPT !.selected = FALSE, !.end = "unwound"] ELSE pjob[j]]
  /\ UNCHANGED <<pOpened, chainNo, rd, origins, part>>

HumanDispute(j) ==
  /\ pjob[j].end = None /\ ~pjob[j].disputed
  /\ Block(Event(FALSE, {}, {}))
  /\ pOpened' = IF pjob[j].selected THEN pOpened ELSE pOpened + 1
  /\ pjob' = [pjob EXCEPT ![j].disputed = TRUE, ![j].counted = TRUE]
  /\ UNCHANGED <<chainNo, rd, origins, part>>

Resolve(j) ==
  /\ pjob[j].end = None /\ pjob[j].disputed
  /\ \E e \in {"quorum", "noquorum", "adjudicated", "unwound"} :
       /\ Block(Event(FALSE, IF e = "unwound" THEN {j} ELSE {}, {}))
       /\ pjob' = [pjob EXCEPT ![j].end = e, ![j].selected = FALSE]
  /\ UNCHANGED <<pOpened, chainNo, rd, origins, part>>

\* The chain is relaunched from nothing, between two builds.
Relaunch ==
  /\ rd.pc = "idle" /\ HasP("relaunch") /\ TakeP("relaunch")
  /\ chainNo' = chainNo + 1 /\ pOpened' = 0
  /\ pjob' = [j \in AuditJobs |-> FreshJob] /\ events' = <<Event(FALSE, {}, {})>>
  /\ UNCHANGED <<rd, origins, part>>

-----------------------------------------------------------------------------
(* The classes                                                             *)

\* The class of one job from its markers; an unwind without a dispute is split later, by its origin.
AuditClass(r) ==
  IF r.disputed THEN (IF r.end = None THEN "audit_pending" ELSE r.end)
  ELSE IF r.end = "unwound" THEN "undisputed_unwound" ELSE None

\* Whether the reads straddle a change of the chain; unknown when a counter was not read.
ChainMovedFault(before, after) ==
  IF before = None \/ after = None THEN None ELSE before.opened # after.opened
ChainMoved(before, after) ==
  IF before = None \/ after = None THEN None ELSE before # after

ClassOf(rows, c) == {j \in DOMAIN rows : AuditClass(rows[j]) = c}
Classed(rows) == {j \in DOMAIN rows : AuditClass(rows[j]) \notin {None, "undisputed_unwound"}}

\* Undisputed unwound jobs: never drawn when unwound in a no-seed block and named by no deferral.
AfterDeferral(un, origin) ==
  IF un = {} THEN 0 ELSE IF origin = None THEN None ELSE Cardinality(un \ (origin.noseed \ origin.drawn))

\* The partition, checked against the chain's own counter; None is a verdict nobody measured.
AuditPartition(rows, deferred, origin, moved) ==
  LET un == ClassOf(rows, "undisputed_unwound")
      after == AfterDeferral(un, origin)
      measured == deferred # None /\ moved = FALSE
      base == IF measured THEN Cardinality(Classed(rows)) + Cardinality(deferred.ids \ (Classed(rows) \cup un)) ELSE 0
  IN [rows |-> rows, after |-> after,
      bounds |-> IF measured THEN base <= deferred.opened /\ deferred.opened <= base + Cardinality(un) ELSE None,
      ok |-> IF measured /\ after # None THEN base + after = deferred.opened ELSE None]

-----------------------------------------------------------------------------
(* One build                                                               *)

AuditDeferred == [opened |-> pOpened, ids |-> {j \in AuditJobs : pjob[j].selected}]
Step(pc) == [rd EXCEPT !.pc = pc]

\* A read may fail: the counter is then unread, the listing unread ends the build, the events unread are no origin.
ReadBefore ==
  /\ rd.pc \in {"idle", "again"} /\ (rd.pc = "idle" => HasP("builds"))
  /\ \E d \in {AuditDeferred} \cup (IF HasP("fail") THEN {None} ELSE {}) :
       /\ rd' = [IdleBuild EXCEPT !.pc = "list", !.again = (rd.pc = "idle"), !.before = d, !.listed = Height]
       /\ partLeft' = [partLeft EXCEPT !.builds = IF rd.pc = "idle" THEN @ - 1 ELSE @,
                                       !.fail = IF d = None THEN @ - 1 ELSE @]
  /\ UNCHANGED <<chainSide, origins, part>>

\* The listing comes in pages: one row at a time here.
ReadJob ==
  /\ rd.pc = "list" /\ DOMAIN rd.rows # AuditJobs
  /\ LET j == CHOOSE x \in AuditJobs \ DOMAIN rd.rows : \A y \in AuditJobs \ DOMAIN rd.rows : x <= y IN
     \/ /\ rd' = [rd EXCEPT !.rows = [i \in DOMAIN @ \cup {j} |-> IF i = j THEN pjob[j] ELSE @[i]]]
        /\ UNCHANGED partLeft
     \/ HasP("fail") /\ TakeP("fail") /\ rd' = IdleBuild
  /\ UNCHANGED <<chainSide, origins, part>>

ReadHead ==
  /\ rd.pc = "list" /\ DOMAIN rd.rows = AuditJobs
  /\ rd' = [Step("origin") EXCEPT !.top = Height]
  /\ UNCHANGED <<chainSide, origins, part, partLeft>>

\* What was learned on another chain, or above the top of this one, is dropped.
TrustedOriginsFault(o, top) == IF o.chain = None THEN [o EXCEPT !.chain = chainNo] ELSE o
TrustedOrigins(o, top) ==
  IF o.chain # chainNo \/ o.scanned > top THEN [NewOrigins EXCEPT !.chain = chainNo] ELSE o

\* The index is trusted only when it shows the unwinds of the listing, one or more to a block.
IndexControlled ==
  LET seen == Cardinality({h \in 1..rd.listed : events[h].unwound # {}})
  IN seen >= 1 /\ seen <= Cardinality({j \in AuditJobs : rd.rows[j].end = "unwound"})

OriginStart ==
  /\ rd.pc = "origin"
  /\ IF ClassOf(rd.rows, "undisputed_unwound") = {}
     THEN /\ rd' = [Step("after") EXCEPT !.origin = [noseed |-> {}, drawn |-> {}]]
          /\ UNCHANGED <<origins, partLeft>>
     ELSE \/ /\ origins' = TrustedOrigins(origins, rd.top)
             /\ rd' = Step(IF IndexControlled THEN "scan" ELSE "after") /\ UNCHANGED partLeft
          \/ HasP("fail") /\ TakeP("fail") /\ rd' = Step("after") /\ UNCHANGED origins
  /\ UNCHANGED <<chainSide, part>>

\* Blocks where the no-seed loop unwound, above what the cache has scanned and up to the height read after the
\* listing; ended before its end, the search resumes there at the next build.
NextFound ==
  {h \in (origins.scanned + 1)..rd.top : events[h].noseed /\ events[h].unwound # {}}

ScanBlock ==
  /\ rd.pc = "scan" /\ NextFound # {}
  /\ LET h == CHOOSE x \in NextFound : \A y \in NextFound : x <= y IN
     IF rd.found >= MaxFound THEN rd' = Step("after") /\ UNCHANGED <<origins, partLeft>>
     ELSE \/ /\ origins' = [origins EXCEPT !.noseed = @ \cup events[h].unwound, !.scanned = h]
             /\ rd' = [rd EXCEPT !.found = @ + 1] /\ UNCHANGED partLeft
          \/ HasP("fail") /\ TakeP("fail") /\ rd' = Step("after") /\ UNCHANGED origins
  /\ UNCHANGED <<chainSide, part>>

\* A deferral event of a block up to h names the job.
NamedByDeferral(j, h) == \E b \in 1..h : j \in events[b].deferred

\* Whether each no-seed unwind was drawn before: asked once per job, the answer is final.
ScanDone ==
  /\ rd.pc = "scan" /\ NextFound = {}
  /\ LET un == ClassOf(rd.rows, "undisputed_unwound") \cap origins.noseed
         drawn == {j \in un : j \in origins.drawn \/ NamedByDeferral(j, rd.top)}
     IN /\ origins' = [origins EXCEPT !.scanned = rd.top, !.drawn = @ \cup drawn]
        /\ rd' = [Step("after") EXCEPT !.origin = [noseed |-> origins.noseed, drawn |-> drawn]]
  /\ UNCHANGED <<chainSide, part, partLeft>>

\* The counter again: when something moved the reads are made once more, and a second move is published as null.
ReadAfter ==
  /\ rd.pc = "after"
  /\ \E d \in {AuditDeferred} \cup (IF HasP("fail") THEN {None} ELSE {}) :
       /\ IF d = None THEN TakeP("fail") ELSE UNCHANGED partLeft
       /\ IF ChainMoved(rd.before, d) = TRUE /\ rd.again THEN rd' = Step("again")
          ELSE rd' = [Step("publish") EXCEPT !.after = d]
  /\ UNCHANGED <<chainSide, origins, part>>

PublishPartition ==
  /\ rd.pc = "publish"
  /\ part' = AuditPartition(rd.rows, rd.after, rd.origin, ChainMoved(rd.before, rd.after))
  /\ rd' = IdleBuild
  /\ UNCHANGED <<chainSide, origins, partLeft>>

-----------------------------------------------------------------------------

Init ==
  /\ partLeft \in PartProfiles
  /\ pjob = [j \in AuditJobs |-> FreshJob] /\ pOpened = 0
  /\ events = <<Event(FALSE, {}, {})>> /\ chainNo = 1
  /\ rd = IdleBuild /\ origins = NewOrigins /\ part = None

Next ==
  \/ \E j \in AuditJobs : Lottery(j) \/ HumanDispute(j) \/ Resolve(j)
  \/ NoSeedBlock \/ Relaunch
  \/ ReadBefore \/ ReadJob \/ ReadHead \/ OriginStart \/ ScanBlock \/ ScanDone \/ ReadAfter \/ PublishPartition

Spec == Init /\ [][Next]_partvars

-----------------------------------------------------------------------------
(* Properties                                                              *)

(* The shape of the state; the scanned origins are those of this chain.     *)
TypeOK ==
  /\ pOpened \in Nat /\ rd.listed <= Height /\ rd.top <= Height
  /\ rd.pc = "scan" => origins.chain = chainNo /\ origins.scanned <= rd.top
  /\ rd.pc \in {"idle", "again", "list", "origin", "scan", "after", "publish"}
  /\ DOMAIN rd.rows \subseteq AuditJobs
  /\ origins.drawn \subseteq origins.noseed /\ origins.noseed \subseteq AuditJobs
  /\ part # None => part.ok \in BOOLEAN \cup {None} /\ (part.bounds = FALSE => part.ok # TRUE)

\* The chain never hides an audit, so the feed never says that one is hidden: whatever blocks land between its
\* reads, and whichever of them fail or are resumed from the cache, the two checks are true or not measured.
NeverFalselyHidden == part # None => part.ok # FALSE /\ part.bounds # FALSE
=============================================================================

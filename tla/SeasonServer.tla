---------------------------- MODULE SeasonServer ----------------------------
(* The service of the Final Testnet Season (services/final_season_server.py, *)
(* final_season_evidence.py), the generator that forwards the miners' answers *)
(* to it (final_season_generator.py) and the graders. The service keeps an    *)
(* append-only evidence file per day, a private file of the answers of each   *)
(* day until the day is sealed, and rebuilds its memory from both after a     *)
(* crash. Three threads run beside the request handlers: the seal, the        *)
(* ranking and the capacity watcher. Jobs are numbers, in the order the       *)
(* secret of the service puts them for its sample.                            *)
EXTENDS Integers, Sequences, FiniteSets, SequencesExt

CONSTANTS
  None, Absent, NoDay, Fatal,
  Miners, Graders, Addrs, Kits,
  JobMiner,      \* the miner of each request, in the order they are sent
  DayBlocks, Start, EndHeight, MaxHeight,
  Sample,        \* WORK_SAMPLE
  GradesToVoid,  \* GRADES_TO_VOID
  Every,         \* DECLARE_EVERY_BLOCKS
  Quota,         \* requests_per_day
  Tries,         \* FORWARD_TRIES
  LastSet,       \* rule sets 0..LastSet, in the order of RULE_HISTORY
  KitSet,        \* the first set that reads the capacity registry
  Final17, FinalNow,
  Lag,           \* blocks the service may see pass while a thread of it uses what it read
  Budgets        \* how many of each input and fault a behaviour has, and the first days its operator may name

VARIABLES
  tip,       \* the chain's height
  log,       \* the evidence file of each day
  pend,      \* the private file of each day, None when there is none
  first,     \* the kept first day of each rule set
  ranked,    \* the published rankings, day 0 first
  registry,  \* the capacity registry's last signed report of each miner
  svc,       \* the service: "down", or its start-up, or "up"
  ram,       \* its memory
  seal, rank, cap,  \* its threads
  gen, saved,       \* the generator and its saved count
  told,      \* history: jobs whose answer the generator was told is recorded
  unfiled,   \* history: what the memory took although its file could not be written
  left

files  == <<log, pend, first, ranked, unfiled>>
threads == <<seal, rank, cap>>
genVars == <<gen, saved, told>>
vars == <<tip, log, pend, first, ranked, unfiled, registry, svc, ram, seal, rank, cap, gen, saved, told, left>>

Jobs == 1..Len(JobMiner)
Sets == 1..LastSet
DayOf(h) == (h - Start) \div DayBlocks
LastDay == DayOf(EndHeight)
Days == 0..DayOf(MaxHeight)
NominalLast(d) == Start + (d + 1) * DayBlocks - 1
Idle == [pc |-> "idle"]
SpendAll(ks) == /\ \A k \in ks : left[k] > 0
                /\ left' = [k \in DOMAIN left |-> IF k \in ks THEN left[k] - 1 ELSE left[k]]
Spend(k) == SpendAll({k})

-----------------------------------------------------------------------------
(* The facts the evidence holds (final_season_facts.py)                      *)

RecordsUpto(d) ==
  LET upto[n \in 0..d] == IF n = 0 THEN log[0] ELSE upto[n - 1] \o log[n] IN upto[d]
Of(recs, t) == {recs[i] : i \in {k \in DOMAIN recs : recs[k].t = t}}

AnsweredJobs(recs) == UNION {r.jobs : r \in Of(recs, "sealed")}

(* answer_incoherent: every grade of the answer says so, and there is one.    *)
AnswerIncoherent(recs, j) ==
  LET g == {r \in Of(recs, "grade") : r.j = j} IN g # {} /\ \A r \in g : ~ r.ok

(* _graded_out over the answers of miner m filed under day d.                 *)
GradedOut(d, m) ==
  LET sampled == {r.j : r \in {x \in Of(log[d], "answer") : x.m = m}}
      graded  == {r.j : r \in {x \in Of(log[d], "grade") : JobMiner[x.j] = m}}
      least   == IF Cardinality(sampled) < GradesToVoid THEN Cardinality(sampled) ELSE GradesToVoid
  IN  /\ graded # {} /\ Cardinality(graded) >= least
      /\ \A j \in graded : AnswerIncoherent(log[d], j)

(* day_identities: the last declaration of the miner.                         *)
PayoutOf(recs, m) ==
  LET own == SelectSeq(recs, LAMBDA r : r.t = "payout" /\ r.m = m)
  IN  IF own = <<>> THEN None ELSE own[Len(own)].addr

(* kit_report: the report with the greatest height up to the day's last block. *)
KitReport(recs, m, last) ==
  LET own == SelectSeq(recs, LAMBDA r : r.t = "capacity" /\ r.m = m /\ r.h <= last)
      best == {i \in DOMAIN own : \A k \in DOMAIN own :
                 own[k].h < own[i].h \/ (own[k].h = own[i].h /\ k <= i)}
  IN  IF own = <<>> THEN None ELSE own[CHOOSE i \in best : TRUE].kit

LastCounted(d) == IF d = LastDay THEN EndHeight ELSE NominalLast(d)

RulesForDay(d, firsts) ==
  LET in == {s \in Sets : firsts[s] # None /\ firsts[s] <= d}
  IN  IF in = {} THEN 0 ELSE CHOOSE s \in in : \A x \in in : x <= s

(* rank_day: what the ranking of day d takes from the evidence, and how many  *)
(* records of each append-only file its evidence_sha256 covers.               *)
RankDay(d, set, recs) ==
  [set |-> set, answered |-> AnsweredJobs(recs),
   void |-> {m \in Miners : GradedOut(d, m)},
   pays |-> [m \in Miners |-> PayoutOf(recs, m)],
   torn |-> {e \in 0..d : Of(log[e], "torn") # {}},
   kit |-> IF set < KitSet THEN None ELSE [m \in Miners |-> KitReport(recs, m, LastCounted(d))],
   covered |-> [e \in 0..d |-> Len(log[e])]]

FinalityBlocks(set) == IF set = 0 THEN Final17 ELSE FinalNow


SeasonWindow(d, h, fin) == d <= LastDay /\ h >= LastCounted(d) + fin

-----------------------------------------------------------------------------
(* State.__init__: the memory rebuilt from the files                          *)

Empty ==
  [height |-> 0, end |-> None, finality |-> None, firsts |-> [s \in Sets |-> None],
   declared |-> [m \in Miners |-> None], locked |-> [m \in Miners |-> None], notOwner |-> {},
   work |-> {}, graded |-> [j \in Jobs |-> {}], sealed |-> {}, pending |-> {},
   capacity |-> [m \in Miners |-> None]]

(* _replay of one record.                                                     *)
Replay1Fault(mem, r) ==
  CASE r.t = "payout" -> [mem EXCEPT !.declared[r.m] = r.h,
                            !.notOwner = IF r.owner THEN @ ELSE @ \cup {r.m}]
    [] r.t = "answer" -> [mem EXCEPT !.work = @ \cup {r.j}]
    [] r.t = "grade" -> [mem EXCEPT !.graded[r.j] = @ \cup {r.g}]
    [] r.t = "sealed" -> [mem EXCEPT !.sealed = @ \cup {r.d}]
    [] r.t = "capacity" -> [mem EXCEPT !.capacity[r.m] = r.kit]
    [] OTHER -> mem

Replay1(mem, r) ==
  CASE r.t = "payout" ->
         [mem EXCEPT !.declared[r.m] = r.h,
                     !.notOwner = IF r.owner THEN @ ELSE @ \cup {r.m},
                     !.locked[r.m] = IF r.lock /\ @ = None THEN r.addr ELSE @]
    [] r.t = "answer" -> [mem EXCEPT !.work = @ \cup {r.j}]
    [] r.t = "grade" -> [mem EXCEPT !.graded[r.j] = @ \cup {r.g}]
    [] r.t = "sealed" -> [mem EXCEPT !.sealed = @ \cup {r.d}]
    [] r.t = "capacity" -> [mem EXCEPT !.capacity[r.m] = r.kit]
    [] OTHER -> mem

PendingDays == {d \in Days : pend[d] # None}
Lines(d) == IF pend[d] = None THEN {} ELSE {pend[d][i] : i \in DOMAIN pend[d]} \ {0}

Rebuilt ==
  LET recs == RecordsUpto(DayOf(MaxHeight))
      after[n \in 0..Len(recs)] == IF n = 0 THEN Empty ELSE Replay1(after[n - 1], recs[n])
      replayed == after[Len(recs)]
  IN  [replayed EXCEPT !.pending =
         {<<j, d>> \in Jobs \X Days : d \in PendingDays \ replayed.sealed /\ j \in Lines(d)}]

-----------------------------------------------------------------------------
(* Start-up: the first day of every rule set, fixed once (_unwound_from,      *)
(* _first_day_of, _kit_rules_from, _jury_rules_from)                          *)

(* The first day of set s when the operator names p: the kept one, or p, or    *)
(* for the first set the first unranked day. Fatal stops the service.        *)
FirstDayOf(s, p) ==
  IF first[s] # None THEN (IF p \in {Absent, first[s]} THEN first[s] ELSE Fatal)
  ELSE IF p = NoDay THEN None
  ELSE IF p = Absent THEN (IF s = 1 THEN Len(ranked) ELSE Fatal)
  ELSE IF p < Len(ranked) \/ (s >= KitSet /\ p <= DayOf(tip)) THEN Fatal
  ELSE p

InOrder(firsts) ==
  \A s \in Sets \ {1} : firsts[s] # None => firsts[s - 1] # None /\ firsts[s - 1] <= firsts[s]

(* Every published day must be under the rules of its day.                     *)
PublishedUnder(firsts) == \A d \in DOMAIN ranked : ranked[d].set = RulesForDay(d - 1, firsts)

StartsWith(firsts) ==
  /\ \A s \in Sets : firsts[s] # Fatal
  /\ InOrder(firsts)
  /\ PublishedUnder(firsts)

Boot ==
  /\ svc.pc = "down"
  /\ \E p \in left["params"] :
       LET firsts == [s \in Sets |-> FirstDayOf(s, p[s])]
       IN  /\ StartsWith(firsts)
           /\ svc' = [pc |-> "boot", firsts |-> firsts]
  /\ UNCHANGED <<tip, files, registry, ram, threads, genVars, left>>

(* _write_record, one file at a time, then the replay.                         *)
BootWrite ==
  /\ svc.pc = "boot"
  /\ LET new == {s \in Sets : svc.firsts[s] # None /\ first[s] = None}
     IN  \/ /\ new # {}
            /\ LET s == CHOOSE x \in new : \A y \in new : x <= y
               IN  first' = [first EXCEPT ![s] = svc.firsts[s]]
            /\ UNCHANGED <<svc, ram>>
         \/ /\ new = {}
            /\ svc' = [pc |-> "up"]
            /\ ram' = [Rebuilt EXCEPT !.firsts = svc.firsts]
            /\ UNCHANGED first
  /\ UNCHANGED <<tip, log, pend, ranked, unfiled, registry, threads, genVars, left>>

Up == svc.pc = "up"

-----------------------------------------------------------------------------
(* watch_chain: height and time, then the season's last block once past the    *)
(* end. The search for that block may fail and is tried again.                 *)

Tick ==
  /\ tip < MaxHeight
  /\ tip' = tip + 1
  /\ UNCHANGED <<files, registry, svc, ram, threads, genVars, left>>

(* What a thread read is used within Lag blocks.                               *)
MayAdvance ==
  /\ cap.pc = "file" => tip <= cap.h + Lag
  /\ rank.pc = "read" => tip <= rank.h + Lag

Watch ==
  /\ Up /\ MayAdvance
  /\ ram.height # tip \/ (tip > EndHeight /\ ram.end = None)
  /\ \E found \in BOOLEAN :
       /\ IF found THEN UNCHANGED left ELSE tip > EndHeight /\ ram.end = None /\ Spend("unread")
       /\ ram' = [ram EXCEPT !.height = tip, !.end = IF tip > EndHeight /\ found THEN EndHeight ELSE @]
  /\ UNCHANGED <<tip, files, registry, svc, threads, genVars>>

DayNow == DayOf(ram.height)
Ended == ram.height > EndHeight

(* rank_lock is held by a seal that is filing.                                 *)
RankLock == seal.pc = "file"

DayClosedFault(d) == d < Len(ranked)

DayClosed(d) ==
  \/ d < Len(ranked)
  \/ ram.end # None /\ d > LastDay
  \/ /\ ram.finality # None
     /\ ram.height >= (IF ram.end # None /\ d = LastDay THEN EndHeight ELSE NominalLast(d)) + ram.finality

-----------------------------------------------------------------------------
(* The generator: one request at a time, its answer forwarded up to Tries      *)
(* times, the day's count saved after each                                     *)

NoCount == [day |-> None, sent |-> 0, served |-> 0]

(* main: the status is read, the day's count loaded, a request sent. The       *)
(* generator remembers the day it asked each job, those whose count a stop cut *)
(* off and those it replaced after a lost reply (histories).                   *)
GenRequest ==
  /\ gen.pc = "idle" /\ gen.next \in 1..left["jobs"]
  /\ Up /\ ram.height >= Start /\ ~ Ended
  /\ LET n == IF gen.count.day = DayNow THEN gen.count
              ELSE IF saved.day = DayNow THEN saved ELSE [NoCount EXCEPT !.day = DayNow]
     IN  /\ n.served < Quota
         /\ gen' = [gen EXCEPT !.pc = "forward", !.tries = Tries, !.count = n, !.asked[gen.next] = DayNow]
  /\ UNCHANGED <<tip, files, registry, svc, ram, threads, saved, told, left>>

(* _work_answer, and the reply the generator reads: "ok" or "held" is          *)
(* RECORDED, "refused" is not, "lost" is tried again and UNKNOWN at the end.    *)
RepliedTwiceFault(reply) ==
  LET again == reply = "lost" /\ gen.tries > 1
  IN  /\ gen' = IF again THEN [gen EXCEPT !.tries = @ - 1, !.count.served = @ + 1]
                ELSE [gen EXCEPT !.pc = "save", !.count.sent = @ + 1,
                                 !.count.served = IF reply = "refused" THEN @ ELSE @ + 1]
      /\ told' = IF reply = "ok" THEN told \cup {gen.next} ELSE told

RepliedFault(reply) ==
  /\ gen' = [gen EXCEPT !.pc = "save", !.count.sent = @ + 1,
                        !.count.served = IF reply = "ok" THEN @ + 1 ELSE @]
  /\ told' = IF reply = "ok" THEN told \cup {gen.next} ELSE told

Replied(reply) ==
  LET again == reply = "lost" /\ gen.tries > 1
      refused == reply = "refused"
  IN  /\ gen' = IF again THEN [gen EXCEPT !.tries = @ - 1]
                ELSE [gen EXCEPT !.pc = "save", !.count.sent = @ + 1,
                                 !.count.served = IF refused THEN @ ELSE @ + 1,
                                 !.replaced = IF refused /\ gen.tries < Tries THEN @ \cup {gen.next} ELSE @]
      /\ told' = IF reply = "ok" THEN told \cup {gen.next} ELSE told

Held(j) == j \in ram.work \/ \E d \in Days : <<j, d>> \in ram.pending

(* A private file that ends in a torn line (0) gets a new line first.           *)
Append1(d, x) == [pend EXCEPT ![d] = IF @ = None THEN <<x>> ELSE Append(@, x)]

(* The write fails: nothing was written, or an empty file, or a torn line.     *)
PendingTorn(d) == pend' \in {pend, [pend EXCEPT ![d] = IF @ = None THEN <<>> ELSE @], Append1(d, 0)}

(* The answer is in memory before it is in the file; a handler whose write     *)
(* fails sends no reply.                                                       *)
WorkAnswer ==
  /\ gen.pc = "forward" /\ Up
  /\ LET j == gen.next IN
     \/ /\ ram.height < Start \/ Ended
        /\ Replied("refused")
        /\ UNCHANGED <<pend, ram, unfiled, left>>
     \/ /\ ram.height >= Start /\ ~ Ended /\ Held(j)
        /\ Replied("ok")
        /\ UNCHANGED <<pend, ram, unfiled, left>>
     \/ /\ ram.height >= Start /\ ~ Ended /\ ~ Held(j)
        /\ ram' = [ram EXCEPT !.pending = @ \cup {<<j, DayNow>>}]
        /\ \E how \in {"ok", "lost", "disk"} :
             /\ IF how = "ok" THEN UNCHANGED left ELSE Spend(how)
             /\ IF how = "disk"
                THEN PendingTorn(DayNow) /\ unfiled' = [unfiled EXCEPT !.answers = @ \cup {j}]
                ELSE pend' = Append1(DayNow, j) /\ UNCHANGED unfiled
             /\ Replied(IF how = "ok" THEN "ok" ELSE "lost")
  /\ UNCHANGED <<tip, log, first, ranked, registry, svc, threads, saved>>

(* The service is down, or the message is lost on the way.                     *)
ForwardLost ==
  /\ gen.pc = "forward"
  /\ IF Up THEN Spend("lost") ELSE UNCHANGED left
  /\ Replied("lost")
  /\ UNCHANGED <<tip, files, registry, svc, ram, threads, saved>>

(* The service stops while it writes the line.                                 *)
CrashInAnswer ==
  /\ gen.pc = "forward" /\ Up /\ ram.height >= Start /\ ~ Ended /\ ~ Held(gen.next)
  /\ Spend("crash")
  /\ pend' = Append1(DayNow, 0)
  /\ Replied("lost")
  /\ svc' = [pc |-> "down"] /\ ram' = Empty
  /\ seal' = Idle /\ rank' = Idle /\ cap' = Idle
  /\ UNCHANGED <<tip, log, first, ranked, unfiled, registry, saved>>

(* save_sent.                                                                  *)
GenSave ==
  /\ gen.pc = "save"
  /\ saved' = gen.count
  /\ gen' = [gen EXCEPT !.pc = "idle", !.next = @ + 1]
  /\ UNCHANGED <<tip, files, registry, svc, ram, threads, told, left>>

GenCrash ==
  /\ gen.pc # "idle" /\ Spend("gencrash")
  /\ gen' = [gen EXCEPT !.pc = "idle", !.next = @ + 1, !.count = NoCount,
                        !.cut = @ \cup {gen.next}]
  /\ UNCHANGED <<tip, files, registry, svc, ram, threads, saved, told>>

-----------------------------------------------------------------------------
(* Declarations and grades                                                     *)

Evidence(d, r) == log' = [log EXCEPT ![d] = Append(@, r)]

(* An append that fails leaves the file as it was, or a torn line.             *)
EvidenceTorn(d) == UNCHANGED log \/ Evidence(d, [t |-> "torn"])
NotBefore0(d) == IF d < 0 THEN 0 ELSE d

LateLockFault(m, owner) == ram.declared[m] # None /\ ~ owner
LateLock(m, owner) == ram.declared[m] # None /\ (m \in ram.notOwner \/ ~ owner)

DeclarationAllowed(m) == ram.declared[m] # None => ram.height - ram.declared[m] >= Every

(* _payout: refused without a trace, or filed. The height kept in memory, the   *)
(* one stamped on the record and the day it is filed under are three reads, and *)
(* watch_chain may advance between any two. An append that fails leaves the     *)
(* declaration in memory, but neither its lock nor its mode.                    *)
Payout(m, a, lock, owner) ==
  /\ Up /\ ram.height # 0 /\ ~ Ended
  /\ ram.locked[m] = None
  /\ ~ (lock /\ LateLock(m, owner))
  /\ DeclarationAllowed(m)
  /\ \E stamp, now \in (IF MayAdvance THEN {ram.height, tip} ELSE {ram.height}), filed \in BOOLEAN :
       /\ stamp <= now
       /\ SpendAll(IF filed THEN {"payout"} ELSE {"payout", "disk"})
       /\ LET d == NotBefore0(DayOf(now)) IN
            IF filed
            THEN /\ Evidence(d, [t |-> "payout", m |-> m, addr |-> a, h |-> stamp, lock |-> lock, owner |-> owner])
                 /\ UNCHANGED unfiled
            ELSE EvidenceTorn(d) /\ unfiled' = [unfiled EXCEPT !.payouts = @ \cup {m}]
       /\ ram' = [ram EXCEPT !.height = now,
                    !.end = IF now > EndHeight THEN EndHeight ELSE @,
                    !.declared[m] = ram.height,
                    !.notOwner = IF filed /\ ~ owner THEN @ \cup {m} ELSE @,
                    !.locked[m] = IF filed /\ lock THEN a ELSE @]
  /\ UNCHANGED <<tip, pend, first, ranked, registry, svc, threads, genVars>>

DayOfAnswer(j) == CHOOSE d \in Days : \E r \in Of(log[d], "answer") : r.j = j

(* _grading_result: under rank_lock, refused once the day is closed. The grader *)
(* is in memory before its grade is in the evidence.                            *)
GradingResult(g, j, ok) ==
  /\ Up /\ ~ RankLock /\ j \in ram.work /\ g \notin ram.graded[j]
  /\ ~ DayClosed(DayOfAnswer(j))
  /\ \/ /\ Spend("grade")
        /\ Evidence(DayOfAnswer(j), [t |-> "grade", j |-> j, g |-> g, ok |-> ok])
        /\ UNCHANGED unfiled
     \/ /\ SpendAll({"grade", "disk"})
        /\ EvidenceTorn(DayOfAnswer(j))
        /\ unfiled' = [unfiled EXCEPT !.grades = @ \cup {<<j, g>>}]
  /\ ram' = [ram EXCEPT !.graded[j] = @ \cup {g}]
  /\ UNCHANGED <<tip, pend, first, ranked, registry, svc, threads, genVars>>

-----------------------------------------------------------------------------
(* watch_capacity: the height is read once, the changes filed under its day     *)

NewReport(m, k) ==
  /\ registry[m] # k /\ Spend("report")
  /\ registry' = [registry EXCEPT ![m] = k]
  /\ UNCHANGED <<tip, files, svc, ram, threads, genVars>>

Changed(reg) == {m \in Miners : reg[m] # None /\ reg[m] # ram.capacity[m]}

CapRead ==
  /\ Up /\ cap.pc = "idle" /\ ram.height # 0
  /\ \E s \in KitSet..LastSet : ram.firsts[s] # None
  /\ Changed(registry) # {}
  /\ cap' = [pc |-> "file", h |-> ram.height, reg |-> registry]
  /\ UNCHANGED <<tip, files, registry, svc, ram, seal, rank, genVars, left>>

(* file_capacity_changes: one record per miner whose report changed.            *)
CapDayFault == NotBefore0(DayNow)
CapDay == NotBefore0(DayOf(cap.h))

CapFile ==
  /\ cap.pc = "file"
  /\ \/ /\ Changed(cap.reg) = {}
        /\ cap' = Idle /\ UNCHANGED <<log, ram>>
     \/ \E m \in Changed(cap.reg) :
          /\ Evidence(CapDay, [t |-> "capacity", m |-> m, kit |-> cap.reg[m], h |-> cap.h])
          /\ ram' = [ram EXCEPT !.capacity[m] = cap.reg[m]]
          /\ UNCHANGED cap
  /\ UNCHANGED <<tip, pend, first, ranked, unfiled, registry, svc, seal, rank, genVars, left>>

(* The append fails: the watcher reads the registry again later.                *)
CapFails ==
  /\ cap.pc = "file" /\ Changed(cap.reg) # {}
  /\ Spend("disk")
  /\ EvidenceTorn(CapDay)
  /\ cap' = Idle
  /\ UNCHANGED <<tip, pend, first, ranked, unfiled, registry, svc, ram, seal, rank, genVars>>

-----------------------------------------------------------------------------
(* seal_days, seal_work_day: draw the sample, record the draw, drop the file    *)

DayOver(d) == d < DayNow \/ (ram.end # None /\ ram.height > ram.end)

(* The Sample first answers of each miner, in the secret's order.               *)
Drawn(jobs) ==
  {j \in jobs : Cardinality({k \in jobs : JobMiner[k] = JobMiner[j] /\ k < j}) < Sample}

SealStart(d) ==
  /\ Up /\ seal.pc = "idle" /\ ram.height # 0 /\ d \in PendingDays
  /\ IF d \in ram.sealed
       THEN pend' = [pend EXCEPT ![d] = None] /\ UNCHANGED seal
       ELSE /\ DayOver(d)
            /\ seal' = [pc |-> "file", day |-> d, jobs |-> Lines(d), todo |-> Drawn(Lines(d))]
            /\ UNCHANGED pend
  /\ UNCHANGED <<tip, log, first, ranked, unfiled, registry, svc, ram, rank, cap, genVars, left>>

(* An answer filed by a seal that stopped before recording itself: not twice.   *)
FiledFault(j) == FALSE
Filed(j) == j \in ram.work

SealFile ==
  /\ seal.pc = "file"
  /\ LET d == seal.day IN
       IF d >= Len(ranked) /\ seal.todo # {}
         THEN LET j == CHOOSE x \in seal.todo : \A y \in seal.todo : x <= y
              IN  /\ seal' = [seal EXCEPT !.todo = @ \ {j}]
                  /\ IF Filed(j) THEN UNCHANGED <<log, ram>>
                     ELSE /\ Evidence(d, [t |-> "answer", j |-> j, m |-> JobMiner[j]])
                          /\ ram' = [ram EXCEPT !.work = @ \cup {j}]
         ELSE /\ IF d < Len(ranked) THEN UNCHANGED log
                 ELSE Evidence(d, [t |-> "sealed", d |-> d, jobs |-> seal.jobs])
              /\ ram' = [ram EXCEPT !.sealed = @ \cup {d}]
              /\ seal' = [seal EXCEPT !.pc = "drop"]
  /\ UNCHANGED <<tip, pend, first, ranked, unfiled, registry, svc, rank, cap, genVars, left>>

(* An append fails: seal_days starts the day's seal again.                      *)
SealFails ==
  /\ seal.pc = "file" /\ seal.day >= Len(ranked)
  /\ Spend("disk")
  /\ EvidenceTorn(seal.day)
  /\ seal' = Idle
  /\ UNCHANGED <<tip, pend, first, ranked, unfiled, registry, svc, ram, rank, cap, genVars>>

(* The private file of the day is removed, or its removal fails and is tried    *)
(* again by SealStart.                                                          *)
SealDrop ==
  /\ seal.pc = "drop"
  /\ ram' = [ram EXCEPT !.pending = {p \in @ : p[1] \notin seal.jobs}]
  /\ \/ pend' = [pend EXCEPT ![seal.day] = None] /\ UNCHANGED left
     \/ UNCHANGED pend /\ Spend("disk")
  /\ seal' = Idle
  /\ UNCHANGED <<tip, log, first, ranked, unfiled, registry, svc, rank, cap, genVars>>

-----------------------------------------------------------------------------
(* rank_days: the seal is checked, the inputs are read under rank_lock, the     *)
(* ranking published later                                                      *)

NextDay == Len(ranked)

(* The day waits for its seal.                                                 *)
UnsealedFault(d) == FALSE
Unsealed(d) == pend[d] # None /\ d \notin ram.sealed

CapacityWatched(recs, last) == \E r \in Of(recs, "capacity") : r.h <= last

Ranking == /\ Up /\ rank.pc = "idle"
           /\ NextDay \in Days
           /\ ram.end # None => NextDay <= LastDay
           /\ ~ Unsealed(NextDay)

NextSet == RulesForDay(NextDay, ram.firsts)
NextFinality == FinalityBlocks(NextSet)

(* A pass that finds the day not final closes nothing but the days before it:   *)
(* its check and its read are one step.                                         *)
RankTooEarly ==
  /\ Ranking /\ ~ RankLock
  /\ ~ SeasonWindow(NextDay, ram.height, NextFinality)
  /\ ram.finality # NextFinality
  /\ ram' = [ram EXCEPT !.finality = NextFinality]
  /\ UNCHANGED <<tip, files, registry, svc, threads, genVars, left>>

(* rank_days up to the seal's check, for a day that may be final when it is     *)
(* read: the chain's parameters are read in between.                            *)
RankCheck ==
  /\ Ranking
  /\ SeasonWindow(NextDay, ram.height + Lag, NextFinality)
  /\ tip <= ram.height + Lag
  /\ rank' = [pc |-> "read", h |-> ram.height]
  /\ UNCHANGED <<tip, files, registry, svc, ram, seal, cap, genVars, left>>

(* ranking_inputs, then rank_day: the day is ranked, or not final or without a  *)
(* capacity report, or something it reads of the chain or of the relay's store  *)
(* (under the jury set, the reveals of the fault periods too) cannot be read:   *)
(* the day waits for the next pass, and stays closed.                           *)
RankRead ==
  /\ rank.pc = "read" /\ ~ RankLock
  /\ LET recs == RecordsUpto(NextDay)
         ready == /\ SeasonWindow(NextDay, ram.height, NextFinality)
                  /\ NextSet >= KitSet => CapacityWatched(recs, LastCounted(NextDay))
     IN  /\ ram' = [ram EXCEPT !.finality = NextFinality]
         /\ \/ /\ ready /\ UNCHANGED left
               /\ rank' = [pc |-> "publish", out |-> RankDay(NextDay, NextSet, recs)]
            \/ ~ ready /\ rank' = Idle /\ UNCHANGED left
            \/ ready /\ rank' = Idle /\ Spend("unread")
  /\ UNCHANGED <<tip, files, registry, svc, seal, cap, genVars>>

RankPublish ==
  /\ rank.pc = "publish"
  /\ ranked' = Append(ranked, rank.out)
  /\ rank' = Idle
  /\ UNCHANGED <<tip, log, pend, first, unfiled, registry, svc, ram, seal, cap, genVars, left>>

-----------------------------------------------------------------------------
(* A crash loses the memory and the threads; an append in progress is torn.    *)
Appending ==
  (IF seal.pc = "file" THEN {seal.day} ELSE {}) \cup (IF cap.pc = "file" THEN {CapDay} ELSE {})
    \cup (IF Up /\ left["payout"] > 0 /\ ram.height # 0 /\ ~ Ended THEN {NotBefore0(DayNow)} ELSE {})
    \cup (IF Up /\ left["grade"] > 0 THEN {d \in {DayOfAnswer(j) : j \in ram.work} : ~ DayClosed(d)} ELSE {})

Crash ==
  /\ svc.pc # "down" /\ Spend("crash")
  /\ \/ UNCHANGED log
     \/ \E d \in Appending : Evidence(d, [t |-> "torn"])
  /\ svc' = [pc |-> "down"] /\ ram' = Empty
  /\ seal' = Idle /\ rank' = Idle /\ cap' = Idle
  /\ UNCHANGED <<tip, pend, first, ranked, unfiled, registry, genVars>>

-----------------------------------------------------------------------------
Init ==
  /\ tip = Start - 1
  /\ log = [d \in Days |-> <<>>] /\ pend = [d \in Days |-> None]
  /\ first = [s \in Sets |-> None] /\ ranked = <<>>
  /\ registry = [m \in Miners |-> None]
  /\ svc = [pc |-> "down"] /\ ram = Empty
  /\ seal = Idle /\ rank = Idle /\ cap = Idle
  /\ gen = [pc |-> "idle", next |-> 1, tries |-> Tries, count |-> NoCount,
             asked |-> [j \in Jobs |-> None], cut |-> {}, replaced |-> {}]
  /\ saved = NoCount /\ told = {}
  /\ unfiled = [answers |-> {}, grades |-> {}, payouts |-> {}]
  /\ left \in Budgets

SealThread == (\E d \in Days : SealStart(d)) \/ SealFile \/ SealDrop
RankThread == RankTooEarly \/ RankCheck \/ RankRead \/ RankPublish
Service == Boot \/ BootWrite \/ Watch \/ CapRead \/ CapFile \/ CapFails \/ SealThread \/ SealFails
           \/ RankThread
Generator == GenRequest \/ WorkAnswer \/ ForwardLost \/ GenSave
Requests ==
  \/ \E m \in Miners, a \in Addrs, lock, owner \in BOOLEAN : Payout(m, a, lock, owner)
  \/ \E g \in Graders, j \in Jobs, ok \in BOOLEAN : GradingResult(g, j, ok)
  \/ \E m \in Miners, k \in Kits : NewReport(m, k)

Next == Tick \/ Service \/ Generator \/ Requests \/ Crash \/ CrashInAnswer \/ GenCrash
Spec == Init /\ [][Next]_vars

(* Each thread of the service runs, and its supervisor starts it again.         *)
FairSpec ==
  Spec /\ WF_vars(Tick) /\ WF_vars(Boot \/ BootWrite) /\ WF_vars(Watch) /\ WF_vars(CapRead \/ CapFile)
       /\ WF_vars(SealThread) /\ WF_vars(RankThread)

-----------------------------------------------------------------------------
(* Properties                                                                  *)

Record ==
  [t : {"payout"}, m : Miners, addr : Addrs, h : Nat, lock : BOOLEAN, owner : BOOLEAN]
    \cup [t : {"answer"}, j : Jobs, m : Miners] \cup [t : {"grade"}, j : Jobs, g : Graders, ok : BOOLEAN]
    \cup [t : {"sealed"}, d : Days, jobs : SUBSET Jobs] \cup [t : {"torn"}]
    \cup [t : {"capacity"}, m : Miners, kit : Kits, h : Nat]

(* Every record of the evidence has the shape of its type and every first day   *)
(* kept is a day.                                                               *)
TypeOK ==
  /\ \A d \in Days : \A i \in DOMAIN log[d] : log[d][i] \in Record
  /\ \A d \in PendingDays : \A i \in DOMAIN pend[d] : pend[d][i] \in Jobs \cup {0}
  /\ \A s \in Sets : first[s] \in Nat \cup {None}
  /\ told \subseteq Jobs /\ gen.count.served <= gen.count.sent

(* "Everything the service believes, rebuilt from the evidence log at           *)
(* start-up" (State), as far as the code keeps it: whatever the crashes, the    *)
(* failed writes and the order of the handlers and threads, the running service *)
(* knows all that a restart would rebuild, so nothing filed is accepted twice.  *)
(* What it knows beyond that is the answer, grade or declaration of a handler   *)
(* whose write failed; and a record may be stamped later than its declaration.  *)
MemoryIsEvidence ==
  LET old == Rebuilt IN
  Up /\ seal.pc # "drop" =>
    /\ ram = [old EXCEPT !.height = ram.height, !.end = ram.end, !.finality = ram.finality,
                         !.firsts = ram.firsts, !.pending = ram.pending, !.graded = ram.graded,
                         !.declared = ram.declared]
    /\ old.pending \subseteq ram.pending
    /\ \A p \in ram.pending \ old.pending : p[1] \in unfiled.answers
    /\ \A j \in Jobs : /\ old.graded[j] \subseteq ram.graded[j]
                       /\ \A g \in ram.graded[j] \ old.graded[j] : <<j, g>> \in unfiled.grades
    /\ \A m \in Miners \ unfiled.payouts :
         /\ ram.declared[m] = None <=> old.declared[m] = None
         /\ ram.declared[m] # None => ram.declared[m] <= old.declared[m]

(* final_season_evidence.py: "what the service believes and what it publishes   *)
(* cannot differ".                                                              *)
NothingUnfiled ==
  Up /\ seal.pc # "drop" => /\ ram.pending = Rebuilt.pending /\ ram.graded = Rebuilt.graded
                            /\ ram.declared = Rebuilt.declared

Recomputed(d) == RankDay(d, RulesForDay(d, first), RecordsUpto(d))

(* ranking_inputs: a reader who recomputes a published ranking, at any later    *)
(* time, from the files and the first days then kept, gets the same ranking. Of *)
(* the season's last day only what it pays, not the digest of its evidence: its *)
(* blocks go on after the season's end, and watch_capacity goes on filing under *)
(* it once it is ranked.                                                        *)
RankingRecomputes ==
  \A n \in DOMAIN ranked :
    LET again == Recomputed(n - 1)
        same == IF n - 1 < LastDay THEN again
                ELSE [again EXCEPT !.covered = ranked[n].covered, !.torn = ranked[n].torn]
    IN  ranked[n] = same

(* ranking_inputs: "From this read on the day takes no more records: what is    *)
(* ranked is what is published, and a reader recomputing it from the evidence   *)
(* gets the same bytes".                                                        *)
SameBytes == \A n \in DOMAIN ranked : ranked[n] = Recomputed(n - 1)

(* seal_work_day through any crash: an answer is sampled once, at most Sample   *)
(* of a miner's day, a day is sealed once, a grader grades an answer once.      *)
FiledOnce ==
  LET all == RecordsUpto(DayOf(MaxHeight))
      Twice(P(_)) == \E i, k \in DOMAIN all : i < k /\ all[i] = all[k] /\ P(all[i])
      Graded == SelectSeq(all, LAMBDA r : r.t = "grade")
  IN  /\ ~ Twice(LAMBDA r : r.t \in {"answer", "sealed"})
      /\ \A i, k \in DOMAIN Graded : i < k => <<Graded[i].j, Graded[i].g>> # <<Graded[k].j, Graded[k].g>>
      /\ \A d \in Days, m \in Miners :
           Cardinality({r \in Of(log[d], "answer") : r.m = m}) <= Sample

InFiles(j) == \/ \E d \in PendingDays : j \in Lines(d)
              \/ j \in AnsweredJobs(RecordsUpto(DayOf(MaxHeight)))

(* An answer the generator was told is recorded stays in a private file or is   *)
(* in a seal (answered_jobs counts it as work), through crashes and seals. A    *)
(* job whose write failed is the exception: a forward sent again finds it in    *)
(* memory.                                                                      *)
ToldKept == \A j \in told \ unfiled.answers : InFiles(j)

(* _work_answer, of a forward sent again: "for it that is a success -- the      *)
(* answer is recorded".                                                         *)
ToldIsRecorded == \A j \in told : InFiles(j)

(* _payout: a locked address is the last one filed for its miner, and a lock    *)
(* after other declarations has only owner-mode ones before it.                 *)
LockHolds ==
  \A m \in Miners :
    LET own == SelectSeq(RecordsUpto(DayOf(MaxHeight)), LAMBDA r : r.t = "payout" /\ r.m = m)
    IN  \A i \in DOMAIN own : own[i].lock =>
          i = Len(own) /\ \A k \in 1..(i - 1) : own[k].owner /\ own[i].owner

RecordedOf(d) == {j \in Jobs : gen.asked[j] = d /\ InFiles(j)}

(* report_work: whatever is lost or tried again, the answers recorded of one    *)
(* day's requests are at most the day's number, beside the requests whose count *)
(* a stop of the generator cut off and those the service refused when asked     *)
(* again after a lost reply (the season ended in between, or it had restarted   *)
(* and not yet read the chain).                                                 *)
QuotaBounded == \A d \in Days : Cardinality(RecordedOf(d) \ (gen.cut \cup gen.replaced)) <= Quota

(* The header of final_season_generator.py: "the paid work of a day does not    *)
(* exceed requests_per_day, save one request per stop of this process".         *)
QuotaAsStated == \A d \in Days : Cardinality(RecordedOf(d) \ gen.cut) <= Quota

(* watch_capacity: a report is in the file of the day of its height, where the  *)
(* ranking of that day reads it.                                                *)
ReportOnItsDay ==
  \A d \in Days : \A r \in Of(log[d], "capacity") : NotBefore0(DayOf(r.h)) = d

(* The evidence files say everything once, the memory of the service is what   *)
(* they rebuild but for a write that failed, and a published ranking what they  *)
(* recompute, through any crash (final_season_server.py).                       *)
EvidenceSound ==
  TypeOK /\ MemoryIsEvidence /\ RankingRecomputes /\ FiledOnce /\ ToldKept /\ ReportOnItsDay

(* The programme's two limits hold whatever is lost or tried again: a locked     *)
(* address stays, and a day records its number of requests (_payout,            *)
(* report_work).                                                                *)
LimitsHold == LockHolds /\ QuotaBounded

=============================================================================

------------------------------ MODULE Gateway ------------------------------
(***************************************************************************)
(* The gateway's free tier (gateway.py) and the client it drives           *)
(* (client.py): a request reserves its estimate on the daily quota, opens  *)
(* and escrows a job on the subsidy account, seals the prompt to the       *)
(* primary's anchored key, waits for the answer at the relay, settles, and *)
(* replaces the estimate by what was used.  The counters are saved on disk *)
(* so that a restart does not reopen the free tier.                        *)
(*                                                                         *)
(* Optimistic mode, one primary per job.  Tokens are counted in units: an  *)
(* estimate is Est, a use is a member of Uses; with metered pricing the    *)
(* escrow bounds the use by the estimate (plan.ceiling).                   *)
(***************************************************************************)
EXTENDS Integers, FiniteSets, FiniteSetsExt

CONSTANTS None, Reqs, Devices, Est, Uses, FreeDay, FreeDevice, MaxDay, GwProfiles

VARIABLES day,     \* the date
          quota,   \* the counters in memory: [day, glob, ip, open]
          qfile,   \* the counters on disk: none, saved or unreadable
          req,     \* requests in progress and their outcome
          chainJob,\* what the chain and the relay hold for a request's job
          encKey,  \* the primary's anchored encryption key, a generation
          used,    \* what was really used today; what settles of the day before took
                   \* from today's counters, and how many open records they took away
          plan,    \* [ceiling]: metered pricing or flat rate
          gwLeft   \* faults still to come

gwvars == <<day, quota, qfile, req, chainJob, encKey, used, plan, gwLeft>>

Fresh(d) == [day |-> d, glob |-> 0, ip |-> [k \in Devices |-> 0], open |-> [k \in Devices |-> 0]]
OnDisk(q) == [kind |-> "saved", q |-> q]
AtLeastFault(a, b) == b
AtLeast(a, b) == IF a > b THEN a ELSE b
AtMost(a, b) == IF a < b THEN a ELSE b

-----------------------------------------------------------------------------
(* The quota                                                               *)

\* The daily reset.
Rolled(q) == IF q.day # day THEN Fresh(day) ELSE q

ReservedOn(q, k) ==
  [q EXCEPT !.glob = @ + Est, !.ip[k] = @ + Est, !.open[k] = IF plan.ceiling THEN @ ELSE @ + Est]
Refusal(q, k) ==
  IF q.glob + Est > FreeDay THEN "global"
  ELSE IF q.ip[k] + Est > FreeDevice THEN "device" ELSE None

\* The estimate replaced by the use; the open record leaves in the same save.
SettledOn(q, k, real) ==
  LET r == IF plan.ceiling THEN AtMost(real, Est) ELSE real
  IN [q EXCEPT !.glob = AtLeast(0, @ + r - Est), !.ip[k] = AtLeast(0, @ + r - Est),
               !.open[k] = IF plan.ceiling THEN @ ELSE AtLeast(0, @ - Est)]

ChargeOpenFault(q) == [q EXCEPT !.open = [k \in Devices |-> 0]]
\* Reservations a previous run left open: their use is not known, so the free
\* tier closes for the day.
ChargeOpen(q) ==
  LET pending == {k \in Devices : q.open[k] > 0}
      closed == [q EXCEPT !.glob = AtLeast(@, FreeDay),
                          !.ip = [k \in Devices |-> IF k \in pending THEN AtLeast(@[k], FreeDevice) ELSE @[k]]]
  IN [IF pending # {} /\ q.day = day THEN closed ELSE q EXCEPT !.open = [k \in Devices |-> 0]]

\* The counters a start reads; an unreadable file closes the free tier today.
Loaded(f) == CASE f.kind = "none" -> Fresh(0)
               [] f.kind = "unreadable" -> [Fresh(day) EXCEPT !.glob = FreeDay]
               [] OTHER -> ChargeOpen(f.q)

\* A save that fails leaves the file as it was.
Saves == {TRUE} \cup (IF gwLeft.disk > 0 THEN {FALSE} ELSE {})

-----------------------------------------------------------------------------
(* A request                                                               *)

NothingUsed ==
  [today |-> [k \in Devices |-> 0], glob |-> 0, hidden |-> [k \in Devices |-> 0], bare |-> [k \in Devices |-> 0]]
NewReq == [pc |-> "new", dev |-> None, day |-> 0, http |-> 0, sealed |-> None, answer |-> FALSE]
NewJob == [escrow |-> FALSE, delivered |-> FALSE, response |-> FALSE, commit |-> FALSE, settled |-> FALSE]
At(r, pc) == req[r].pc = pc

Spend(f, n) == [gwLeft EXCEPT ![f] = @ - n]

\* run_dendra up to the job: the estimate is debited under one lock, and a
\* reservation that is not on disk is taken back.
QuotaReserve(r) ==
  /\ At(r, "new")
  /\ \E k \in Devices, rolled \in Saves, ok \in Saves :
       LET q == Rolled(quota)
           why == Refusal(q, k)
           disk1 == IF quota.day # day /\ rolled THEN OnDisk(q) ELSE qfile
           bad == (IF rolled THEN 0 ELSE 1) + (IF ok THEN 0 ELSE 1)
       IN /\ quota.day = day => rolled
          /\ why # None => ok
          /\ bad <= gwLeft.disk
          /\ gwLeft' = Spend("disk", bad)
          /\ IF why # None \/ ~ok
             THEN /\ quota' = q /\ qfile' = disk1
                  /\ req' = [req EXCEPT ![r].pc = "done", ![r].dev = k,
                                        ![r].http = IF why # None THEN 429 ELSE 503]
             ELSE /\ quota' = ReservedOn(q, k) /\ qfile' = OnDisk(ReservedOn(q, k))
                  /\ req' = [req EXCEPT ![r].pc = "open", ![r].dev = k, ![r].day = day]
  /\ UNCHANGED <<day, chainJob, encKey, used, plan>>

\* do_POST before any escrow: no bearer, not JSON, too large, malformed, or
\* content the filter refuses.
RefuseRequest(r) ==
  /\ At(r, "new")
  /\ \E code \in {400, 401, 403, 413, 415} : req' = [req EXCEPT ![r].pc = "done", ![r].http = code]
  /\ UNCHANGED <<day, quota, qfile, chainJob, encKey, used, plan, gwLeft>>

\* A transaction is judged by the code read in its inclusion: accepted, refused,
\* or included after the client stopped waiting, which it reads as a refusal.
TxOutcomes == {"ok"} \cup (IF gwLeft.chain > 0 THEN {"refused", "late"} ELSE {})
\* A list or a record is read now or not at all; an outage is never an empty list.
Reads == {TRUE} \cup (IF gwLeft.chain > 0 THEN {FALSE} ELSE {})

\* An error of the client ends the request: the reservation is released.
Then(r, ok, pc) == [req EXCEPT ![r].pc = IF ok THEN pc ELSE "release", ![r].http = IF ok THEN 0 ELSE 502]
Cost(ok) == [gwLeft EXCEPT !.chain = IF ok THEN @ ELSE @ - 1]

OpenJob(r) ==
  /\ At(r, "open")
  /\ \E how \in TxOutcomes :
       /\ gwLeft' = Cost(how = "ok")
       /\ chainJob' = [chainJob EXCEPT ![r].escrow = how # "refused"]
       /\ req' = Then(r, how = "ok", "assign")
  /\ UNCHANGED <<day, quota, qfile, encKey, used, plan>>

\* The committee comes from the chain, never from a local draw.
AssignedCommittee(r) ==
  /\ At(r, "assign")
  /\ \E ok \in Reads : gwLeft' = Cost(ok) /\ req' = Then(r, ok, "seal")
  /\ UNCHANGED <<day, quota, qfile, chainJob, encKey, used, plan>>

\* The key the prompt is sealed to: read now in the registry, or in the member's
\* own record, never remembered; without it nothing is sealed, and the job stays
\* open with its fee escrowed.
Seal(r) ==
  /\ At(r, "seal")
  /\ \E ok \in Reads :
       /\ gwLeft' = Cost(ok)
       /\ req' = [Then(r, ok, "deliver") EXCEPT ![r].sealed = IF ok THEN encKey ELSE None]
  /\ UNCHANGED <<day, quota, qfile, chainJob, encKey, used, plan>>

\* The deposit at the relay, tried three times; undelivered, the wait goes on.
Deliver(r) ==
  /\ At(r, "deliver")
  /\ \E ok \in {TRUE} \cup (IF gwLeft.relay > 0 THEN {FALSE} ELSE {}) :
       /\ chainJob' = [chainJob EXCEPT ![r].delivered = ok]
       /\ gwLeft' = Spend("relay", IF ok THEN 0 ELSE 1)
  /\ req' = [req EXCEPT ![r].pc = "wait"]
  /\ UNCHANGED <<day, quota, qfile, encKey, used, plan>>

CollectFault(r) ==
  /\ At(r, "wait") /\ chainJob[r].response
  /\ req' = [req EXCEPT ![r].pc = "settle", ![r].answer = TRUE]
  /\ UNCHANGED <<day, quota, qfile, chainJob, encKey, used, plan, gwLeft>>
\* The answer decrypted, or the deadline passed.
Collect(r) ==
  /\ At(r, "wait")
  /\ \/ chainJob[r].response /\ req' = [req EXCEPT ![r].pc = "settle", ![r].answer = TRUE]
     \/ req' = [req EXCEPT ![r].pc = "settle"]
  /\ UNCHANGED <<day, quota, qfile, chainJob, encKey, used, plan, gwLeft>>

\* settle_when_ready: the settlement goes once the primary's commit is anchored,
\* and once more at the deadline; the chain refuses it without the commit.
Settle(r) ==
  /\ At(r, "settle")
  /\ chainJob' = [chainJob EXCEPT ![r].settled = chainJob[r].commit]
  /\ req' = [req EXCEPT ![r].pc = "release", ![r].http = IF req[r].answer THEN 200 ELSE 504]
  /\ UNCHANGED <<day, quota, qfile, encKey, used, plan, gwLeft>>

\* The end of run_dendra: the estimate is replaced by the use, by nothing when
\* the job failed.
QuotaSettle(r) ==
  /\ At(r, "release")
  /\ \E real \in IF req[r].http = 200 THEN Uses ELSE {0}, ok \in Saves :
       LET k == req[r].dev
           old == Rolled(quota)
           q == SettledOn(old, k, real)
           spent == IF plan.ceiling THEN AtMost(real, Est) ELSE real
       IN /\ quota' = q
          /\ qfile' = IF ok THEN OnDisk(q) ELSE qfile
          /\ gwLeft' = Spend("disk", IF ok THEN 0 ELSE 1)
          /\ used' = IF req[r].day = day THEN [used EXCEPT !.today[k] = @ + spent]
                     ELSE [used EXCEPT !.glob = @ + AtLeast(0, old.glob - q.glob),
                                       !.hidden[k] = @ + AtLeast(0, old.ip[k] - q.ip[k]),
                                       !.bare[k] = @ + IF q.open[k] < old.open[k] THEN 1 ELSE 0]
          /\ req' = [req EXCEPT ![r].pc = "done"]
  /\ UNCHANGED <<day, chainJob, encKey, plan>>

-----------------------------------------------------------------------------
(* The others                                                              *)

\* The miner answers what it can open: the response first, then the commit.
MinerResponds(r) ==
  /\ chainJob[r].delivered /\ ~chainJob[r].response /\ req[r].sealed = encKey
  /\ chainJob' = [chainJob EXCEPT ![r].response = TRUE]
  /\ UNCHANGED <<day, quota, qfile, req, encKey, used, plan, gwLeft>>
MinerCommits(r) ==
  /\ chainJob[r].response /\ ~chainJob[r].commit
  /\ chainJob' = [chainJob EXCEPT ![r].commit = TRUE]
  /\ UNCHANGED <<day, quota, qfile, req, encKey, used, plan, gwLeft>>

RotateKey ==
  /\ gwLeft.rotate > 0
  /\ encKey' = encKey + 1
  /\ gwLeft' = Spend("rotate", 1)
  /\ UNCHANGED <<day, quota, qfile, req, chainJob, used, plan>>

\* The process stops with its requests; the next one reads the counters.  What
\* the requests in progress used is not known to anybody.
GwRestart ==
  /\ gwLeft.crash > 0
  /\ \E lost \in IF gwLeft.corrupt > 0 THEN BOOLEAN ELSE {FALSE} :
       /\ gwLeft' = [gwLeft EXCEPT !.crash = @ - 1, !.corrupt = IF lost THEN @ - 1 ELSE @]
       /\ qfile' = IF lost THEN [qfile EXCEPT !.kind = "unreadable"] ELSE qfile
       /\ quota' = Loaded(qfile')
  /\ LET cut == {r \in Reqs : req[r].pc \notin {"new", "done"}}
         worst == IF plan.ceiling THEN Est ELSE Max(Uses)
         now == {r \in cut : req[r].day = day /\ chainJob[r].response}
     IN /\ req' = [r \in Reqs |-> IF r \in cut THEN [req[r] EXCEPT !.pc = "done"] ELSE req[r]]
        /\ used' = [used EXCEPT !.today = [k \in Devices |->
                       @[k] + worst * Cardinality({r \in now : req[r].dev = k})]]
  /\ UNCHANGED <<day, chainJob, encKey, plan>>

NewDay ==
  /\ day < MaxDay
  /\ day' = day + 1
  /\ used' = NothingUsed
  /\ UNCHANGED <<quota, qfile, req, chainJob, encKey, plan, gwLeft>>

Init ==
  /\ \E q \in GwProfiles : plan = q.plan /\ gwLeft = q.left
  /\ day = 1 /\ quota = Fresh(1) /\ qfile = [kind |-> "none", q |-> Fresh(0)]
  /\ req = [r \in Reqs |-> NewReq] /\ chainJob = [r \in Reqs |-> NewJob]
  /\ encKey = 1
  /\ used = NothingUsed

Work(r) == \/ RefuseRequest(r) \/ QuotaReserve(r) \/ OpenJob(r) \/ AssignedCommittee(r) \/ Seal(r)
           \/ Deliver(r) \/ Collect(r)
           \/ Settle(r) \/ QuotaSettle(r)
Next == \/ \E r \in Reqs : Work(r) \/ MinerResponds(r) \/ MinerCommits(r)
        \/ RotateKey \/ GwRestart \/ NewDay

\* Every step of a request is bounded by a timeout of the code.
Fair == \A r \in Reqs : WF_gwvars(Work(r))
Spec == Init /\ [][Next]_gwvars
FairSpec == Spec /\ Fair

-----------------------------------------------------------------------------
\* The shape of the state; a job settles only once committed and in escrow.
TypeOK ==
  /\ day \in 1 .. MaxDay /\ quota.glob \in Nat /\ encKey \in Nat
  /\ \A k \in Devices : quota.ip[k] \in Nat /\ quota.open[k] \in Nat
  /\ \A r \in Reqs : req[r].http \in {0, 200, 400, 401, 403, 413, 415, 429, 502, 503, 504}
  /\ \A r \in Reqs : chainJob[r].settled => chainJob[r].commit /\ chainJob[r].escrow

InFlight(k) == {r \in Reqs : req[r].dev = k /\ req[r].day = day /\ req[r].pc # "done"}

Due(k) == used.today[k] + Est * Cardinality(InFlight(k))
TotalDue == MapThenSumSet(Due, Devices)

\* What a device was served today, and what its requests in progress may still
\* use, is in the counters, or the free tier is closed to it: no interleaving
\* of requests, failed save or restart reopens the tier.  The one exception is
\* counted exactly (quota_settle): a request taken before midnight and settled
\* after it gives its estimate back on the new day's counters, which hides what
\* they lost, and may take away the open record of another, whose use beyond its
\* estimate a restart then misses.
ServedAccounted ==
  LET q == Rolled(quota)
      over == AtLeast(0, Max(Uses) - Est)
  IN \/ q.glob >= FreeDay
     \/ /\ TotalDue <= q.glob + used.glob + over * MapThenSumSet(LAMBDA k : used.bare[k], Devices)
        /\ \A k \in Devices : Due(k) <= q.ip[k] + used.hidden[k] + over * used.bare[k]

\* What the module says of its quotas, "global per day and per device per day",
\* with a quota that a restart "does not reopen": the counters hold what is due,
\* with no exception.  Violated by a request that crosses midnight.
ServedOnCounters ==
  LET q == Rolled(quota)
  IN q.glob >= FreeDay \/ (TotalDue <= q.glob /\ \A k \in Devices : Due(k) <= q.ip[k])

Taken(r) == req[r].pc # "new"
Ended(r) == req[r].pc = "done"

\* Every request taken is answered (the timeouts of client.py bound each step).
RequestAnswered == \A r \in Reqs : Taken(r) ~> Ended(r)
=============================================================================

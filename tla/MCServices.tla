------------------------------ MODULE MCServices ------------------------------
(* Small instances of the modules of the services for TLC.  The processes of     *)
(* this network share no memory: each module holds the part of the chain, of the *)
(* relay and of the disk its component reads.  One run therefore explores        *)
(* several of them side by side: comp names the component of a behaviour, and    *)
(* the slots s1, s2, ... hold the variables of that component, in the order its  *)
(* module declares them.  Live selects the smaller cases on which the progress   *)
(* properties are checked.                                                       *)
EXTENDS Integers, Sequences, FiniteSets

CONSTANTS None,   \* no value, in every module and in an unused slot
          Comps,  \* the components a run explores
          Live    \* whether the run checks progress

VARIABLES comp, s1, s2, s3, s4, s5, s6, s7, s8, s9, s10, s11, s12, s13, s14, s15, s16

slots == <<s1, s2, s3, s4, s5, s6, s7, s8, s9, s10, s11, s12, s13, s14, s15, s16>>

-----------------------------------------------------------------------------
(* The cases: what each component starts from, with a budget for each fault.      *)

ServeNone == [crash |-> 0, put |-> 0, late |-> 0, tx |-> 0, disk |-> 0, gen |-> 0, drain |-> 0, expire |-> 0]
ServeFaults ==
  IF Live THEN {[ServeNone EXCEPT !.crash = 1, !.put = 1, !.tx = 1, !.disk = 1, !.gen = 1]}
  ELSE {[crash |-> 1, put |-> 2, late |-> 0, tx |-> 1, disk |-> 1, gen |-> 1, drain |-> 1, expire |-> 1],
        [ServeNone EXCEPT !.put = 1, !.late = 1, !.tx = 3, !.expire = 1],
        [ServeNone EXCEPT !.late = 1, !.disk = 1, !.put = 1, !.tx = 1],
        [ServeNone EXCEPT !.late = 1, !.crash = 1, !.put = 1, !.tx = 1]}

SeatHeight == IF Live THEN 5 ELSE 7
SeatBudget == IF Live THEN 2 ELSE 3

(* One audit with the diversity check, one with a juror that abandons, two audits  *)
(* of two primaries.                                                              *)
DeskJobs == {"a", "b"}
DeskNone == [relay |-> 0, seat |-> 0, crash |-> 0, tx |-> 0, raise |-> 0, engine |-> 0, put |-> 0,
             marker |-> 0, lost |-> 0]
DeskFlags(two, div, ab, S) == [two |-> two, div |-> div, abandon |-> ab, open |-> S]
DeskCases ==
  IF Live
  THEN {[flags |-> DeskFlags(FALSE, TRUE, FALSE, {"a"}), left |-> [DeskNone EXCEPT !.relay = 1, !.tx = 1, !.engine = 1]]}
  ELSE {[flags |-> DeskFlags(FALSE, TRUE, FALSE, {"a"}),
         left |-> [DeskNone EXCEPT !.relay = 2, !.seat = 1, !.tx = 1, !.engine = 1]],
        [flags |-> DeskFlags(FALSE, FALSE, TRUE, {"a"}),
         left |-> [DeskNone EXCEPT !.relay = 2, !.crash = 1, !.marker = 1, !.put = 1, !.tx = 1]],
        [flags |-> DeskFlags(FALSE, FALSE, FALSE, {"a"}), left |-> [DeskNone EXCEPT !.relay = 1, !.raise = 2, !.tx = 1]],
        [flags |-> DeskFlags(TRUE, FALSE, FALSE, {"a"}), left |-> [DeskNone EXCEPT !.lost = 1, !.relay = 1, !.raise = 1]],
        [flags |-> DeskFlags(TRUE, FALSE, FALSE, {"a", "b"}), left |-> [DeskNone EXCEPT !.relay = 2]]}

MemNone == [noise |-> 0, engine |-> 0, daemon |-> 0, juror |-> 0, squeeze |-> 0, hang |-> 0]
Desktop == [host |-> "desktop", ceiling |-> "resident", limit |-> None, est |-> 2, kv |-> TRUE,
            sized |-> TRUE, serves |-> FALSE]
MemCases ==
  IF Live
  THEN {[conf |-> Desktop, left |-> [MemNone EXCEPT !.engine = 1, !.squeeze = 1]],
        [conf |-> [Desktop EXCEPT !.host = "server", !.sized = FALSE], left |-> [MemNone EXCEPT !.noise = 1]]}
  ELSE {[conf |-> Desktop, left |-> [MemNone EXCEPT !.engine = 1, !.squeeze = 2]],
        [conf |-> [Desktop EXCEPT !.host = "server", !.sized = FALSE],
         left |-> [MemNone EXCEPT !.squeeze = 1, !.noise = 1]],
        [conf |-> [Desktop EXCEPT !.host = "wsl"], left |-> [MemNone EXCEPT !.squeeze = 1, !.noise = 1]],
        [conf |-> [Desktop EXCEPT !.limit = 1, !.est = 1, !.serves = TRUE], left |-> [MemNone EXCEPT !.daemon = 1]],
        [conf |-> [Desktop EXCEPT !.serves = TRUE], left |-> MemNone],
        [conf |-> [Desktop EXCEPT !.limit = 1, !.est = 1], left |-> [MemNone EXCEPT !.juror = 1, !.hang = 1]],
        [conf |-> [Desktop EXCEPT !.kv = FALSE, !.sized = FALSE, !.est = 1], left |-> [MemNone EXCEPT !.squeeze = 1]]}

PresNone == [read |-> 0, disk |-> 0, engine |-> 0, tx |-> 0, crash |-> 0, rescue |-> 0]
PresRules(d, f, g) == [deadline |-> d, floor |-> f, kit |-> 0, reg |-> g]
PresCases ==
  IF Live
  THEN {[rules |-> PresRules(0, 0, "registry_unread"),
         left |-> [PresNone EXCEPT !.read = 1, !.engine = 1, !.tx = 1, !.crash = 1]]}
  ELSE {[rules |-> PresRules(2, 0, "registered"),
         left |-> [PresNone EXCEPT !.read = 1, !.disk = 1, !.engine = 1, !.tx = 1, !.crash = 1, !.rescue = 1]],
        [rules |-> PresRules(2, 1, "absent"), left |-> [PresNone EXCEPT !.tx = 1, !.crash = 2, !.rescue = 1]]}

IdNone == [disk |-> 0, read |-> 0, rename |-> 0, crash |-> 0, config |-> 0, migrate |-> 0, relay |-> 0]
IdCases ==
  {[owner |-> FALSE, secret |-> "none", left |-> [IdNone EXCEPT !.disk = 1, !.crash = 2, !.config = 2, !.migrate = 1]],
   [owner |-> TRUE, secret |-> "none", left |-> [IdNone EXCEPT !.read = 1, !.crash = 2, !.config = 2]],
   [owner |-> FALSE, secret |-> "right",
    left |-> [IdNone EXCEPT !.read = 1, !.rename = 1, !.crash = 2, !.config = 1, !.relay = 1]]}

(* Two copies of the application on one kit.                                      *)
KitDoers == {"a1", "a2"}
KitStoppers == {"s1", "s2", "s3"}
KitCopy == [t \in KitDoers \cup KitStoppers |-> IF t \in {"a1", "s1", "s3"} THEN 1 ELSE 2]
KitNone == [ask |-> 0, stop |-> 0, fail |-> 0, slow |-> 0, nolock |-> 0, paths |-> {"start"}]
KitPaths == {"start", "gpu-off", "gpu-on", "judge"}
KitCases ==
  IF Live THEN {[KitNone EXCEPT !.ask = 1, !.stop = 2, !.paths = {"start", "gpu-off"}]}
  ELSE {[KitNone EXCEPT !.ask = 2, !.stop = 1, !.paths = KitPaths],
        [KitNone EXCEPT !.ask = 1, !.stop = 1, !.fail = 2, !.nolock = 1, !.paths = KitPaths],
        [KitNone EXCEPT !.ask = 1, !.stop = 2, !.slow = 1]}

ConsentNone == [codes |-> 2, unused |-> 0, relaunch |-> 0, slow |-> 0, confirm |-> 0, exec |-> 0, key |-> 0,
                stop |-> 0, targets |-> {}]
Remove(k) == [addr |-> None, slots |-> {k}]
PayTo(a, S) == [addr |-> a, slots |-> S]
ConsentCases ==
  {[ConsentNone EXCEPT !.confirm = 2, !.key = 1, !.targets = {Remove(0), Remove(1)}],
   [ConsentNone EXCEPT !.exec = 1, !.stop = 1, !.slow = 1, !.targets = {Remove(0), PayTo("x", {0}), PayTo("x", {0, 1})}],
   [ConsentNone EXCEPT !.relaunch = 1, !.unused = 1, !.confirm = 1, !.targets = {Remove(0), PayTo("x", {0})}],
   [ConsentNone EXCEPT !.codes = 1, !.confirm = 1, !.exec = 1, !.key = 1, !.targets = {Remove(0)}]}

PayoutNone == [settings |-> {"a"}, byHand |-> {"b"}, lock |-> {FALSE}, owner |-> {FALSE}, down |-> 0, lost |-> 0,
               upgrade |-> 0, disk |-> 0, restart |-> 0, hand |-> 0, prepare |-> 0]
PayoutCases ==
  {[PayoutNone EXCEPT !.settings = {None, "a", "c"}, !.lock = BOOLEAN, !.down = 1, !.lost = 1, !.restart = 2,
                      !.hand = IF Live THEN 1 ELSE 2, !.disk = 1],
   [PayoutNone EXCEPT !.lock = {TRUE}, !.settings = {"a", "m"}, !.upgrade = 1, !.lost = 1, !.down = 1,
                      !.hand = IF Live THEN 1 ELSE 2, !.restart = 1],
   [PayoutNone EXCEPT !.owner = {TRUE}, !.byHand = {"a", "b"}, !.lost = 1, !.restart = 1, !.hand = 1, !.prepare = 2]}

GwReqs == {"r1", "r2"}
GwDays == IF Live THEN 1 ELSE 2
GwNone == [disk |-> 0, chain |-> 0, relay |-> 0, rotate |-> 0, crash |-> 0, corrupt |-> 0]
GwCases ==
  IF Live THEN {[plan |-> [ceiling |-> TRUE], left |-> [GwNone EXCEPT !.chain = 1, !.relay = 1, !.rotate = 1]]}
  ELSE {[plan |-> [ceiling |-> TRUE], left |-> [GwNone EXCEPT !.disk = 1, !.crash = 1]],
        [plan |-> [ceiling |-> FALSE], left |-> [GwNone EXCEPT !.disk = 1, !.crash = 1, !.corrupt = 1]],
        [plan |-> [ceiling |-> TRUE], left |-> [GwNone EXCEPT !.chain = 2, !.relay = 1, !.rotate = 1]]}

FaucetNone == [probe |-> 0, chain |-> 0, disk |-> 0, refuse |-> 0, slow |-> 0, crash |-> 0, corrupt |-> 0]
FaucetRules(pow, floor, S) == [pow |-> pow, floor |-> floor, from |-> S]
FaucetCases ==
  {[rules |-> FaucetRules(FALSE, FALSE, {<<"a1", "i1">>, <<"a2", "i1">>, <<"a1", "i2">>}),
    left |-> [FaucetNone EXCEPT !.disk = 1, !.crash = 1, !.corrupt = 1]],
   [rules |-> FaucetRules(TRUE, FALSE, {<<"a1", "i1">>, <<"a1", "i2">>}),
    left |-> [FaucetNone EXCEPT !.probe = 1, !.chain = 1, !.refuse = 1, !.slow = 1]],
   [rules |-> FaucetRules(FALSE, FALSE, {<<"a1", "i1">>, <<"a1", "i2">>}),
    left |-> [FaucetNone EXCEPT !.chain = 1, !.slow = 1, !.crash = 1]],
   [rules |-> FaucetRules(FALSE, TRUE, {<<"a1", "i1">>, <<"a2", "i2">>}), left |-> FaucetNone]}

CapNone == [round |-> 0, late |-> 0, again |-> 0, equal |-> 0, unsigned |-> 0, rpc |-> 0, disk |-> 0, get |-> 0,
            tick |-> 0, operator |-> 0, reset |-> 0, tx |-> 0, kit |-> 0, sends |-> TRUE, forever |-> FALSE]
CapHandlers == {1, 2}
CapDeclarations == {[machine |-> 1, node |-> 1, names |-> {"m1"}], [machine |-> 2, node |-> 1, names |-> {"m1"}],
                    [machine |-> 3, node |-> 1, names |-> {}]}
(* Reports on file before the run: kits 1 and 2 fresh, kit 1 past its age.         *)
CapFiled ==
  LET kinds == {[k |-> 1, a |-> 0], [k |-> 2, a |-> 0], [k |-> 1, a |-> 2]}
      rec(x) == [age |-> x.a, kit |-> x.k, seq |-> 0, machine |-> 9, node |-> 1, names |-> {}]
  IN {[m \in {"m2", "m3", "m4"} |-> rec(f[m])] : f \in [{"m2", "m3", "m4"} -> kinds]}
CapCase(l, f) == [left |-> l, found |-> f]
CapCases ==
  IF Live THEN {CapCase([CapNone EXCEPT !.forever = TRUE, !.reset = 1, !.tx = 1], {<<>>})}
  ELSE {CapCase([CapNone EXCEPT !.unsigned = 3, !.tick = 2], {<<>>}),
        CapCase([CapNone EXCEPT !.unsigned = 2, !.rpc = 1, !.tick = 1], {<<>>}),
        CapCase([CapNone EXCEPT !.get = 3, !.rpc = 1, !.tick = 3, !.sends = FALSE], {<<>>}),
        CapCase([CapNone EXCEPT !.tick = 1, !.sends = FALSE, !.get = 1], CapFiled),
        CapCase([CapNone EXCEPT !.equal = 1, !.again = 1, !.operator = 1, !.tick = 1, !.late = 1, !.kit = 1], {<<>>}),
        CapCase([CapNone EXCEPT !.again = 2, !.tick = 1, !.disk = 1, !.round = 1, !.tx = 1], {<<>>})}

PartCases == {[blocks |-> 3, builds |-> 1, fail |-> 1, relaunch |-> 0],
              [blocks |-> 2, builds |-> 2, fail |-> 0, relaunch |-> 1]}

CommitCases == {[commits |-> 4, reset |-> 0, fail |-> 1, builds |-> 2, models |-> {"a"}],
                [commits |-> 1, reset |-> 1, fail |-> 0, builds |-> 4, models |-> {"a", "b"}]}

FeedWall == IF Live THEN 2 ELSE 4
FeedNone == [clock |-> 0, steps |-> {0}, blocks |-> 1, listing |-> 0, status |-> 0, raise |-> 0, loop |-> 0,
             undated |-> 0, lights |-> 2, builds |-> 2]
FeedCases ==
  IF Live THEN {[FeedNone EXCEPT !.builds = None, !.lights = 0, !.listing = 1, !.raise = 1, !.loop = 1]}
  ELSE {[FeedNone EXCEPT !.builds = 3, !.listing = 1, !.raise = 1, !.loop = 1, !.blocks = 0, !.lights = 1],
        [FeedNone EXCEPT !.clock = 1, !.steps = {-4, 2}, !.lights = 1],
        [FeedNone EXCEPT !.status = 1, !.undated = 1, !.raise = 1, !.blocks = 0]}

PointOps == [m1 |-> "o1", m2 |-> "o1", m3 |-> "o2", m4 |-> "o3", m5 |-> "o4", m6 |-> "o5"]
Job(st, m, c, f) == [st |-> st, miner |-> m, client |-> c, fee |-> f]
PointLeft(v, w, d, f) == [moves |-> v, votes |-> w, departs |-> d, fail |-> f]
PointFew == {"m1", "m2", "m3"}
PointCases ==
  {[jobs |-> [a |-> Job("paid", "m1", "c1", 40), b |-> Job("paid", "m3", "c1", 20), c |-> Job("unpaid", "m2", "o2", 12)],
    miners |-> PointFew, left |-> PointLeft(2, 0, 1, 0)],
   [jobs |-> [a |-> Job("pending", "m1", "c1", 12), b |-> Job("paid", "m3", "c2", 40)], miners |-> PointFew, left |-> PointLeft(1, 2, 1, 1)],
   [jobs |-> [a |-> Job("paid", "m1", "c2", 60), b |-> Job("paid", "m2", "o1", 4), c |-> Job("paid", "m3", "c2", 60)],
    miners |-> PointFew, left |-> PointLeft(1, 0, 0, 0)],
   [jobs |-> [a |-> Job("paid", "m1", "c1", 200), b |-> Job("paid", "m1", "c3", 200),
              c |-> Job("paid", "m3", "c1", 20), d |-> Job("paid", "m4", "c1", 20),
              e |-> Job("paid", "m5", "c3", 20), f |-> Job("paid", "m6", "c3", 20)],
    miners |-> DOMAIN PointOps, left |-> PointLeft(1, 0, 0, 0)]}

JuryHeight == 7

-----------------------------------------------------------------------------
(* The components.                                                              *)

Serve == INSTANCE MinerServe WITH
  listed <- s1, res <- s2, late <- s3, anchored <- s4, mempool <- s5, journal <- s6,
  fails <- s7, full <- s8, drain <- s9, d <- s10, gens <- s11, stale <- s12, unnoted <- s13, left <- s14,
  Keys <- {"k1"}, Models <- {"m1", "m2"}, MaxGen <- 3, MaxAttempts <- 1, Faults <- ServeFaults

Seat == INSTANCE JudgeSeat WITH
  now <- s1, upgraded <- s2, decl <- s3, seated <- s4, pool <- s5, ready <- s6, drains <- s7,
  p <- s8, ours <- s9, seatLeft <- s10, Cap <- 2, Window <- 2, MaxHeight <- SeatHeight,
  SeatFaults <- SeatBudget

Desk == INSTANCE AuditDesk WITH
  epoch <- s1, jury <- s2, open <- s3, verdict <- s4, vtx <- s5, roots <- s6, lists <- s7,
  copies <- s8, rw <- s9, jw <- s10, past <- s11, flags <- s12, deskLeft <- s13,
  Jobs <- DeskJobs, Primary <- [a |-> "p1", b |-> "p2"], DisputedAt <- [a |-> 0, b |-> 0],
  MaxEpoch <- 1, Grace <- 2, MinOthers <- 1, DeskProfiles <- DeskCases

Memory == INSTANCE MemWatch WITH
  conf <- s1, taken <- s2, model <- s3, watch <- s4, memDoc <- s5, guard <- s6,
  ledgerDoc <- s7, due <- s8, mem <- s9, memLeft <- s10, Total <- 5, Warm <- 1, Weight <- 2,
  Promote <- 2, Stale <- 3, MaxPause <- 3, MaxOom <- 6, MemProfiles <- MemCases

Present == INSTANCE Presence WITH
  block <- s1, present <- s2, proofPool <- s3, fate <- s4, turn <- s5, availRec <- s6,
  chainRules <- s7, rescued <- s8, presLeft <- s9, EpochBlocks <- 3, MaxBlock <- 7,
  PresProfiles <- PresCases

Identity == INSTANCE MinerIdentity WITH
  ring <- s1, secret <- s2, memo <- s3, phrase <- s4, noted <- s5, cut <- s6, made <- s7,
  setting <- s8, registry <- s9, offered <- s10, proc <- s11, moving <- s12, boot <- s13,
  unkept <- s14, history <- s15, idLeft <- s16, Passed <- 0, OwnerAcc <- 9, MaxKeys <- 2,
  IdProfiles <- IdCases

Kit == INSTANCE KitActions WITH
  app <- s1, kitLock <- s2, request <- s3, th <- s4, up <- s5, mode <- s6, env <- s7,
  told <- s8, downBy <- s9, beside <- s10, kitLeft <- s11, Copies <- {1, 2}, Doers <- KitDoers,
  Stoppers <- KitStoppers, CopyOf <- KitCopy, KitProfiles <- KitCases

Consent == INSTANCE AppConsent WITH
  access <- s1, codes <- s2, issued <- s3, challenge <- s4, phrase <- s5, gen <- s6,
  shown <- s7, typed <- s8, removed <- s9, appFile <- s10, actionBy <- s11, stopping <- s12,
  filed <- s13, page <- s14, consentLeft <- s15, ConsentSlots <- {0, 1},
  PayAddresses <- {"x", "y"}, Pages <- {"q1", "q2"}, CodeTries <- 2,
  ConsentProfiles <- ConsentCases

Payout == INSTANCE PayoutDeclare WITH
  conf <- s1, prog <- s2, payRec <- s3, lockRec <- s4, dm <- s5, hd <- s6, pend <- s7,
  signed <- s8, sb <- s9, recorded <- s10, declLeft <- s11, OwnKey <- "m",
  DeclProfiles <- PayoutCases

Gw == INSTANCE Gateway WITH
  day <- s1, quota <- s2, qfile <- s3, req <- s4, chainJob <- s5, encKey <- s6, used <- s7,
  plan <- s8, gwLeft <- s9, Reqs <- GwReqs, Devices <- {"d1", "d2"}, Est <- 2, Uses <- {1, 3},
  FreeDay <- 4, FreeDevice <- 3, MaxDay <- GwDays, GwProfiles <- GwCases

Drip == INSTANCE Faucet WITH
  clock <- s1, caps <- s2, capsFile <- s3, ask <- s4, bank <- s5, drips <- s6, rules <- s7,
  faucetLeft <- s8, Asks <- {1, 2, 3}, Addrs <- {"a1", "a2"}, Ips <- {"i1", "i2"},
  Cooldown <- 2, DayLen <- 2, IpDaily <- 1, DailyCap <- 2, MaxClock <- 2,
  FaucetProfiles <- FaucetCases

Cap == INSTANCE Capacity WITH
  ledger <- s1, kit <- s2, registry <- s3, store <- s4, mail <- s5, post <- s6, sender <- s7,
  rate <- s8, blockC <- s9, reader <- s10, reading <- s11, capLeft <- s12,
  Ids <- {"m1", "m2", "m3", "m4"}, Me <- "m1", Declarations <- CapDeclarations, StaleAge <- 1,
  PurgeAge <- 2, RateIp <- 2, RateSigned <- 2, DeclaredMax <- 1, AnonymityMin <- 2,
  MaxSeq <- 1, MaxKit <- 2, Handlers <- CapHandlers, Readers <- {1, 2}, MaxReading <- 2,
  CapProfiles <- CapCases

Part == INSTANCE ProofPartition WITH
  pjob <- s1, pOpened <- s2, events <- s3, chainNo <- s4, rd <- s5, origins <- s6, part <- s7,
  partLeft <- s8, AuditJobs <- {1, 2}, MaxFound <- 1, PartProfiles <- PartCases

Commits == INSTANCE CommitCache WITH
  listing <- s1, kept <- s2, cb <- s3, out <- s4, foreign <- s5, strange <- s6,
  commitLeft <- s7, MaxRow <- 4, PageRows <- 2, Window <- 1, Patches <- 2, FullEvery <- 2,
  CommitProfiles <- CommitCases

Feed == INSTANCE ProofFeed WITH
  wall <- s1, skew <- s2, headBlock <- s3, cache <- s4, builder <- s5, light <- s6,
  newest <- s7, story <- s8, feedLeft <- s9, StaleBlock <- 2, MaxWall <- FeedWall,
  FeedProfiles <- FeedCases

Board == INSTANCE Points WITH
  pj <- s1, enrolled <- s2, ptime <- s3, attempt <- s4, reads <- s5, board <- s6,
  pointLeft <- s7, PointMiners <- DOMAIN PointOps, OpOf <- PointOps,
  PointClients <- {"c1", "c2", "c3", "o1", "o2"}, Subsidised <- {"c2"}, WeightJudge <- 8,
  UseCap <- [num |-> 3, den |-> 7], OwnerCap <- [num |-> 1, den |-> 4],
  IdCap <- [num |-> 1, den |-> 4], RefreshS <- 1, MaxPointClock <- 1,
  PointProfiles <- PointCases

Jury == INSTANCE SeasonJury WITH
  height <- s1, drawn <- s2, commit <- s3, resolved <- s4, arrival <- s5, memo <- s6,
  reveal <- s7, set <- s8, published <- s9, Jobs <- {"j1"}, Jurors <- {"a", "b"},
  Sets <- {"kit", "jury"}, Faults <- {"j1"}, First <- 1, Last <- 2, Settled <- 1, Unwind <- 1,
  Timeout <- 1, Margin <- 1, Quorum <- 1, MaxHeight <- JuryHeight

-----------------------------------------------------------------------------
(* The sum: a behaviour is one of its component, in the first slots.             *)

Init ==
  /\ comp \in Comps
  /\ \/ comp = "serve" /\ Serve!Init /\ s15 = None /\ s16 = None
     \/ comp = "seat" /\ Seat!Init /\ s11 = None /\ s12 = None /\ s13 = None /\ s14 = None /\ s15 = None /\ s16 = None
     \/ comp = "desk" /\ Desk!Init /\ s14 = None /\ s15 = None /\ s16 = None
     \/ comp = "memory" /\ Memory!Init /\ s11 = None /\ s12 = None /\ s13 = None /\ s14 = None /\ s15 = None /\ s16 = None
     \/ comp = "presence" /\ Present!Init /\ s10 = None /\ s11 = None /\ s12 = None /\ s13 = None /\ s14 = None /\ s15 = None /\ s16 = None
     \/ comp = "identity" /\ Identity!Init
     \/ comp = "kit" /\ Kit!Init /\ s12 = None /\ s13 = None /\ s14 = None /\ s15 = None /\ s16 = None
     \/ comp = "app" /\ Consent!Init /\ s16 = None
     \/ comp = "payout" /\ Payout!Init /\ s12 = None /\ s13 = None /\ s14 = None /\ s15 = None /\ s16 = None
     \/ comp = "gateway" /\ Gw!Init /\ s10 = None /\ s11 = None /\ s12 = None /\ s13 = None /\ s14 = None /\ s15 = None /\ s16 = None
     \/ comp = "faucet" /\ Drip!Init /\ s9 = None /\ s10 = None /\ s11 = None /\ s12 = None /\ s13 = None /\ s14 = None /\ s15 = None /\ s16 = None
     \/ comp = "capacity" /\ Cap!Init /\ s13 = None /\ s14 = None /\ s15 = None /\ s16 = None
     \/ comp = "partition" /\ Part!Init /\ s9 = None /\ s10 = None /\ s11 = None /\ s12 = None /\ s13 = None /\ s14 = None /\ s15 = None /\ s16 = None
     \/ comp = "commits" /\ Commits!Init /\ s8 = None /\ s9 = None /\ s10 = None /\ s11 = None /\ s12 = None /\ s13 = None /\ s14 = None /\ s15 = None /\ s16 = None
     \/ comp = "feed" /\ Feed!Init /\ s10 = None /\ s11 = None /\ s12 = None /\ s13 = None /\ s14 = None /\ s15 = None /\ s16 = None
     \/ comp = "points" /\ Board!Init /\ s8 = None /\ s9 = None /\ s10 = None /\ s11 = None /\ s12 = None /\ s13 = None /\ s14 = None /\ s15 = None /\ s16 = None
     \/ comp = "jury" /\ Jury!Init /\ s10 = None /\ s11 = None /\ s12 = None /\ s13 = None /\ s14 = None /\ s15 = None /\ s16 = None

Next ==
  \/ comp = "serve" /\ Serve!Next /\ UNCHANGED <<s15, s16, comp>>
  \/ comp = "seat" /\ Seat!Next /\ UNCHANGED <<s11, s12, s13, s14, s15, s16, comp>>
  \/ comp = "desk" /\ Desk!Next /\ UNCHANGED <<s14, s15, s16, comp>>
  \/ comp = "memory" /\ Memory!Next /\ UNCHANGED <<s11, s12, s13, s14, s15, s16, comp>>
  \/ comp = "presence" /\ Present!Next /\ UNCHANGED <<s10, s11, s12, s13, s14, s15, s16, comp>>
  \/ comp = "identity" /\ Identity!Next /\ UNCHANGED <<comp>>
  \/ comp = "kit" /\ Kit!Next /\ UNCHANGED <<s12, s13, s14, s15, s16, comp>>
  \/ comp = "app" /\ Consent!Next /\ UNCHANGED <<s16, comp>>
  \/ comp = "payout" /\ Payout!Next /\ UNCHANGED <<s12, s13, s14, s15, s16, comp>>
  \/ comp = "gateway" /\ Gw!Next /\ UNCHANGED <<s10, s11, s12, s13, s14, s15, s16, comp>>
  \/ comp = "faucet" /\ Drip!Next /\ UNCHANGED <<s9, s10, s11, s12, s13, s14, s15, s16, comp>>
  \/ comp = "capacity" /\ Cap!Next /\ UNCHANGED <<s13, s14, s15, s16, comp>>
  \/ comp = "partition" /\ Part!Next /\ UNCHANGED <<s9, s10, s11, s12, s13, s14, s15, s16, comp>>
  \/ comp = "commits" /\ Commits!Next /\ UNCHANGED <<s8, s9, s10, s11, s12, s13, s14, s15, s16, comp>>
  \/ comp = "feed" /\ Feed!Next /\ UNCHANGED <<s10, s11, s12, s13, s14, s15, s16, comp>>
  \/ comp = "points" /\ Board!Next /\ UNCHANGED <<s8, s9, s10, s11, s12, s13, s14, s15, s16, comp>>
  \/ comp = "jury" /\ Jury!Next /\ UNCHANGED <<s10, s11, s12, s13, s14, s15, s16, comp>>

vars == <<comp, slots>>
Spec == Init /\ [][Next]_vars

-----------------------------------------------------------------------------
(* Fairness: the actions of each module's Fair, numbered. A behaviour has one component, *)
(* so the i-th condition is that of the i-th action of its component.                   *)

Fairly(i) ==
  \/ /\ comp = "serve" /\ UNCHANGED <<s15, s16>>
     /\ \/ (i = 1 /\ Serve!Loop) \/ (i = 2 /\ Serve!StartsUp) \/ (i = 3 /\ Serve!PauseOver("k1"))
        \/ (i = 4 /\ Serve!DiskFreed)
  \/ /\ comp = "seat" /\ UNCHANGED <<s11, s12, s13, s14, s15, s16>>
     /\ \/ (i = 1 /\ Seat!EpochTick) \/ (i = 2 /\ Seat!Turn) \/ (i = 3 /\ Seat!Send)
        \/ (i = 4 /\ Seat!Settled)
  \/ /\ comp = "desk" /\ UNCHANGED <<s14, s15, s16>>
     /\ \/ (i = 1 /\ Desk!Reveal("a")) \/ (i = 2 /\ Desk!PostZero("a"))
        \/ (i = 3 /\ Desk!FoundOnChain("a")) \/ (i = 4 /\ Desk!Judge("a"))
        \/ (i = 5 /\ Desk!PostVerdict("a"))
  \/ /\ comp = "memory" /\ UNCHANGED <<s11, s12, s13, s14, s15, s16>>
     /\ \/ (i = 1 /\ Memory!WatchRead) \/ (i = 2 /\ Memory!WatchDecide) \/ (i = 3 /\ Memory!WatchAct)
        \/ (i = 4 /\ Memory!AfterPass) \/ (i = 5 /\ Memory!LoadModel) \/ (i = 6 /\ Memory!MemTick)
  \/ /\ comp = "presence" /\ UNCHANGED <<s10, s11, s12, s13, s14, s15, s16>>
     /\ \/ (i = 1 /\ Present!DaemonTurn) \/ (i = 2 /\ Present!ProbePauseOver)
        \/ (i = 3 /\ Present!RegisterAttempt) \/ (i = 4 /\ Present!Execute(0))
        \/ (i = 5 /\ Present!Execute(1)) \/ (i = 6 /\ Present!Execute(2))
  \/ /\ comp = "payout" /\ UNCHANGED <<s12, s13, s14, s15, s16>>
     /\ \/ (i = 1 /\ Payout!DaemonTry) \/ (i = 2 /\ Payout!DaemonAnswered)
  \/ /\ comp = "gateway" /\ UNCHANGED <<s10, s11, s12, s13, s14, s15, s16>>
     /\ \/ (i = 1 /\ Gw!Work("r1")) \/ (i = 2 /\ Gw!Work("r2"))
  \/ /\ comp = "capacity" /\ UNCHANGED <<s13, s14, s15, s16>>
     /\ \/ (i = 1 /\ Cap!Window) \/ (i = 2 /\ Cap!Round) \/ (i = 3 /\ Cap!Tick)
        \/ (i = 4 /\ Cap!Registers) \/ (i = 5 /\ Cap!Prove(1)) \/ (i = 6 /\ Cap!Prove(2))
        \/ (i = 7 /\ Cap!File(1)) \/ (i = 8 /\ Cap!File(2))
  \/ /\ comp = "kit" /\ UNCHANGED <<s12, s13, s14, s15, s16>>
     /\ \/ (i = 1 /\ Kit!DoerSteps("a1")) \/ (i = 2 /\ Kit!DoerSteps("a2"))
        \/ (i = 3 /\ Kit!StopSteps("s1")) \/ (i = 4 /\ Kit!StopSteps("s2"))
        \/ (i = 5 /\ Kit!StopSteps("s3"))
  \/ /\ comp = "feed" /\ UNCHANGED <<s10, s11, s12, s13, s14, s15, s16>>
     /\ \/ (i = 1 /\ Feed!BuildBegin) \/ (i = 2 /\ Feed!ReadListing) \/ (i = 3 /\ Feed!ReadStatus)
        \/ (i = 4 /\ Feed!PublishBuilt) \/ (i = 5 /\ Feed!PublishFailed)

Retried(i) ==
  \/ comp = "desk" /\ i = 1 /\ Desk!Listed("a") /\ UNCHANGED <<s14, s15, s16>>
  \/ comp = "capacity" /\ i \in CapHandlers /\ Cap!ReceivesMine(i) /\ UNCHANGED <<s13, s14, s15, s16>>
  \/ comp = "kit" /\ Kit!FindsKitFree(<<"s1", "s2", "s3">>[i]) /\ UNCHANGED <<s12, s13, s14, s15, s16>>

FairSpec == Spec /\ (\A i \in 1 .. 8 : WF_slots(Fairly(i))) /\ (\A i \in 1 .. 3 : SF_slots(Retried(i)))

-----------------------------------------------------------------------------
(* Properties: those of the modules, each of the behaviours of its component.           *)

(* What the miner's daemon put on its disk, the relay and the chain agrees: the         *)
(* commitment anchored is the one of the response deposited, which never waits without  *)
(* its journalled commitment; a challenge it no longer answers is proven or closed; its *)
(* payout records say only what the programme answered (miner.py, serve_loop,           *)
(* _journal_commitment, answer_challenge; final_season_miner.py).                       *)
MinerKeepsItsWord ==
  /\ comp = "serve" => Serve!TypeOK /\ Serve!AnchoredIsDeposited /\ Serve!DepositIsJournalled
  /\ comp = "presence" => Present!TypeOK /\ Present!SettledTruthful
  /\ comp = "payout" => Payout!TypeOK /\ Payout!RecordsTruthful

(* A judge completes one judgment of an audit and a retry is no second draw; its        *)
(* markers can be checked by every juror; an outage of the relay accuses nobody whose   *)
(* copies are there; it stays loaded only on a machine that earned it, and a load that  *)
(* ran out of memory is counted once and learned from (judge_worker.py,                 *)
(* reveal_worker.py, reveal_marker.py, memwatch.py).                                    *)
JudgeIsFair ==
  /\ comp = "seat" => Seat!TypeOK
  /\ comp = "desk" => /\ Desk!TypeOK /\ Desk!JudgedOnce /\ Desk!AcquittedOnce /\ Desk!MarkerVerifiable
                      /\ Desk!AnsweredNotCounted /\ Desk!OutageNotIsolated
  /\ comp = "memory" => Memory!TypeOK /\ Memory!ResidentEarned /\ Memory!OomNotOvercounted /\ Memory!LimitLearned

(* No rename, migration, rollback or stop between two of their steps loses a key, nor   *)
(* the words of one that were not written down; the application removes the only copy   *)
(* of a phrase only after the words of that very phrase were typed back (keyring.py,    *)
(* align, migrate, keep_recovery_phrase; dendra_app.py, the recovery routes).           *)
NothingLost ==
  /\ comp = "identity" => Identity!TypeOK /\ Identity!KeysNeverLost /\ Identity!PhraseNeverReplaced
  /\ comp = "app" => Consent!TypeOK /\ Consent!RemovedWasWrittenDown

(* The owner decides: what a completed Stop left down stays down, an interrupted switch *)
(* leaves the miner serving what the .env says or says so, a printed code confirms the  *)
(* change it was printed for, once, and the programme records only an address the owner *)
(* confirmed (dendra_app.py, App.take_stop, _gpu_off, _gpu_on, the code and payout      *)
(* routes).                                                                             *)
OwnerDecides ==
  /\ comp = "kit" => Kit!TypeOK /\ Kit!StopLeavesDown /\ Kit!ServesWhatEnvSays
  /\ comp = "app" => Consent!CodeConfirmsItsTarget /\ Consent!FiledWasConfirmed

(* What no step of the machine does: send the same judge back twice, create another key *)
(* once one is staked, stake a key of its own against an owner's identity, start an     *)
(* action while a Stop waits, or file again over an address declared by hand (miner.py, *)
(* read_judge_limits, keys_addr, decide_owner; dendra_app.py, App.take_action;          *)
(* final_season_miner.py).                                                              *)
NeverTwiceNorOver ==
  [][ /\ comp = "seat" => Seat!SendsBackOnce
      /\ comp = "identity" => Identity!KeepsTheKey /\ Identity!KeepsTheOwner
      /\ comp = "kit" => Kit!StopGoesFirst
      /\ comp = "payout" => Payout!HandKept ]_vars

(* No interleaving of requests, failed save or restart reopens the gateway's free tier  *)
(* or the faucet's caps, but for what a request that crosses midnight takes from the    *)
(* new day's counters; an address is paid twice only when a transfer given up lands     *)
(* late; no captured report uses up its sender's own allowance, no machine is counted   *)
(* twice or hidden, no route of the capacity server singles one out, and no count comes *)
(* from a stale registry (gateway.py, quota_settle; faucet.py, _rate_ok, _load_state,   *)
(* _rate_refund; capacity_server.py, do_POST, miner_classes, _fresh_registry).          *)
AllowancesHold ==
  /\ comp = "gateway" => Gw!TypeOK /\ Gw!ServedAccounted
  /\ comp = "faucet" => Drip!TypeOK /\ Drip!CapsHold /\ Drip!DripOnce
  /\ comp = "capacity" => Cap!TypeOK /\ Cap!MachineCountedOnce
                          /\ Cap!NotStarved /\ Cap!NobodySingledOut /\ Cap!CountFromFreshRegistry

(* What is published is true whatever the chain did between two reads: no audit is said *)
(* to be hidden, a list of commits is complete and of this chain, blocks said to keep   *)
(* arriving are recent, failures are dated, and the points come from one listing, each  *)
(* party's within its cap of what the others had when it was applied (the_proof.py,     *)
(* points_indexer.py).                                                                  *)
FeedTruthful ==
  /\ comp = "partition" => Part!TypeOK /\ Part!NeverFalselyHidden
  /\ comp = "commits" => Commits!TypeOK /\ Commits!ListComplete /\ Commits!ForeignBounded
  /\ comp = "feed" => Feed!TypeOK /\ Feed!MovingIsRecent /\ Feed!NewestServed /\ Feed!FailureDated
  /\ comp = "points" => Board!TypeOK /\ Board!CapsBind /\ Board!EarnedOnly /\ Board!BoardIsAReading

(* No verdict cast once the outcome was public, or before the answer sealed to the      *)
(* juror arrived, is paid, and whatever happens on chain after the day is final, a      *)
(* recompute pays every verdict as published (final_season_calc.py, timely_verdicts,    *)
(* jury_verdicts, finality_blocks).                                                     *)
VerdictsPaidFairly ==
  comp = "jury" => Jury!TypeOK /\ Jury!NoPublicVotePaid /\ Jury!NoBlindVotePaid /\ Jury!VerdictPayRecomputes

(* No late, repeated, reordered or unsigned delivery replaces a live report by one      *)
(* signed earlier, or takes a signed report out of the store (capacity_server.py,       *)
(* older_than_stored, cap_declared).                                                    *)
ReportsKept == [][comp = "capacity" => Cap!NoRollback /\ Cap!SignedKept]_vars

(* Statements of the documents that the code does not keep: each is violated, by the    *)
(* behaviours of one component (ServicesStatements.cfg; the modules quote them).        *)
DepositedIsAnchored == comp = "serve" => Serve!DepositedIsAnchored
CountedUnanswered == comp = "desk" => Desk!CountedUnanswered
ServedOnCounters == comp = "gateway" => Gw!ServedOnCounters
RefundedUnpaid == comp = "faucet" => Drip!RefundedUnpaid
SignedNeverStarved == comp = "capacity" => Cap!SignedNeverStarved
UseShareBound == comp = "points" => Board!UseShareBound
DayRecomputes == comp = "jury" => Jury!DayRecomputes

Owed ==
  \/ comp = "serve" /\ Serve!Deposited("k1")
  \/ comp = "seat" /\ Seat!StillDeclared
  \/ comp = "desk" /\ Desk!Seated("a")
  \/ comp = "presence" /\ Present!AtRest
  \/ comp = "gateway" /\ Gw!Taken("r1")
  \/ comp = "kit" /\ Kit!Stopping("s1")
Met ==
  \/ comp = "serve" /\ Serve!AnchoredOrGone("k1")
  \/ comp = "seat" /\ Seat!Withdrawn
  \/ comp = "desk" /\ Desk!VerdictIn("a")
  \/ comp = "presence" /\ Present!CountedPresent
  \/ comp = "gateway" /\ Gw!Ended("r1")
  \/ comp = "kit" /\ ~ Kit!Stopping("s1")

(* What a component owes it does, whatever failed before: a deposited response is       *)
(* anchored, a draining judge withdrawn, a seated juror's audit answered, the miner     *)
(* recorded present, a request to the gateway and a Stop answered (miner.py,            *)
(* judge_worker.py, gateway.py, dendra_app.py).                                         *)
ObligationsMet == Owed ~> Met

(* Once the faults end, the payout setting is on file at the programme and the proof's  *)
(* payload is current, for good (final_season_miner.py, the daemon's tries;             *)
(* the_proof.py, the build loop).                                                       *)
Settles == <>[](/\ comp = "payout" => Payout!SettingFiled
                /\ comp = "feed" => Feed!Current)

Fit ==
  \/ comp = "memory" /\ Memory!Calm
  \/ comp = "capacity" /\ Cap!Registered
Served ==
  \/ comp = "memory" /\ Memory!Resident
  \/ comp = "capacity" /\ Cap!ReportLive

(* A machine with room whose judge has nothing to do keeps it resident, and an identity *)
(* that stays registered has a live report again and again (memwatch.py, observe;       *)
(* capacity_sender.py, run_forever).                                                    *)
KeepsUp == <>[]Fit => []<>Served
=============================================================================

------------------------------ MODULE MemWatch ------------------------------
(***************************************************************************)
(* The judge's memory: the daemon's thread (modea/memwatch.py, Watcher and *)
(* MemWatch) reads the machine every period, decides whether the judge     *)
(* model may stay loaded and publishes its decision in the heartbeat; the  *)
(* juror (judge_worker.py, JudgeMemoryGuard) reads that decision, when it  *)
(* is fresh, before it loads the model.                                    *)
(*                                                                         *)
(* Time is counted in periods and kept as ages and remaining times.        *)
(* Memory is counted in units: the machine has Total, the file cache keeps *)
(* Warm of them, the model takes Weight once loaded and is estimated at    *)
(* conf.est before it was ever measured.  A period is longer than one step *)
(* of the thread: time passes between two steps, not inside one.           *)
(***************************************************************************)
EXTENDS Integers, Sequences

CONSTANTS None,         \* not read, not set
          Total, Warm, Weight,
          Promote,      \* periods of clean readings before the resident mode
          Stale,        \* age at which the heartbeat's decision is ignored
          MaxPause,     \* cap of a pause
          MaxOom,       \* bound: loads that run out of memory
          MemProfiles   \* [conf, left] pairs the runs start from

VARIABLES conf,      \* [host, ceiling, limit, est, kv]: the settings of the kit
          taken,     \* memory other programs hold
          model,     \* the engine holds the judge model
          watch,     \* MemWatch, and the step its thread is in
          memDoc,    \* judge_memory of the heartbeat, and its age
          guard,     \* the juror's memory guard
          ledgerDoc, \* the counters the juror wrote on its state file
          due,       \* the period's step has not been taken yet
          mem,       \* what really happened: loads out of memory, time since a pause
          memLeft    \* faults still to come

memvars == <<conf, taken, model, watch, memDoc, guard, ledgerDoc, due, mem, memLeft>>

\* A load ran out of memory, under a limit the model exceeds or for want of room.
OutOfMemory == [mem EXCEPT !.oom = @ + 1,
                           !.lim = IF conf.limit = None THEN @ ELSE IF conf.limit < Weight THEN @ + 1 ELSE @]

Least(a, b) == IF a < b THEN a ELSE b
Available == Total - taken - (IF model THEN Weight ELSE 0)
DelayFault(n) == 2 ^ n
\* The default period is half the first pause.
Delay(n) == Least(MaxPause, 2 ^ n)
Lower == {"file", "limit-reached"}
Measured == {"engine-ps", "load-delta"}

-----------------------------------------------------------------------------
(* The decision                                                            *)

StartMode(c) == IF c.ceiling = "resident" /\ c.host = "server" THEN "resident" ELSE "on-demand"
NewWatch(c) ==
  [pc |-> "idle", r |-> None, mode |-> StartMode(c), ps |-> None, delta |-> None, file |-> None,
   kv |-> FALSE, floor |-> None, wref |-> None, prev |-> None, strikes |-> 0, pause |-> 0,
   clean |-> None, cleanUnloaded |-> FALSE, jurorLast |-> None, oomJuror |-> 0, unload |-> FALSE]

\* The footprint and where it comes from: measured, else estimated, unless a
\* load ran out of memory on the estimate.
Footprint(w) ==
  LET est == IF w.file = None THEN [mb |-> None, src |-> None]
             ELSE [mb |-> w.file, src |-> IF w.kv THEN "file+kv" ELSE "file"]
  IN IF w.ps # None THEN [mb |-> w.ps, src |-> "engine-ps"]
     ELSE IF w.delta # None THEN [mb |-> w.delta, src |-> "load-delta"]
     ELSE IF w.floor # None /\ (est.mb = None \/ (est.mb # None => est.mb < w.floor))
          THEN [mb |-> w.floor, src |-> "limit-reached"]
     ELSE est

\* The engine's list gives the file's size; its metadata, when there, the context cache.
Estimate == [mb |-> conf.est, src |-> IF conf.kv THEN "file+kv" ELSE "file"]

GateOpen(r, fp, wref, pause) ==
  /\ pause = 0
  /\ r.avail # None /\ wref # None /\ fp.mb # None
  /\ ~r.full
  /\ conf.limit # None => fp.mb <= conf.limit
  /\ r.avail - wref >= fp.mb
  /\ fp.src \notin Lower

\* What says the model must leave, on the readings of one period.
Shortage(r, swapped, wref, fp, loaded) ==
  LET known == r.avail # None /\ wref # None
      room == r.avail - wref
  IN \/ swapped /\ (IF known /\ loaded THEN room < 0
                    ELSE IF known /\ fp.mb # None THEN room < fp.mb
                    ELSE TRUE)
     \/ r.some
     \/ IF known THEN room < 0 ELSE FALSE

NoteJurorFault(w, d) ==
  LET seen == [w EXCEPT !.delta = IF d.delta # None THEN d.delta ELSE @, !.jurorLast = d.oom]
      new == IF w.jurorLast = None THEN 0 ELSE IF d.oom # w.jurorLast THEN d.oom ELSE 0
  IN [w |-> [seen EXCEPT !.oomJuror = @ + new], new |-> new]
NoteJuror(w, d) ==
  LET new == IF d.oom >= w.jurorLast THEN d.oom - w.jurorLast ELSE d.oom
      seen == [w EXCEPT !.delta = IF d.delta # None THEN d.delta ELSE @, !.jurorLast = d.oom]
  IN IF w.jurorLast = None
     THEN [w |-> [seen EXCEPT !.oomJuror = d.oom], new |-> 0]
     ELSE [w |-> [seen EXCEPT !.oomJuror = @ + new], new |-> new]

NoteOom(w) ==
  LET fp == Footprint(w)
      stopped == /\ conf.limit # None
                 /\ fp.src \notin Measured
                 /\ IF fp.mb = None THEN TRUE ELSE fp.mb <= conf.limit
  IN [w EXCEPT !.floor = IF stopped THEN conf.limit + 1 ELSE @,
               !.strikes = @ + 1, !.pause = Delay(w.strikes + 1),
               !.clean = None, !.cleanUnloaded = FALSE, !.mode = "on-demand"]

\* The readings of the period taken in: footprint, warm cache, previous period.
Absorb(w, r) ==
  [w EXCEPT !.file = IF r.size = None /\ r.loaded # None THEN conf.est ELSE @,
            !.kv = IF r.size = None /\ r.loaded # None THEN conf.kv ELSE @,
            !.ps = IF r.size # None THEN r.size ELSE @,
            !.wref = IF r.loaded = FALSE /\ r.avail # None THEN Warm ELSE @,
            !.prev = r.loaded]

Unloaded(w) == [w EXCEPT !.unload = TRUE, !.strikes = @ + 1,
                         !.pause = Delay(w.strikes + 1), !.mode = "on-demand"]

UncleanFault(w, r) ==
  LET fp == Footprint(w) IN
  \/ r.full
  \/ r.avail = None \/ w.wref = None \/ fp.mb = None \/ fp.src \in Lower
  \/ r.loaded = None
  \/ IF r.loaded = FALSE /\ r.avail # None /\ w.wref # None /\ fp.mb # None
     THEN r.avail - w.wref < fp.mb ELSE FALSE
\* A period that proves nothing toward the promotion.
Unclean(w, r) ==
  LET fp == Footprint(w) IN
  \/ Shortage(r, r.swap, w.wref, fp, r.loaded = TRUE)
  \/ r.full
  \/ r.avail = None \/ w.wref = None \/ fp.mb = None \/ fp.src \in Lower
  \/ w.pause > 0
  \/ r.loaded = None
  \/ IF r.loaded = FALSE /\ r.avail # None /\ w.wref # None /\ fp.mb # None
     THEN r.avail - w.wref < fp.mb ELSE FALSE

ProgressedFault(w, r) ==
  LET since == IF w.clean = None THEN 0 ELSE w.clean
      unl == w.cleanUnloaded \/ r.loaded = TRUE
      done == unl /\ since >= Promote
  IN IF Unclean(w, r) THEN [w EXCEPT !.clean = None, !.cleanUnloaded = FALSE]
     ELSE [w EXCEPT !.clean = since, !.cleanUnloaded = unl, !.strikes = IF done THEN 0 ELSE @,
                    !.mode = IF done /\ conf.ceiling = "resident" /\ conf.host # "wsl"
                             THEN "resident" ELSE @]
Progressed(w, r) ==
  LET since == IF w.clean = None THEN 0 ELSE w.clean
      unl == w.cleanUnloaded \/ r.loaded = FALSE
      done == unl /\ since >= Promote
  IN IF Unclean(w, r) THEN [w EXCEPT !.clean = None, !.cleanUnloaded = FALSE]
     ELSE [w EXCEPT !.clean = since, !.cleanUnloaded = unl,
                    !.strikes = IF done THEN 0 ELSE @,
                    !.mode = IF done /\ conf.ceiling = "resident" /\ conf.host # "wsl"
                             THEN "resident" ELSE @]
\* A swap-out unloads only over a period the model spent loaded from end to end.
Observe(w, r) ==
  LET a == Absorb(w, r)
      through == r.swap /\ r.loaded = TRUE /\ w.prev = TRUE
      b == IF r.loaded = TRUE /\ Shortage(r, through, a.wref, Footprint(a), TRUE)
           THEN Unloaded(a) ELSE a
  IN Progressed(b, r)

-----------------------------------------------------------------------------
(* The daemon's thread, and the daemon's own loads                         *)

\* One reading of the machine and of the engine; a reading may be missing.
Readings ==
  {[avail |-> IF "avail" \in bad THEN None ELSE Available,
    loaded |-> IF "ps" \in bad THEN None ELSE model,
    size |-> IF model /\ "ps" \notin bad /\ conf.sized THEN Weight ELSE None,
    full |-> "full" \in bad, some |-> "some" \in bad, swap |-> "swap" \in bad] :
   bad \in {{}} \cup (IF memLeft.noise = 0 THEN {}
                      ELSE {{"avail"}, {"ps"}, {"full"}, {"some"}, {"swap"}})}
Noisy(r) == r.avail = None \/ r.loaded = None \/ r.full \/ r.some \/ r.swap

WatchRead ==
  /\ due /\ watch.pc = "idle"
  /\ \E r \in Readings :
       /\ watch' = [watch EXCEPT !.pc = "decide", !.r = r]
       /\ memLeft' = [memLeft EXCEPT !.noise = IF Noisy(r) THEN @ - 1 ELSE @]
  /\ UNCHANGED <<conf, taken, model, memDoc, guard, ledgerDoc, due, mem>>

\* Under the lock: the juror's counters, then the period.
WatchDecide ==
  /\ watch.pc = "decide"
  /\ LET n == NoteJuror(watch, ledgerDoc)
         o == IF n.new > 0 THEN NoteOom(n.w) ELSE n.w
     IN watch' = [Observe(o, watch.r) EXCEPT !.pc = "act"]
  /\ UNCHANGED <<conf, taken, model, memDoc, guard, ledgerDoc, due, mem, memLeft>>

DocOf(w) == [age |-> 0, mode |-> w.mode, fp |-> Footprint(w), pause |-> w.pause]

\* What the decision asks for, then the heartbeat.  The engine drops the model
\* once the call in progress is over; an unload it refused leaves the model.
WatchAct ==
  /\ watch.pc = "act"
  /\ \E ok \in IF watch.unload /\ memLeft.engine > 0 THEN BOOLEAN ELSE {TRUE} :
       /\ model' = (model /\ ~(watch.unload /\ ok))
       /\ memLeft' = [memLeft EXCEPT !.engine = IF ok THEN @ ELSE @ - 1]
  /\ watch' = [watch EXCEPT !.pc = "idle", !.r = None, !.unload = FALSE]
  /\ memDoc' = DocOf(watch)
  /\ due' = FALSE
  /\ UNCHANGED <<conf, taken, guard, ledgerDoc, mem>>

\* A load the daemon's own call makes (a served request, a presence probe):
\* fresh readings, the gate, the call.
DaemonLoad ==
  /\ conf.serves /\ watch.pc = "idle" /\ ~model /\ mem.oom < MaxOom
  /\ LET r == [avail |-> Available, loaded |-> FALSE, size |-> None,
               full |-> FALSE, some |-> FALSE, swap |-> FALSE]
         w == [watch EXCEPT !.wref = Warm,
                            !.file = IF Footprint(watch).src \in Measured \cup {"file+kv"} THEN @ ELSE conf.est,
                            !.kv = IF Footprint(watch).src \in Measured \cup {"file+kv"} THEN @ ELSE conf.kv]
         fits == Weight <= Available /\ (conf.limit # None => Weight <= conf.limit)
         lost == NoteOom(w)
     IN IF ~GateOpen(r, Footprint(w), w.wref, w.pause)
        THEN watch' = w /\ UNCHANGED <<model, mem, memDoc>>
        ELSE IF fits THEN watch' = w /\ model' = TRUE /\ UNCHANGED <<mem, memDoc>>
        ELSE /\ watch' = lost
             /\ memDoc' = [DocOf(lost) EXCEPT !.age = IF memDoc = None THEN 0 ELSE memDoc.age]
             /\ mem' = OutOfMemory
             /\ UNCHANGED model
  /\ UNCHANGED <<conf, taken, guard, ledgerDoc, due, memLeft>>

DaemonRestart ==
  /\ memLeft.daemon > 0
  /\ memLeft' = [memLeft EXCEPT !.daemon = @ - 1]
  /\ watch' = NewWatch(conf)
  /\ mem' = [mem EXCEPT !.calm = Promote, !.excuse = @ + 1]
  /\ UNCHANGED <<conf, taken, model, memDoc, guard, ledgerDoc, due>>

-----------------------------------------------------------------------------
(* The juror                                                               *)

NewGuard == [pc |-> "idle", pause |-> 0, strikes |-> 0, oom |-> 0, delta |-> None,
             used |-> FALSE, before |-> 0]

Fresh == memDoc # None /\ (memDoc # None => memDoc.age <= Stale)

JurorFigureFault ==
  LET d == IF Fresh THEN memDoc.fp ELSE [mb |-> None, src |-> None]
      own == \/ d.mb = None
             \/ d.mb # None /\ d.src \in Lower /\ Estimate.src \notin Lower
  IN IF own THEN Estimate ELSE d
\* The daemon's figure when it is fresh and measured or estimated whole, else
\* this process's own estimate, unless the daemon knows that one to be too low.
JurorFigure ==
  LET d == IF Fresh THEN memDoc.fp ELSE [mb |-> None, src |-> None]
      own == \/ d.mb = None
             \/ d.mb # None /\ d.src \in Lower /\ Estimate.src \notin Lower /\ Estimate.mb >= d.mb
  IN IF own THEN Estimate ELSE d

\* before_audit up to the load: the model is there, or there is room for it.
BeforeAudit ==
  /\ guard.pc = "idle"
  /\ IF model THEN guard' = [guard EXCEPT !.pc = "audit", !.used = TRUE]
     ELSE LET fp == JurorFigure
              pause == IF Fresh /\ memDoc.pause > guard.pause THEN memDoc.pause ELSE guard.pause
              r == [avail |-> Available, full |-> FALSE]
          IN /\ GateOpen(r, fp, Warm, pause)
             /\ guard' = [guard EXCEPT !.pc = "load", !.before = Available]
  /\ UNCHANGED <<conf, taken, model, watch, memDoc, ledgerDoc, due, mem, memLeft>>

\* The engine answers: loaded, out of memory, or another error.  A load that
\* succeeds is measured by what it took from the available memory.
LoadModel ==
  /\ guard.pc = "load" /\ mem.oom < MaxOom
  /\ LET fits == model \/ (Weight <= Available /\ (conf.limit # None => Weight <= conf.limit))
         after == IF model THEN Available ELSE Available - Weight
         g == [guard EXCEPT !.pc = "idle", !.before = 0]
     IN IF fits
        THEN /\ model' = TRUE
             /\ guard' = [g EXCEPT !.pc = "audit", !.strikes = 0, !.used = TRUE,
                                   !.delta = IF guard.before > after THEN guard.before - after ELSE @]
             /\ UNCHANGED mem
        ELSE /\ guard' = [g EXCEPT !.oom = @ + 1, !.strikes = @ + 1, !.pause = Delay(guard.strikes + 1)]
             /\ mem' = OutOfMemory
             /\ UNCHANGED model
  /\ UNCHANGED <<conf, taken, watch, memDoc, ledgerDoc, due, memLeft>>

\* The end of a pass: on demand, an engine that serves nothing else drops the
\* model; the counters that changed are written on the judge state.
AfterPass ==
  /\ guard.pc \in {"idle", "audit"}
  /\ LET mode == IF Fresh THEN memDoc.mode ELSE "on-demand"
         drop == guard.used /\ ~conf.serves /\ mode = "on-demand"
     IN model' = (model /\ ~drop)
  /\ guard' = [guard EXCEPT !.pc = "idle", !.used = FALSE]
  /\ ledgerDoc' = [oom |-> guard.oom, delta |-> guard.delta]
  /\ <<guard', ledgerDoc', model'>> # <<guard, ledgerDoc, model>>
  /\ UNCHANGED <<conf, taken, watch, memDoc, due, mem, memLeft>>

JurorRestart ==
  /\ memLeft.juror > 0
  /\ memLeft' = [memLeft EXCEPT !.juror = @ - 1]
  /\ guard' = NewGuard
  /\ mem' = [mem EXCEPT !.excuse = @ + 1]
  /\ UNCHANGED <<conf, taken, model, watch, memDoc, ledgerDoc, due>>

-----------------------------------------------------------------------------
(* The machine                                                             *)

\* Another program takes or gives back memory.
Squeeze ==
  /\ memLeft.squeeze > 0
  /\ \E n \in 0 .. Total - Weight :
       /\ n # taken
       /\ taken' = n
  /\ memLeft' = [memLeft EXCEPT !.squeeze = @ - 1]
  /\ UNCHANGED <<conf, model, watch, memDoc, guard, ledgerDoc, due, mem>>

\* The engine lets the model go at its keep_alive, between two audits.
KeepAliveOver ==
  /\ model /\ guard.pc = "idle" /\ watch.mode = "on-demand"
  /\ model' = FALSE
  /\ UNCHANGED <<conf, taken, watch, memDoc, guard, ledgerDoc, due, mem, memLeft>>

Down(n) == IF n > 0 THEN n - 1 ELSE 0
\* A period passes; a hung thread may miss it.  An audit whose model did not load
\* ends at once, so the pass wrote its counters before.
MemTick ==
  /\ watch.pc = "idle" /\ ledgerDoc.oom = guard.oom
  /\ due => memLeft.hang > 0
  /\ memLeft' = [memLeft EXCEPT !.hang = IF due THEN @ - 1 ELSE @]
  /\ due' = TRUE
  /\ watch' = [watch EXCEPT !.pause = Down(@), !.clean = IF @ = None THEN None ELSE Least(@ + 1, Promote)]
  /\ guard' = [guard EXCEPT !.pause = Down(@)]
  /\ memDoc' = IF memDoc = None THEN None
               ELSE [memDoc EXCEPT !.age = Least(@ + 1, Stale + 1), !.pause = Down(@)]
  /\ mem' = [mem EXCEPT !.calm = IF watch.pause > 0 THEN 0 ELSE Least(@ + 1, Promote),
                        !.excuse = IF due THEN @ + 1 ELSE @]
  /\ UNCHANGED <<conf, taken, model, ledgerDoc>>

-----------------------------------------------------------------------------
Init ==
  /\ \E q \in MemProfiles : conf = q.conf /\ memLeft = q.left
  /\ taken = 0 /\ model = FALSE
  /\ watch = [NewWatch(conf) EXCEPT !.jurorLast = 0]
  /\ memDoc = None /\ guard = NewGuard
  /\ ledgerDoc = [oom |-> 0, delta |-> None]
  /\ due = TRUE
  /\ mem = [oom |-> 0, lim |-> 0, calm |-> Promote, excuse |-> 0]

Next == \/ WatchRead \/ WatchDecide \/ WatchAct \/ DaemonLoad \/ DaemonRestart
        \/ BeforeAudit \/ LoadModel \/ AfterPass \/ JurorRestart
        \/ Squeeze \/ KeepAliveOver \/ MemTick

\* The thread wakes up every period, and a pass of the juror ends.
Fair == /\ WF_memvars(WatchRead) /\ WF_memvars(WatchDecide) /\ WF_memvars(WatchAct)
        /\ WF_memvars(AfterPass) /\ WF_memvars(LoadModel) /\ WF_memvars(MemTick)
Spec == Init /\ [][Next]_memvars
FairSpec == Spec /\ Fair

-----------------------------------------------------------------------------
\* The shape of the state.
TypeOK ==
  /\ conf.host \in {"server", "desktop", "wsl"} /\ conf.ceiling \in {"resident", "on-demand"}
  /\ taken \in 0 .. Total /\ model \in BOOLEAN /\ due \in BOOLEAN
  /\ watch.mode \in {"resident", "on-demand"} /\ watch.pause \in 0 .. MaxPause
  /\ guard.pc \in {"idle", "load", "audit"} /\ guard.pause \in 0 .. MaxPause
  /\ mem.oom \in 0 .. MaxOom /\ Available >= 0

\* The judge stays loaded only on a machine that earned it: never under WSL,
\* and not before Promote periods of clean readings after the end of the last
\* pause a shortage or a failed load opened (MemWatch.observe).
ResidentEarned ==
  watch.mode = "resident" => /\ conf.host # "wsl" /\ conf.ceiling = "resident"
                             /\ watch.pause = 0
                             /\ mem.calm = Promote

\* The daemon never counts a load twice across the restarts of the juror, whose
\* counter starts from zero again, or its own (MemWatch.note_juror).
OomNotOvercounted == watch.oomJuror <= mem.oom

\* A model above the container's limit is tried at most once by each of the two
\* loaders, and again after each restart or missed period: the figure that
\* let a load through does not open the gate again (MemWatch.note_oom).
LimitLearned == mem.lim <= 2 * (1 + mem.excuse)

Calm ==
  /\ conf.ceiling = "resident" /\ conf.host # "wsl" /\ conf.limit = None /\ conf.kv
  /\ taken = 0 /\ ~model
  /\ Footprint(watch).mb # None => Footprint(watch).mb <= Total - Warm
Resident == watch.mode = "resident"

\* A machine with room for the footprint it knows of, whose judge has nothing to
\* do, ends up with a resident judge where the survey allows one
\* (MemWatch.observe).
PromotedWhenCalm == <>[]Calm => <>Resident
=============================================================================

----------------------------- MODULE KitActions -----------------------------
(***************************************************************************)
(* The actions of the miner application (deploy/app/dendra_app.py) on one  *)
(* kit.  Several copies of it may run; an action takes its process's lock  *)
(* and the kit's file lock, Stop interrupts the action that runs, here or  *)
(* in another copy, and the judge and GPU switches edit the kit's .env     *)
(* with a way back.                                                        *)
(*                                                                         *)
(* A thread belongs to a copy and either runs actions or Stops.  The time  *)
(* of a stop request is kept as the set of threads that read their own     *)
(* start after it was written.                                             *)
(***************************************************************************)
EXTENDS Integers, FiniteSets, TLC

CONSTANTS None, Copies, Doers, Stoppers, CopyOf, KitProfiles

VARIABLES app,      \* by copy: [lock, pending, asked, running, thread]
          kitLock,  \* the file lock: [holder, doc]
          request,  \* the stop request on disk: None or [pid, before]
          th,       \* threads
          up,       \* by identity, whether its miner container runs
          mode,     \* what slot 0's miner serves with: "gpu" or "cpu"
          env,      \* the kit's .env: [serve, judge]
          told,     \* a switch answered that the miner could not be put back
          downBy,   \* identities a completed Stop left down
          beside,   \* a Stop ran beside an action it could not end
          kitLeft

kitvars == <<app, kitLock, request, th, up, mode, env, told, downBy, beside, kitLeft>>

Slots == {0, 1}
Threads == Doers \cup Stoppers
Paths == {"start", "gpu-off", "gpu-on", "judge"}
IdleT == [pc |-> "idle", path |-> None, slots |-> {}, todo |-> {}, step |-> None, before |-> None,
          local |-> FALSE, held |-> FALSE, cut |-> FALSE, doc |-> None, others |-> {}]
First(S) == CHOOSE k \in S : TRUE
Rest(S) == IF S = {} THEN {} ELSE S \ {First(S)}
NotRunning == [path |-> None, slots |-> {}]
HasK(f) == kitLeft[f] > 0
TakeK(f) == kitLeft' = [kitLeft EXCEPT ![f] = @ - 1]
Ap(t) == app[CopyOf[t]]
Put(t, r) == th' = [th EXCEPT ![t] = r]
Goto(t, pc) == Put(t, [th[t] EXCEPT !.pc = pc])
world == <<up, mode, env, told>>

-----------------------------------------------------------------------------
(* The locks                                                               *)

\* A stop request that names this copy after the action of thread t started.
StopAskedOfMe(t) == request # None /\ (request # None => request.pid = CopyOf[t] /\ t \notin request.before)
StopRequested(t) == Ap(t).asked \/ StopAskedOfMe(t)
RunsActionHere(t) == Ap(t).thread = t
Interrupted(t) == RunsActionHere(t) /\ StopRequested(t)

\* The instant a thread takes as its action's start.
SinceRead(t) == request' = IF request = None THEN None ELSE [request EXCEPT !.before = @ \cup {t}]

\* The action a copy says it runs, its Stop flag cleared.
StartAction(t, path, slots) ==
  [Ap(t) EXCEPT !.lock = t, !.running = [path |-> path, slots |-> slots], !.thread = t, !.asked = FALSE]
Freed(a) == [a EXCEPT !.lock = None, !.running = NotRunning, !.thread = None]
NoKitLock == [holder |-> None, doc |-> NotRunning]

\* The person asks for an action of a copy.
Ask(t) ==
  /\ th[t].pc = "idle" /\ HasK("ask")
  /\ TakeK("ask")
  /\ \E p \in kitLeft.paths, ks \in {{0}, {1}} :
       /\ p = "start" \/ ks = {0}
       /\ Ap(t).pending = 0
       /\ Put(t, [IdleT EXCEPT !.pc = "local", !.path = p, !.slots = ks])
  /\ UNCHANGED <<app, kitLock, request, world, downBy, beside>>

\* One action at a time in this process; its start is read before the kit's lock is taken.
TakeLocal(t) ==
  /\ th[t].pc = "local"
  /\ IF Ap(t).lock # None THEN Put(t, IdleT) /\ UNCHANGED <<app, request>>
     ELSE /\ app' = [app EXCEPT ![CopyOf[t]].lock = t]
          /\ SinceRead(t)
          /\ Goto(t, "kit")
  /\ UNCHANGED <<kitLock, world, downBy, beside, kitLeft>>

\* One action at a time on this kit.  A lock that cannot be opened refuses it.
TakeKit(t) ==
  /\ th[t].pc = "kit"
  /\ \E how \in {"ok"} \cup (IF HasK("nolock") THEN {"error"} ELSE {}) :
       /\ IF how = "ok" THEN UNCHANGED kitLeft ELSE TakeK("nolock")
       /\ IF how # "ok" \/ kitLock.holder # None
          THEN /\ app' = [app EXCEPT ![CopyOf[t]].lock = None]
               /\ Put(t, IdleT) /\ UNCHANGED kitLock
          ELSE /\ kitLock' = [holder |-> t, doc |-> NotRunning]
               /\ Goto(t, "begin") /\ UNCHANGED app
  /\ UNCHANGED <<request, world, downBy, beside>>

\* A switch already in the position asked for, or one that cannot be pressed now, is refused.
SwitchPreflight(p) == CASE p = "start" -> TRUE
                        [] p = "gpu-off" -> env.serve = "gpu"
                        [] p = "gpu-on" -> env.serve = "cpu"
                        [] p = "judge" -> env.judge => env.serve = "gpu"
FirstStep(p) == IF ~SwitchPreflight(p) THEN "end"
                ELSE CASE p = "start" -> "up" [] p = "gpu-on" -> "edit" [] OTHER -> "judge"
BeginFault(t) ==
  /\ th[t].pc = "begin"
  /\ app' = [app EXCEPT ![CopyOf[t]] = StartAction(t, th[t].path, th[t].slots)]
  /\ kitLock' = [kitLock EXCEPT !.doc = [path |-> th[t].path, slots |-> th[t].slots]]
  /\ Put(t, [th[t] EXCEPT !.pc = "step", !.step = FirstStep(th[t].path), !.todo = th[t].slots])
  /\ downBy' = downBy \ th[t].slots
  /\ UNCHANGED <<request, world, beside, kitLeft>>
\* The kit's lock says what runs; a Stop that arrived meanwhile goes first.
Begin(t) ==
  /\ th[t].pc = "begin"
  /\ IF Ap(t).pending > 0
     THEN /\ app' = [app EXCEPT ![CopyOf[t]].lock = None]
          /\ kitLock' = NoKitLock
          /\ Put(t, IdleT) /\ UNCHANGED downBy
     ELSE /\ app' = [app EXCEPT ![CopyOf[t]] = StartAction(t, th[t].path, th[t].slots)]
          /\ kitLock' = [kitLock EXCEPT !.doc = [path |-> th[t].path, slots |-> th[t].slots]]
          /\ Put(t, [th[t] EXCEPT !.pc = "step", !.step = FirstStep(th[t].path), !.todo = th[t].slots])
          /\ downBy' = downBy \ th[t].slots
  /\ UNCHANGED <<request, world, beside, kitLeft>>

ReleaseActionFault(t) ==
  /\ th[t].pc = "step" /\ th[t].step = "end"
  /\ app' = [app EXCEPT ![CopyOf[t]] = Freed(@)]
  /\ Put(t, IdleT)
  /\ UNCHANGED <<kitLock, request, world, downBy, beside, kitLeft>>
ReleaseAction(t) ==
  /\ th[t].pc = "step" /\ th[t].step = "end"
  /\ app' = [app EXCEPT ![CopyOf[t]] = Freed(@)]
  /\ kitLock' = NoKitLock
  /\ Put(t, IdleT)
  /\ UNCHANGED <<request, world, downBy, beside, kitLeft>>

-----------------------------------------------------------------------------
(* The steps of an action                                                  *)

\* What follows a step that ended well, or that did not.
AfterStep(x, ok) ==
  CASE x.step = "up"       -> IF Rest(x.todo) = {} THEN "end" ELSE "up"
    [] x.step = "judge"    -> IF ~ok \/ x.path = "judge" THEN "end" ELSE "engine"
    [] x.step = "engine"   -> IF ok /\ x.path = "gpu-off" THEN "edit"
                              ELSE IF ok THEN "recreate" ELSE IF x.path = "gpu-off" THEN "end" ELSE "restore"
    [] x.step = "recreate" -> IF ~ok THEN "restore" ELSE IF x.path = "gpu-off" THEN "free" ELSE "end"
    [] x.step = "again"    -> "end"
    [] x.step = "free"     -> "end"

\* What a child of `docker compose` or judge.sh does when it gets that far.
Effect(x) ==
  /\ up' = IF x.step = "up" THEN [up EXCEPT ![First(x.todo)] = TRUE]
           ELSE IF x.step \in {"recreate", "again"} THEN [up EXCEPT ![0] = TRUE] ELSE up
  /\ mode' = IF x.step \in {"recreate", "again"} \/ (x.step = "up" /\ First(x.todo) = 0) THEN env.serve ELSE mode
  /\ env' = IF x.step = "judge" THEN [env EXCEPT !.judge = x.path # "judge" \/ ~env.judge] ELSE env

\* A child starts, checked and registered under the lock Stop takes; Stop keeps it from starting.
\* Turning the card off seats the judge first, when it is not seated.
RunChild(t) ==
  /\ th[t].pc = "step" /\ th[t].step \in {"up", "judge", "engine", "recreate", "again", "free"}
  /\ IF th[t].step = "judge" /\ th[t].path = "gpu-off" /\ env.judge
     THEN Put(t, [th[t] EXCEPT !.step = "engine"]) /\ UNCHANGED told
     ELSE IF Interrupted(t)
     THEN /\ Put(t, [th[t] EXCEPT !.step = AfterStep(th[t], FALSE),
                                  !.todo = Rest(@)])
          /\ told' = (told \/ th[t].step = "again")
     ELSE Goto(t, "child") /\ UNCHANGED told
  /\ UNCHANGED <<app, kitLock, request, up, mode, env, downBy, beside, kitLeft>>

\* The child ends: by itself, failing, or ended by Stop, its work done or not.
ChildEnds(t) ==
  /\ th[t].pc = "child"
  /\ \E how \in (IF Interrupted(t) THEN {"cut", "late"} ELSE {"ok"})
               \cup (IF HasK("fail") THEN {"failed"} ELSE {}) :
       /\ IF how = "failed" THEN TakeK("fail") ELSE UNCHANGED kitLeft
       /\ IF how \in {"ok", "late"} THEN Effect(th[t]) ELSE UNCHANGED <<up, mode, env>>
       /\ told' = (told \/ (th[t].step = "again" /\ how # "ok"))
       /\ Put(t, [th[t] EXCEPT !.pc = "step", !.step = AfterStep(th[t], how = "ok"),
                               !.todo = Rest(@)])
  /\ UNCHANGED <<app, kitLock, request, downBy, beside>>

\* The serving lines of the .env: written or removed, what they were kept for the way back.
EnvEdit(t) ==
  /\ th[t].pc = "step" /\ th[t].step = "edit"
  /\ env' = [env EXCEPT !.serve = IF th[t].path = "gpu-off" THEN "cpu" ELSE "gpu"]
  /\ Put(t, [th[t] EXCEPT !.before = env.serve, !.step = IF th[t].path = "gpu-off" THEN "recreate" ELSE "engine"])
  /\ UNCHANGED <<app, kitLock, request, up, mode, told, downBy, beside, kitLeft>>

EnvRestoreFault(t) ==
  /\ th[t].pc = "step" /\ th[t].step = "restore"
  /\ Put(t, [th[t] EXCEPT !.step = "end"])
  /\ UNCHANGED <<app, kitLock, request, up, mode, env, told, downBy, beside, kitLeft>>
\* The miner did not start: the .env is put back, then the miner is recreated from it.
EnvRestore(t) ==
  /\ th[t].pc = "step" /\ th[t].step = "restore"
  /\ env' = [env EXCEPT !.serve = th[t].before]
  /\ Put(t, [th[t] EXCEPT !.step = "again"])
  /\ UNCHANGED <<app, kitLock, request, up, mode, told, downBy, beside, kitLeft>>

-----------------------------------------------------------------------------
(* Stop                                                                    *)

\* Stop is asked for the identities ks: from now on no other action starts here.
AskStop(t) ==
  /\ th[t].pc = "idle" /\ HasK("stop")
  /\ TakeK("stop")
  /\ app' = [app EXCEPT ![CopyOf[t]].pending = @ + 1]
  /\ \E ks \in {{0}, {1}} : Put(t, [IdleT EXCEPT !.pc = "s-local", !.slots = ks])
  /\ UNCHANGED <<kitLock, request, world, downBy, beside>>

\* This process's lock at once, or the action that runs is asked to end and its identities
\* are stopped too.
StopLocal(t) ==
  /\ th[t].pc = "s-local"
  /\ IF Ap(t).lock = None
     THEN /\ app' = [app EXCEPT ![CopyOf[t]] = StartAction(t, "stop", {})]
          /\ SinceRead(t)
          /\ Put(t, [th[t] EXCEPT !.pc = "s-kit", !.local = TRUE])
     ELSE LET run == Ap(t).running
          IN /\ app' = IF run.path = "stop" THEN app ELSE [app EXCEPT ![CopyOf[t]].asked = TRUE]
             /\ Put(t, [th[t] EXCEPT !.pc = "s-wait", !.others = IF run.path = "stop" THEN {} ELSE run.slots])
             /\ UNCHANGED request
  /\ UNCHANGED <<kitLock, world, downBy, beside, kitLeft>>

\* The lock comes, or the wait ends and the miner is stopped beside what still runs.
StopWait(t) ==
  /\ th[t].pc = "s-wait"
  /\ \/ /\ Ap(t).lock = None
        /\ app' = [app EXCEPT ![CopyOf[t]] = StartAction(t, "stop", {})]
        /\ SinceRead(t)
        /\ Put(t, [th[t] EXCEPT !.pc = "s-kit", !.local = TRUE])
        /\ UNCHANGED <<beside, kitLeft>>
     \/ /\ Ap(t).lock # None /\ HasK("slow")
        /\ TakeK("slow")
        /\ beside' = TRUE
        /\ Put(t, [th[t] EXCEPT !.pc = "s-run", !.todo = th[t].slots \cup th[t].others])
        /\ UNCHANGED <<app, request>>
  /\ UNCHANGED <<kitLock, world, downBy>>

StopKitFault(t) ==
  /\ th[t].pc = "s-kit"
  /\ \E how \in {"ok"} \cup (IF HasK("nolock") THEN {"error"} ELSE {}) :
       /\ IF how = "ok" THEN UNCHANGED <<beside, kitLeft>> ELSE TakeK("nolock") /\ beside' = TRUE
       /\ IF how = "ok" /\ kitLock.holder # None
          THEN /\ Put(t, [th[t] EXCEPT !.pc = "s-ask", !.doc = [pid |-> CopyOf[kitLock.holder]] @@ kitLock.doc])
               /\ UNCHANGED <<kitLock, request>>
          ELSE /\ Put(t, [th[t] EXCEPT !.pc = "s-run", !.held = how = "ok", !.todo = th[t].slots])
               /\ kitLock' = IF how = "ok" THEN [holder |-> t, doc |-> [path |-> "stop", slots |-> {}]] ELSE kitLock
               /\ request' = IF how = "ok" THEN None ELSE request
  /\ UNCHANGED <<app, world, downBy>>
\* The kit's lock, or a look at what its holder wrote; a lock that cannot be opened does
\* not keep the miner from being stopped.
StopKit(t) ==
  /\ th[t].pc = "s-kit"
  /\ \E how \in {"ok"} \cup (IF HasK("nolock") THEN {"error"} ELSE {}) :
       /\ IF how = "ok" THEN UNCHANGED <<beside, kitLeft>> ELSE TakeK("nolock") /\ beside' = TRUE
       /\ IF how = "ok" /\ kitLock.holder # None
          THEN /\ Put(t, [th[t] EXCEPT !.pc = "s-ask", !.doc = [pid |-> CopyOf[kitLock.holder]] @@ kitLock.doc])
               /\ UNCHANGED <<kitLock, request>>
          ELSE /\ Put(t, [th[t] EXCEPT !.pc = "s-run", !.held = how = "ok", !.todo = th[t].slots \cup th[t].others])
               /\ kitLock' = IF how = "ok" THEN [holder |-> t, doc |-> [path |-> "stop", slots |-> {}]] ELSE kitLock
               /\ request' = IF how = "ok" THEN None ELSE request
  /\ UNCHANGED <<app, world, downBy>>

\* The request names a process; it dates from now.
AskOtherCopyToStop(pid) == [pid |-> pid, before |-> {}]

\* The holder is asked to end, by the process id read a moment before, and its identities
\* are stopped too; past the deadline the miner is stopped beside it.
StopAskOther(t) ==
  /\ th[t].pc = "s-ask"
  /\ LET d == th[t].doc
         x == [th[t] EXCEPT !.others = @ \cup (IF d.path = "stop" THEN {} ELSE d.slots), !.doc = None]
     IN /\ request' = IF d.path \in {None, "stop"} THEN request ELSE AskOtherCopyToStop(d.pid)
        /\ \/ Put(t, [x EXCEPT !.pc = "s-kit"]) /\ UNCHANGED <<beside, kitLeft>>
           \/ /\ HasK("slow") /\ TakeK("slow") /\ beside' = TRUE
              /\ Put(t, [x EXCEPT !.pc = "s-run", !.todo = x.slots \cup x.others])
  /\ UNCHANGED <<app, kitLock, world, downBy>>

\* The miner of each identity is stopped; slot 0's engine and a judge pull with it.
StopRun(t) ==
  /\ th[t].pc = "s-run" /\ th[t].todo # {}
  /\ LET k == First(th[t].todo)
     IN /\ up' = IF Interrupted(t) THEN up ELSE [up EXCEPT ![k] = FALSE]
        /\ Put(t, [th[t] EXCEPT !.todo = @ \ {k}, !.cut = @ \/ Interrupted(t)])
  /\ UNCHANGED <<app, kitLock, request, mode, env, told, downBy, beside, kitLeft>>

ReleaseStopFault(t) ==
  /\ th[t].pc = "s-run" /\ th[t].todo = {}
  /\ app' = [app EXCEPT ![CopyOf[t]] = [(IF th[t].local THEN Freed(@) ELSE @) EXCEPT
               !.pending = IF th[t].held THEN @ - 1 ELSE @]]
  /\ kitLock' = IF th[t].held THEN NoKitLock ELSE kitLock
  /\ downBy' = IF th[t].held /\ ~th[t].cut THEN downBy \cup th[t].slots \cup th[t].others ELSE downBy
  /\ Put(t, IdleT)
  /\ UNCHANGED <<request, world, beside, kitLeft>>
ReleaseStop(t) ==
  /\ th[t].pc = "s-run" /\ th[t].todo = {}
  /\ app' = [app EXCEPT ![CopyOf[t]] = [(IF th[t].local THEN Freed(@) ELSE @) EXCEPT !.pending = @ - 1]]
  /\ kitLock' = IF th[t].held THEN NoKitLock ELSE kitLock
  /\ downBy' = IF th[t].held /\ ~th[t].cut THEN downBy \cup th[t].slots \cup th[t].others ELSE downBy
  /\ Put(t, IdleT)
  /\ UNCHANGED <<request, world, beside, kitLeft>>

-----------------------------------------------------------------------------

Init ==
  \E prof \in KitProfiles :
    /\ kitLeft = prof
    /\ app = [c \in Copies |-> [lock |-> None, pending |-> 0, asked |-> FALSE, running |-> NotRunning, thread |-> None]]
    /\ kitLock = NoKitLock /\ request = None
    /\ th = [t \in Threads |-> IdleT]
    /\ env \in [serve : {"gpu"}, judge : BOOLEAN] \cup [serve : {"cpu"}, judge : {TRUE}]
    /\ up = [k \in Slots |-> TRUE] /\ mode = env.serve
    /\ told = FALSE /\ downBy = {} /\ beside = FALSE

DoerSteps(t) == \/ TakeLocal(t) \/ TakeKit(t) \/ Begin(t) \/ ReleaseAction(t)
                \/ RunChild(t) \/ ChildEnds(t) \/ EnvEdit(t) \/ EnvRestore(t)
StopSteps(t) == StopLocal(t) \/ StopWait(t) \/ StopKit(t) \/ StopAskOther(t) \/ StopRun(t) \/ ReleaseStop(t)
Next == \/ \E t \in Doers : Ask(t) \/ DoerSteps(t)
        \/ \E t \in Stoppers : AskStop(t) \/ StopSteps(t)

Spec == Init /\ [][Next]_kitvars

\* Every thread runs, every child ends, and a Stop that looks at the kit's lock again and
\* again finds it free some time (or its wait ends).
FindsKitFree(t) == StopKit(t) /\ kitLock.holder = None
Fair == /\ \A t \in Doers : WF_kitvars(DoerSteps(t))
        /\ \A t \in Stoppers : /\ WF_kitvars(StopSteps(t))
                               /\ SF_kitvars(FindsKitFree(t))
FairSpec == Spec /\ Fair

-----------------------------------------------------------------------------
(* Properties                                                              *)

\* The locks name threads that hold them, and a Stop that waits is counted
\* (dendra_app.py::App.take_action, take_stop, release_stop).
TypeOK ==
  /\ \A c \in Copies : /\ app[c].lock \in Threads \cup {None} /\ app[c].running.path \in Paths \cup {None, "stop"}
                       /\ app[c].pending = Cardinality({t \in Stoppers : CopyOf[t] = c /\ th[t].pc # "idle"})
                       /\ app[c].thread # None => app[c].thread = app[c].lock
  /\ kitLock.holder \in Threads \cup {None}
  /\ \A t \in Threads : th[t].slots \subseteq Slots /\ (th[t].held => kitLock.holder = t)
  /\ up \in [Slots -> BOOLEAN] /\ mode \in {"gpu", "cpu"} /\ env \in [serve : {"gpu", "cpu"}, judge : BOOLEAN]

\* Once a Stop took both locks and answered, the identities it names and those of the action
\* it interrupted, here or in another copy, stay down until a later action is started on
\* them (dendra_app.py::App.take_stop, Handler._stop).
StopLeavesDown == \A k \in downBy : beside \/ ~up[k]

\* No action of a process starts while one of its Stops waits, although the action was
\* asked for first (dendra_app.py::App.take_action, the second look at stop_pending).
StopGoesFirst ==
  \A c \in Copies : app[c].pending > 0 /\ app[c].running.path # app'[c].running.path =>
     app'[c].running.path \in {None, "stop"}

\* StopGoesFirst, of every step.
NoActionOvertakesStop == [][StopGoesFirst]_kitvars

\* A switch that failed or was interrupted leaves the miner serving what the .env says, or
\* its container down, unless its answer says that it could not be put back
\* (dendra_app.py::_gpu_off, _gpu_on).
ServesWhatEnvSays ==
  (\A t \in Threads : th[t].pc = "idle") /\ up[0] /\ ~told => mode = env.serve

Stopping(t) == th[t].pc # "idle"

\* Every Stop ends, whatever action it found running (dendra_app.py::App.take_stop).
StopAnswered == \A t \in Stoppers : Stopping(t) ~> ~ Stopping(t)
=============================================================================

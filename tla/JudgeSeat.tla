------------------------------- MODULE JudgeSeat -------------------------------
(* The judge declaration a miner's daemon keeps on chain (src/services/miner.py,   *)
(* EpochProbe, KitCli and JudgeSeat): declared while its role is on, withdrawn     *)
(* while it drains, and sent back once when the chain no longer draws it. A        *)
(* transaction's fate may not be read, a reading may fail, the process restarts.   *)
EXTENDS Integers

CONSTANTS None, Cap, Window, MaxHeight,
          SeatFaults   \* budget of restarts, unread or refused transactions, unknown readings

VARIABLES now,        \* chain: height
          upgraded,   \* chain: runs epoch 15
          decl,       \* chain: the judge declaration
          seated,     \* chain: the height of the draw of an open seat, or None
          pool,       \* chain: a declaration broadcast and not included, or None
          ready,      \* this machine's judge can answer
          drains,     \* the drain file
          p,          \* the process
          ours,       \* heights of this process's returns that no verdict overtook
          seatLeft

svars == <<now, upgraded, decl, seated, pool, ready, drains, p, ours, seatLeft>>
chain == <<now, upgraded, decl, seated, pool>>

Fault == seatLeft > 0 /\ seatLeft' = seatLeft - 1

-----------------------------------------------------------------------------
(* keeper/judge.go, as the daemon's reading mirrors it                           *)

(* judge_exclusion: the chain's own predicate on the values it answered.          *)
Excluded(f, h) == f.missed >= Cap \/ (h - f.last > Window /\ h - f.at > Window)

DeclaredFault(v) == [decl EXCEPT !.declared = (v = "true"), !.missed = 0]

(* declareJudge clears the missed draws and dates the declaration.               *)
Declared(v) ==
  IF v = "true" THEN [decl EXCEPT !.declared = TRUE, !.at = now + 1, !.missed = 0]
                ELSE [decl EXCEPT !.declared = FALSE, !.missed = 0]

Block ==
  /\ now < MaxHeight /\ now' = now + 1
  /\ UNCHANGED <<upgraded, decl, seated, pool, ready, drains, p, ours, seatLeft>>

Upgrade ==
  /\ ~ upgraded /\ upgraded' = TRUE
  /\ UNCHANGED <<now, decl, seated, pool, ready, drains, p, ours, seatLeft>>

Draw ==
  /\ now < MaxHeight /\ seated = None /\ decl.declared /\ ~ Excluded(decl, now)
  /\ seated' = now
  /\ UNCHANGED <<now, upgraded, decl, pool, ready, drains, p, ours, seatLeft>>

(* The audit concludes: a seat answered dates the verdict and clears the count;   *)
(* one left unanswered counts, unless it predates the declaration.                *)
Conclude ==
  /\ seated # None /\ seated' = None
  /\ \E answered \in BOOLEAN :
       /\ answered => ready
       /\ decl' = IF answered THEN [decl EXCEPT !.last = now, !.missed = 0]
                  ELSE IF decl.declared /\ decl.at <= seated /\ decl.missed < Cap
                  THEN [decl EXCEPT !.missed = @ + 1] ELSE decl
  /\ UNCHANGED <<now, upgraded, pool, ready, drains, p, ours, seatLeft>>

(* A transaction is included in a later block than the reading it was sent on.    *)
Lands(t) ==
  /\ now' = now + 1
  /\ decl' = Declared(t.v)
  /\ ours' = IF t.back /\ t.last = decl.last THEN ours \union {now + 1} ELSE ours

(* A transaction whose fate was not read is included later, or dropped.           *)
Settled ==
  /\ pool # None /\ pool' = None
  /\ \E lands \in BOOLEAN :
       IF lands THEN Lands(pool) ELSE UNCHANGED <<now, decl, ours>>
  /\ UNCHANGED <<upgraded, seated, ready, drains, p, seatLeft>>

-----------------------------------------------------------------------------
(* The process                                                                  *)

(* KitCli: a dendrad without the verbs stops the declarations of this process.     *)
Stopped(cli) == ~ cli

Fresh(role, cli) ==
  [role |-> role, acting |-> None, stopped |-> Stopped(cli), returned |-> None, pending |-> None, next |-> None]

(* EpochProbe.tick: an unknown reading keeps the last one.                        *)
EpochTick ==
  /\ p.acting # upgraded
  /\ p' = [p EXCEPT !.acting = upgraded]
  /\ UNCHANGED <<chain, ready, drains, ours, seatLeft>>

(* judge_action.                                                                *)
JudgeActionFault(f) == IF p.role /\ ~ f.declared THEN "true" ELSE None

JudgeAction(f) ==
  IF p.role /\ ~ drains /\ ~ f.declared THEN "true"
  ELSE IF (~ p.role \/ drains) /\ f.declared THEN "false" ELSE None

(* _adopt: a declaration dated past the one read before the send is that return.   *)
AdoptFault(f) == p.returned

Adopt(f) ==
  IF p.pending # None /\ f.declared /\ f.at > p.pending.at
  THEN [at |-> f.at, last |-> p.pending.last] ELSE p.returned

(* _return: held when seated since the return without an answer.                   *)
Held(r, f) == r # None /\ f.at = r.at /\ f.last = r.last /\ f.missed > 0

Returns(r, f) == f.declared /\ Excluded(f, now) /\ ~ Held(r, f) /\ ready

(* JudgeSeat.turn up to the send: the declaration is read and an action chosen.    *)
(* The period between two turns is longer than a transaction stays unsettled.      *)
Turn ==
  /\ p.acting = TRUE /\ ~ p.stopped /\ p.next = None /\ pool = None
  /\ LET r == Adopt(decl)
         act == JudgeAction(decl)
         back == act = None /\ Returns(r, decl)
     IN  p' = [p EXCEPT !.returned = r, !.pending = None,
                        !.next = IF act # None \/ back
                                 THEN [v |-> IF back THEN "true" ELSE act, back |-> back, at |-> decl.at, last |-> decl.last]
                                 ELSE None]
  /\ p' # p
  /\ UNCHANGED <<chain, ready, drains, ours, seatLeft>>

(* The send: its height read, or its fate not read, or refused.                    *)
Send ==
  /\ p.next # None
  /\ LET n == p.next
         unread == [p EXCEPT !.next = None,
                             !.pending = IF n.back THEN [at |-> n.at, last |-> n.last] ELSE @]
     IN  \E fate \in {"in", "unread", "refused"} :
           /\ IF fate = "in" THEN Lands(n) ELSE UNCHANGED <<now, decl, ours>>
           /\ IF fate = "in" THEN UNCHANGED seatLeft ELSE Fault
           /\ pool' = IF fate = "unread" THEN n ELSE None
           /\ p' = IF fate = "in"
                   THEN [p EXCEPT !.next = None,
                                  !.returned = IF n.back THEN [at |-> now + 1, last |-> n.last] ELSE @]
                   ELSE unread
  /\ UNCHANGED <<upgraded, seated, ready, drains>>

Restart ==
  /\ pool = None /\ Fault /\ ours' = {}
  /\ \E role, cli \in BOOLEAN : p' = Fresh(role, cli)
  /\ UNCHANGED <<chain, ready, drains>>

ReadyTurns == ready' = ~ ready /\ Fault /\ UNCHANGED <<chain, drains, p, ours>>
DrainTurns == drains' = ~ drains /\ Fault /\ UNCHANGED <<chain, ready, p, ours>>

Init ==
  /\ now = 1 /\ upgraded = FALSE /\ seated = None /\ pool = None
  /\ decl = [declared |-> FALSE, at |-> 0, last |-> 0, missed |-> 0]
  /\ ready = TRUE /\ drains = FALSE /\ p = Fresh(TRUE, TRUE) /\ ours = {} /\ seatLeft = SeatFaults

Daemon == EpochTick \/ Turn \/ Send
Next == Block \/ Upgrade \/ Draw \/ Conclude \/ Settled \/ Daemon \/ Restart \/ ReadyTurns \/ DrainTurns
Spec == Init /\ [][Next]_svars

(* The loop turns every few seconds; a transaction is included or dropped.         *)
Fair == WF_svars(EpochTick) /\ WF_svars(Turn) /\ WF_svars(Send) /\ WF_svars(Settled)

-----------------------------------------------------------------------------
(* Properties                                                                  *)

(* The shape of the state.                                                     *)
TypeOK ==
  /\ decl.at <= now /\ decl.last <= now /\ decl.missed \in 0..Cap
  /\ ours \subseteq 1..now
  /\ p.returned # None => p.returned.at \in 1..decl.at

(* "a judge this process already sent back, that was seated since on concluded     *)
(* audits without answering any and is excluded again ... is not sent back a        *)
(* second time by this process" (miner.py, the comment above read_judge_limits).   *)
SendsBackOnce ==
  (p.next = None /\ p'.next # None /\ p'.next.back) =>
     ~ (decl.at \in ours /\ decl.last < decl.at /\ decl.missed > 0)

(* SendsBackOnce, of every step.                                                *)
SentBackOnce == [][SendsBackOnce]_svars

StillDeclared == drains /\ decl.declared
Withdrawn == ~ decl.declared \/ ~ drains \/ p.stopped

(* judge_action: once this miner drains, its declaration does not outlive the turns *)
(* of its daemon.                                                                  *)
WithdrawnWhenDraining == StillDeclared ~> Withdrawn
=============================================================================

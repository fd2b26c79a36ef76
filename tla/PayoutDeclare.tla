---------------------------- MODULE PayoutDeclare ----------------------------
(***************************************************************************)
(* One identity's payout address, declared to the Final Testnet Season     *)
(* programme by three hands that share the miner's volume: the daemon from *)
(* its setting (services/miner.py), the command the application runs, and  *)
(* the owner, who signs elsewhere what was prepared here                   *)
(* (services/final_season_miner.py).  The programme's route is             *)
(* final_season_server.py::_payout, seen for one identity.                 *)
(***************************************************************************)
EXTENDS Integers, FiniteSets

CONSTANTS None, OwnKey, DeclProfiles

VARIABLES conf,     \* the container's environment: [setting, lock, owner]
          prog,     \* the programme: [filed, locked, locks, ever]
          payRec,   \* the volume's payout record: None or [addr, setting, locked]
          lockRec,  \* the volume's record of a refused lock: None or the address
          dm,       \* the daemon: [pc, ans]
          hd,       \* a command run by hand: [pc, addr, lock, ans]
          pend,     \* the prepared declaration: None or [addr, n]
          signed,   \* documents the owner signed
          sb,       \* payout-submit: [pc, doc]
          recorded, \* the daemon recorded the present setting as declared
          declLeft

declvars == <<conf, prog, payRec, lockRec, dm, hd, pend, signed, sb, recorded, declLeft>>

HasD(f) == declLeft[f] > 0
TakeD(f) == declLeft' = [declLeft EXCEPT ![f] = @ - 1]
NoHand == [pc |-> "idle", addr |-> None, lock |-> FALSE, ans |-> None]
daemonSide == <<dm, recorded, lockRec>>
ownerSide == <<pend, signed, sb>>

-----------------------------------------------------------------------------
(* The programme                                                           *)

\* Its answer to a declaration; `code` is the answer's kind.
PayoutAnswer(addr, lock, byOwner) ==
  IF byOwner # conf.owner THEN [code |-> "denied", locked |-> FALSE]
  ELSE IF prog.locked
    THEN IF prog.filed = addr THEN [code |-> "ok", locked |-> TRUE] ELSE [code |-> "held", locked |-> TRUE]
  ELSE IF lock /\ prog.locks /\ prog.filed # None /\ ~byOwner THEN [code |-> "lock_refused", locked |-> FALSE]
  ELSE [code |-> "ok", locked |-> lock /\ prog.locks]

\* The declaration is filed, when it is accepted.
Filed(addr, a) ==
  prog' = IF a.code # "ok" THEN prog
          ELSE [prog EXCEPT !.filed = addr, !.locked = a.locked, !.ever = @ \cup {addr}]

Lost == [code |-> "none", locked |-> FALSE]

\* A signed declaration is sent: answered, lost before it arrives, refused for now, or filed with its answer lost.
DeclarePayout(addr, lock, byOwner, Then(_)) ==
  LET a == PayoutAnswer(addr, lock, byOwner) IN
  \/ Filed(addr, a) /\ Then(a) /\ UNCHANGED declLeft
  \/ HasD("down") /\ TakeD("down") /\ UNCHANGED prog /\ Then(Lost)
  \/ HasD("lost") /\ TakeD("lost") /\ Filed(addr, a) /\ Then(Lost)

\* The programme is replaced by one that locks addresses.
ProgrammeLocks ==
  /\ ~prog.locks /\ HasD("upgrade") /\ TakeD("upgrade")
  /\ prog' = [prog EXCEPT !.locks = TRUE]
  /\ UNCHANGED <<conf, payRec, daemonSide, hd, ownerSide>>

-----------------------------------------------------------------------------
(* The record in the volume                                                *)

\* A declaration made by hand keeps the setting behind the record before it.
RecordDeclarationFault(addr, setting, locked) ==
  [addr |-> addr, setting |-> setting, locked |-> locked]
RecordDeclaration(addr, setting, locked) ==
  [addr |-> addr, locked |-> locked,
   setting |-> IF setting # None THEN setting ELSE IF payRec = None THEN None ELSE payRec.setting]

-----------------------------------------------------------------------------
(* The daemon                                                              *)

\* The record already settles the setting; with the lock asked for, only a locked record of that address does.
AlreadyDeclared ==
  /\ payRec # None
  /\ payRec # None => /\ payRec.setting = conf.setting
                      /\ conf.lock => payRec.locked /\ payRec.addr = conf.setting

\* Nothing this machine should send: no address, an owner's miner, or its own key to be locked for good.
NothingToSend == conf.setting = None \/ AlreadyDeclared \/ conf.owner \/ (conf.lock /\ conf.setting = OwnKey)

\* A try of the daemon, at its start and every 30 minutes until settled.
DaemonTry ==
  /\ dm.pc = "due"
  /\ IF NothingToSend
     THEN dm' = [dm EXCEPT !.pc = "settled"] /\ UNCHANGED <<prog, declLeft>>
     ELSE DeclarePayout(conf.setting, conf.lock, FALSE, LAMBDA a : dm' = [pc |-> "answered", ans |-> a])
  /\ UNCHANGED <<conf, payRec, lockRec, recorded, hd, ownerSide>>

\* What is recorded as locked is what the programme answered, never what was asked of it.
LockedAnswerFault(a) == conf.lock
LockedAnswer(a) == a.locked

\* Settled for good: accepted as asked, or refused for good.
SettledByFault(a) == a.code # "ok" \/ (conf.lock => a.locked)
SettledBy(a) == a.code \in {"held", "lock_refused"} \/ (a.code = "ok" /\ (conf.lock => a.locked))

\* The answer is recorded in the volume; a write that fails is not seen.
DaemonAnswered ==
  /\ dm.pc = "answered"
  /\ LET a == dm.ans IN
     /\ dm' = [pc |-> IF SettledBy(a) THEN "settled" ELSE "due", ans |-> None]
     /\ IF a.code = "ok"
        THEN /\ \/ /\ payRec' = RecordDeclaration(conf.setting, conf.setting, LockedAnswer(a))
                   /\ recorded' = TRUE /\ UNCHANGED declLeft
                \/ HasD("disk") /\ TakeD("disk") /\ UNCHANGED <<payRec, recorded>>
             /\ UNCHANGED lockRec
        ELSE /\ lockRec' = IF a.code = "lock_refused" THEN conf.setting ELSE lockRec
             /\ UNCHANGED <<payRec, recorded, declLeft>>
  /\ UNCHANGED <<conf, prog, hd, ownerSide>>

\* The container restarts, with the same environment or another setting.
Restart ==
  /\ HasD("restart") /\ TakeD("restart")
  /\ \E s \in declLeft.settings :
       /\ conf' = [conf EXCEPT !.setting = s]
       /\ recorded' = (recorded /\ s = conf.setting)
  /\ dm' = [pc |-> "due", ans |-> None]
  /\ hd' = NoHand /\ sb' = [pc |-> "idle", doc |-> None]
  /\ UNCHANGED <<prog, payRec, lockRec, pend, signed>>

-----------------------------------------------------------------------------
(* By hand, and by the owner                                               *)

CommandPayout ==
  /\ hd.pc = "idle" /\ HasD("hand")
  /\ \E addr \in declLeft.byHand, lock \in BOOLEAN :
       hd' = [pc |-> "send", addr |-> addr, lock |-> lock, ans |-> None]
  /\ TakeD("hand")
  /\ UNCHANGED <<conf, prog, payRec, daemonSide, ownerSide>>

CommandSend ==
  /\ hd.pc = "send"
  /\ DeclarePayout(hd.addr, hd.lock, FALSE, LAMBDA a : hd' = [hd EXCEPT !.pc = "answered", !.ans = a])
  /\ UNCHANGED <<conf, payRec, daemonSide, ownerSide>>

CommandAnswered ==
  /\ hd.pc = "answered"
  /\ payRec' = IF hd.ans.code = "ok" THEN RecordDeclaration(hd.addr, None, hd.ans.locked) ELSE payRec
  /\ hd' = NoHand
  /\ UNCHANGED <<conf, prog, daemonSide, ownerSide, declLeft>>

\* A declaration is prepared for the owner: kept in the volume, in place of the one before.
PreparePayout ==
  /\ conf.owner /\ HasD("prepare") /\ TakeD("prepare")
  /\ \E addr \in declLeft.byHand : pend' = [addr |-> addr, n |-> declLeft.prepare]
  /\ UNCHANGED <<conf, prog, payRec, daemonSide, hd, signed, sb>>

OwnerSigns ==
  /\ pend # None /\ (pend # None => pend \notin signed)
  /\ signed' = signed \cup {pend}
  /\ UNCHANGED <<conf, prog, payRec, daemonSide, hd, pend, sb, declLeft>>

SubmitCheckedFault(doc) == pend # None
\* The signature covers exactly the declaration that is prepared now.
SubmitChecked(doc) == doc = pend

SubmitPayout ==
  /\ sb.pc = "idle"
  /\ \E doc \in signed :
       IF ~SubmitChecked(doc) THEN UNCHANGED <<prog, sb, declLeft>>
       ELSE DeclarePayout(doc.addr, FALSE, TRUE,
              LAMBDA a : sb' = IF a.code = "ok" THEN [pc |-> "record", doc |-> pend] ELSE sb)
  /\ UNCHANGED <<conf, payRec, daemonSide, hd, pend, signed>>

\* The accepted declaration is recorded and the prepared one removed, whichever it is by now.
SubmitRecord ==
  /\ sb.pc = "record"
  /\ payRec' = RecordDeclaration(sb.doc.addr, IF conf.setting = sb.doc.addr THEN sb.doc.addr ELSE None, FALSE)
  /\ pend' = None
  /\ sb' = [pc |-> "idle", doc |-> None]
  /\ UNCHANGED <<conf, prog, daemonSide, hd, signed, declLeft>>

-----------------------------------------------------------------------------

Init ==
  /\ declLeft \in DeclProfiles
  /\ conf \in [setting : declLeft.settings, lock : declLeft.lock, owner : declLeft.owner]
  /\ prog \in [filed : {None}, locked : {FALSE}, locks : IF declLeft.upgrade > 0 THEN {FALSE} ELSE {TRUE}, ever : {{}}]
  /\ payRec = None /\ lockRec = None
  /\ dm = [pc |-> "due", ans |-> None] /\ hd = NoHand
  /\ pend = None /\ signed = {} /\ sb = [pc |-> "idle", doc |-> None]
  /\ recorded = FALSE

Next ==
  \/ DaemonTry \/ DaemonAnswered \/ Restart \/ ProgrammeLocks
  \/ CommandPayout \/ CommandSend \/ CommandAnswered
  \/ PreparePayout \/ OwnerSigns \/ SubmitPayout \/ SubmitRecord

Spec == Init /\ [][Next]_declvars

\* The daemon's own loop keeps running.
FairSpec == Spec /\ WF_declvars(DaemonTry) /\ WF_declvars(DaemonAnswered)

-----------------------------------------------------------------------------
(* Properties                                                              *)

\* The shape of the state.
TypeOK ==
  /\ payRec # None => payRec.addr \in declLeft.settings \cup declLeft.byHand /\ payRec.locked \in BOOLEAN
  /\ prog.locked => prog.filed # None
  /\ dm.pc \in {"due", "answered", "settled"} /\ (dm.pc = "answered") = (dm.ans # None)
  /\ sb.pc = "record" => sb.doc \in signed /\ prog.filed # None

\* The volume's records say only what the programme answered: an address in them was on file there, one said to be
\* locked is locked there for good, and a lock recorded as refused can no longer be had, whichever of the three
\* hands declared in between and whichever answers were lost.
RecordsTruthful ==
  /\ payRec # None => payRec.addr \in prog.ever /\ (payRec.locked => prog.locked /\ prog.filed = payRec.addr)
  /\ lockRec # None => prog.filed # None /\ ~prog.locked

\* Once the daemon recorded its setting as declared, it files nothing again while the setting stays the same and no
\* lock is asked for: an address declared since by hand stands, restarts included.
HandKept == (dm.pc = "due" /\ dm'.pc = "answered" /\ prog'.filed # prog.filed) => ~recorded \/ conf.lock

\* HandKept, of every step.
HandStands == [][HandKept]_declvars

SettingFiled ==
  \/ conf.setting \in prog.ever \cup {None} \/ conf.owner \/ prog.locked \/ lockRec # None
  \/ conf.lock /\ conf.setting = OwnKey

\* A setting that this machine may declare reaches the programme in the end, although tries fail and answers are
\* lost, unless the programme holds a locked address, refused the lock, or the lock would hold this machine's own key.
DeclaredInTheEnd == <>[]SettingFiled
==============================================================================

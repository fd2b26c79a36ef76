------------------------------ MODULE Presence ------------------------------
(***************************************************************************)
(* A miner's availability proof (miner.py, prove_availability_once): the   *)
(* challenge of the current epoch is read, its window judged, the served   *)
(* model asked a test question, and only then a proof is sent and judged   *)
(* by what the chain recorded.  What is settled is kept in memory and in a *)
(* record that survives a restart.                                         *)
(*                                                                         *)
(* The challenge read at height h is the one of epoch h \div EpochBlocks;  *)
(* a proof executes in the next block.  A rescue by export keeps the       *)
(* challenge and the height, and neither presence nor transactions.        *)
(***************************************************************************)
EXTENDS Integers

CONSTANTS None, EpochBlocks, MaxBlock, PresProfiles

VARIABLES block,     \* the last committed height
          present,   \* epochs proven on the chain as it is now
          proofPool, \* epochs whose proof is sent and not yet executed
          fate,      \* per epoch, what the chain answered to its last proof
          turn,      \* [pc, last, chal, paused]: the process
          availRec,  \* the record in the key directory, [chal, state]
          chainRules,\* [deadline, floor, kit, reg]: parameters, the kit, the registration
          rescued,   \* a rescue came after the process settled its challenge
          presLeft   \* faults still allowed

presvars == <<block, present, proofPool, fate, turn, availRec, chainRules, rescued, presLeft>>

Epochs == 0 .. MaxBlock \div EpochBlocks
EpochOf(h) == h \div EpochBlocks
Epoch == EpochOf(block)
IdleFault(t) == [t EXCEPT !.pc = "idle"]
Idle(t) == [t EXCEPT !.pc = "idle", !.chal = None]
Process == [pc |-> "idle", last |-> None, chal |-> None, paused |-> FALSE]
Has(f) == presLeft[f] > 0
Take(f) == presLeft' = [presLeft EXCEPT ![f] = @ - 1]
\* A reading that may fail while its budget lasts.
Reads(f) == {TRUE} \cup (IF Has(f) THEN {FALSE} ELSE {})
Spent(ok, f) == IF ok THEN UNCHANGED presLeft ELSE Take(f)

-----------------------------------------------------------------------------
(* The chain: ProveAvailability, as the daemon meets it                    *)

\* The last block in which a proof for epoch e is accepted.
LastBlock(e) == IF chainRules.deadline = 0 THEN (e + 1) * EpochBlocks
                ELSE e * EpochBlocks + chainRules.deadline

ChainJudges(e) ==
  IF chainRules.reg = "absent" THEN "refused"
  ELSE IF chainRules.kit < chainRules.floor THEN "below floor"
  ELSE IF e # Epoch THEN "refused"
  ELSE IF block + 1 > LastBlock(e) THEN "too late" ELSE "ok"

Execute(e) ==
  /\ e \in proofPool
  /\ proofPool' = proofPool \ {e}
  /\ fate' = [fate EXCEPT ![e] = ChainJudges(e)]
  /\ present' = IF ChainJudges(e) = "ok" THEN present \cup {e} ELSE present
  /\ UNCHANGED <<block, turn, availRec, chainRules, rescued, presLeft>>

Block ==
  /\ block < MaxBlock
  /\ block' = block + 1
  /\ UNCHANGED <<present, proofPool, fate, turn, availRec, chainRules, rescued, presLeft>>

Rescue ==
  /\ Has("rescue") /\ Take("rescue")
  /\ present' = present \ {Epoch} /\ proofPool' = {} /\ fate' = [e \in Epochs |-> "none"]
  /\ rescued' = (turn.last # None)
  /\ UNCHANGED <<block, turn, availRec, chainRules>>

-----------------------------------------------------------------------------
(* The daemon                                                              *)

\* A miner the chain is known not to record proves nothing; a registry that
\* was not read is not an absent miner.
RegistrationAllowsProof == chainRules.reg \in {"registered", "registry_unread"}

\* A later registration attempt records the miner.
RegisterAttempt ==
  /\ chainRules.reg # "registered"
  /\ chainRules' = [chainRules EXCEPT !.reg = "registered"]
  /\ UNCHANGED <<block, present, proofPool, fate, turn, availRec, rescued, presLeft>>

TxOnChainFault(e) == TRUE
\* The proof of a record is on the chain served now.
TxOnChain(e) == fate[e] = "ok"

\* What the record settles: a closed window, or a proof this chain shows.
SettledByRecord(e, ok) ==
  /\ availRec.chal = e
  /\ \/ availRec.state = "window_closed"
     \/ availRec.state = "proven" /\ ok /\ TxOnChain(e)

\* Reading the challenge, then the record.
ReadChallenge ==
  /\ turn.pc = "idle" /\ RegistrationAllowsProof /\ turn.last # Epoch
  /\ \E ok \in Reads("read") :
       /\ Spent(ok, "read")
       /\ IF SettledByRecord(Epoch, ok)
          THEN turn' = [Idle(turn) EXCEPT !.last = Epoch] /\ rescued' = FALSE
          ELSE /\ turn' = IF ok THEN [turn EXCEPT !.pc = "window", !.chal = Epoch] ELSE turn
               /\ UNCHANGED rescued
  /\ UNCHANGED <<block, present, proofPool, fate, availRec, chainRules>>

\* avail_window: the height against the challenge read before it.
AvailWindow(e, read) ==
  IF ~read THEN "unknown"
  ELSE IF Epoch # e THEN "stale"
  ELSE IF chainRules.deadline # 0 /\ block > LastBlock(e) THEN "closed" ELSE "open"

\* A settled challenge is written; a failed write is only logged.
Remember(e, state, ok) == availRec' = IF ok THEN [chal |-> e, state |-> state] ELSE availRec

ReadWindow ==
  /\ turn.pc = "window"
  /\ \E read \in Reads("read"), saved \in Reads("disk") :
       LET w == AvailWindow(turn.chal, read) IN
       /\ ~saved => w = "closed"
       /\ presLeft' = [presLeft EXCEPT !.read = @ - (IF read THEN 0 ELSE 1),
                                       !.disk = @ - (IF saved THEN 0 ELSE 1)]
       /\ IF w = "closed"
          THEN /\ turn' = [Idle(turn) EXCEPT !.last = turn.chal]
               /\ rescued' = FALSE
               /\ Remember(turn.chal, "window_closed", saved)
          ELSE /\ turn' = IF w = "stale" THEN Idle(turn) ELSE [turn EXCEPT !.pc = "probe"]
               /\ UNCHANGED <<rescued, availRec>>
  /\ UNCHANGED <<block, present, proofPool, fate, chainRules>>

\* The test inference: a non-empty generation and an embedding within the bound; an
\* error, an empty answer, a late one and one held back by the memory check do not count.
ProbeAnswers == Reads("engine")

\* One that did not answer pauses the next.
Probe ==
  /\ turn.pc = "probe"
  /\ \E answered \in ProbeAnswers :
       /\ IF turn.paused THEN answered /\ UNCHANGED presLeft ELSE Spent(answered, "engine")
       /\ turn' = IF turn.paused THEN Idle(turn)
                  ELSE IF answered THEN [turn EXCEPT !.pc = "prove"]
                  ELSE [Idle(turn) EXCEPT !.paused = TRUE]
  /\ UNCHANGED <<block, present, proofPool, fate, availRec, chainRules, rescued>>

ProbePauseOverFault ==
  /\ turn.paused /\ turn.last = Epoch /\ turn' = [turn EXCEPT !.paused = FALSE]
  /\ UNCHANGED <<block, present, proofPool, fate, availRec, chainRules, rescued, presLeft>>
ProbePauseOver ==
  /\ turn.paused /\ turn' = [turn EXCEPT !.paused = FALSE]
  /\ UNCHANGED <<block, present, proofPool, fate, availRec, chainRules, rescued, presLeft>>

\* The VRF tool, then the transaction; a failure of either is tried again.
SendProof ==
  /\ turn.pc = "prove"
  /\ \E ok \in Reads("tx") :
       /\ Spent(ok, "tx")
       /\ proofPool' = IF ok THEN proofPool \cup {turn.chal} ELSE proofPool
       /\ fate' = IF ok THEN [fate EXCEPT ![turn.chal] = "none"] ELSE fate
       /\ turn' = IF ok THEN [turn EXCEPT !.pc = "wait"] ELSE Idle(turn)
  /\ UNCHANGED <<block, present, availRec, chainRules, rescued>>

\* The answers that settle a challenge for this process.
Settles(f) == f \in {"ok", "too late", "below floor"}
StateOf(f) == IF f = "ok" THEN "proven" ELSE IF f = "too late" THEN "window_closed" ELSE "kit_below_floor"

\* The wait: the chain's answer, or given up with the proof still in flight.
Judge ==
  /\ turn.pc = "wait"
  /\ \E seen \in Reads("tx"), saved \in Reads("disk") :
       LET f == fate[turn.chal] IN
       /\ seen => f # "none" \/ turn.chal \notin proofPool
       /\ ~saved => seen /\ Settles(f)
       /\ presLeft' = [presLeft EXCEPT !.tx = @ - (IF seen THEN 0 ELSE 1),
                                       !.disk = @ - (IF saved THEN 0 ELSE 1)]
       /\ IF seen /\ Settles(f)
          THEN /\ turn' = [Idle(turn) EXCEPT !.last = turn.chal]
               /\ rescued' = FALSE
               /\ Remember(turn.chal, StateOf(f), saved)
          ELSE turn' = Idle(turn) /\ UNCHANGED <<rescued, availRec>>
  /\ UNCHANGED <<block, present, proofPool, fate, chainRules>>

\* A restart, with the kit updated or not.
RestartDaemon ==
  /\ Has("crash") /\ Take("crash")
  /\ turn' = Process /\ rescued' = FALSE
  /\ \E k \in {chainRules.kit, chainRules.floor} : chainRules' = [chainRules EXCEPT !.kit = k]
  /\ UNCHANGED <<block, present, proofPool, fate, availRec>>

Init ==
  /\ \E q \in PresProfiles : chainRules = q.rules /\ presLeft = q.left
  /\ block = 0 /\ present = {} /\ proofPool = {} /\ fate = [e \in Epochs |-> "none"]
  /\ turn = Process /\ availRec = [chal |-> None, state |-> "none"] /\ rescued = FALSE

DaemonTurn == ReadChallenge \/ ReadWindow \/ Probe \/ SendProof \/ Judge
Next == \/ DaemonTurn \/ ProbePauseOver \/ RegisterAttempt \/ RestartDaemon \/ Block \/ Rescue
        \/ \E e \in Epochs : Execute(e)
Spec == Init /\ [][Next]_presvars
\* The loop keeps turning, its pause ends, the chain executes what it holds.
Fair == /\ WF_presvars(DaemonTurn) /\ WF_presvars(ProbePauseOver) /\ WF_presvars(RegisterAttempt)
        /\ \A e \in Epochs : WF_presvars(Execute(e))
FairSpec == Spec /\ Fair

-----------------------------------------------------------------------------
\* The shape of the state.
TypeOK ==
  /\ block \in 0 .. MaxBlock /\ present \subseteq Epochs /\ proofPool \subseteq Epochs
  /\ turn.pc \in {"idle", "window", "probe", "prove", "wait"}
  /\ turn.last \in Epochs \cup {None} /\ turn.chal \in Epochs \cup {None}
  /\ (turn.pc = "idle") <=> (turn.chal = None)
  /\ availRec.state \in {"none", "proven", "window_closed", "kit_below_floor"}

\* A challenge the daemon no longer answers is proven on this chain, or no later
\* block would accept a proof for it, or its kit is below the floor; a record
\* left by an earlier process never breaks this, a failed write included.
SettledTruthful ==
  turn.last = Epoch =>
    \/ Epoch \in present \/ block + 1 > LastBlock(Epoch)
    \/ chainRules.kit < chainRules.floor \/ rescued

AtRest == chainRules.deadline = 0 /\ chainRules.floor = 0 /\ block = MaxBlock
CountedPresent == EpochOf(MaxBlock) \in present \/ rescued

\* With no answer deadline, the miner is recorded present in the epoch the chain
\* rests in, whatever was unreadable, silent, refused, lost or restarted before.
PresentInTheEnd == AtRest ~> CountedPresent
=============================================================================

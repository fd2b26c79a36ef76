------------------------------ MODULE MinerServe ------------------------------
(* The serving loop of a miner's daemon (src/services/miner.py, main): requests   *)
(* listed by the relay are answered, the answer's commitment is journalled, the   *)
(* sealed answer deposited, the commitment anchored. The process may be killed    *)
(* between any two of these and restarted with another model; the relay and the   *)
(* chain may do what was asked without saying so.                                 *)
EXTENDS Integers, FiniteSets

CONSTANTS None,       \* no value
          Keys,       \* the requests addressed to this miner
          Models,     \* the models a start of the container may be given
          MaxGen,     \* bound on the answers generated for a request
          MaxAttempts,\* job_max_attempts
          Faults      \* the budgets of crash, put, late, tx, disk, gen, drain, expire

VARIABLES listed,     \* relay: the requests it lists
          res,        \* relay: the sealed answer of each request, write-once
          late,       \* relay: deposits still on their way
          anchored,   \* chain: the commitment of each request
          mempool,    \* chain: commitments broadcast and not included yet
          journal,    \* disk: pending-commitments.json
          fails,      \* disk: job-failures.json
          full,       \* disk: writes fail
          drain,      \* disk: the drain file
          d,          \* the process: pc and what its pass read
          gens,       \* answers generated for each request
          stale,      \* the requests past the age their client waits
          unnoted,    \* history: deposits on their way whose failure is not in job-failures.json
          left        \* faults left

relay == <<listed, res, late>>
chain == <<anchored, mempool>>
disk  == <<journal, fails, full, drain>>
vars  == <<relay, chain, disk, d, gens, stale, unnoted, left>>

Down == [pc |-> "down"]
Spend(f) == left[f] > 0 /\ left' = [left EXCEPT ![f] = @ - 1]

-----------------------------------------------------------------------------
(* The failure file                                                             *)

(* note_job_failure: another kind starts the entry over; the request waits its   *)
(* pause, and is given up once enough failures counted.                          *)
NoteJobFailureFault(e, kind, counted, sealed) ==
  LET n == (IF e # None THEN e.counted ELSE 0) + 1
  IN  [kind |-> kind, counted |-> n, wait |-> TRUE, sealed |-> sealed, abandoned |-> n >= MaxAttempts]

NoteJobFailure(e, kind, counted, sealed) ==
  LET same == e # None /\ e.kind = kind
      n == (IF same THEN e.counted ELSE 0) + (IF counted THEN 1 ELSE 0)
  IN  [kind |-> kind, counted |-> n, wait |-> TRUE, sealed |-> sealed,
       abandoned |-> kind = "inference" /\ n >= MaxAttempts]

JobDue(e) == e # None => ~ e.abandoned /\ ~ e.wait

-----------------------------------------------------------------------------
(* The relay and the chain, as the daemon meets them                             *)

(* relay_client.put: TRUE only for a fresh deposit the relay answered.            *)
Puts == {"ok", "refused", "unanswered", "late"}
PutLands(k, a, how) ==
  /\ how = "ok" => res[k] = None
  /\ res' = IF how \in {"ok", "unanswered"} /\ res[k] = None THEN [res EXCEPT ![k] = a] ELSE res
  /\ late' = IF how = "late" THEN late \union {[k |-> k, a |-> a]} ELSE late
  /\ IF how = "late" THEN Spend("late") ELSE IF how = "ok" \/ res[k] # None THEN left' = left ELSE Spend("put")
  /\ UNCHANGED <<listed, stale>>

(* A deposit that arrives after its sender gave it up.                           *)
LateArrives(p) ==
  /\ late' = late \ {p}
  /\ res' = IF res[p.k] = None /\ p.k \in listed THEN [res EXCEPT ![p.k] = p.a] ELSE res
  /\ UNCHANGED <<listed, chain, disk, d, gens, left, stale, unnoted>>

(* create-commit: the first commitment of a request stands.                      *)
Included(k, a) == IF anchored[k] = None THEN [anchored EXCEPT ![k] = a] ELSE anchored

(* tx_from, tx_fate: included and read, refused, or broadcast with its fate not   *)
(* read.                                                                         *)
TxFate(k, a, how) ==
  /\ how = "in" => anchored[k] = None
  /\ anchored' = IF how = "in" THEN Included(k, a) ELSE anchored
  /\ mempool' = IF how = "unread" THEN mempool \union {[k |-> k, a |-> a]} ELSE mempool
  /\ IF how = "in" \/ anchored[k] # None THEN left' = left ELSE Spend("tx")

Include(t) ==
  /\ mempool' = mempool \ {t} /\ anchored' = Included(t.k, t.a)
  /\ UNCHANGED <<relay, disk, d, gens, left, stale, unnoted>>

(* The relay's retention: a request and its answer leave the listing.            *)
Expire(k) ==
  /\ k \in listed /\ Spend("expire")
  /\ listed' = listed \ {k} /\ res' = [res EXCEPT ![k] = None]
  /\ UNCHANGED <<late, chain, disk, d, gens, stale, unnoted>>

-----------------------------------------------------------------------------
(* The process                                                                  *)

StartUp(m) ==
  /\ d.pc = "down"
  /\ d' = [pc |-> "pass", model |-> m, done |-> {}, todo |-> {}, ress |-> {},
           fl |-> fails, key |-> None, ans |-> None, tries |-> 0]
  /\ UNCHANGED <<relay, chain, disk, gens, left, stale, unnoted>>

(* The failure of a deposit refused or lost reached no file: its request looks    *)
(* untried at the next pass, although the deposit may still arrive.              *)
Unnoted ==
  IF d.pc = "refused" /\ ~ (fails'[d.key] # None /\ fails'[d.key].kind = "deposit")
  THEN {p \in late : p.k = d.key} ELSE {}

Crash ==
  /\ d.pc # "down" /\ Spend("crash") /\ d' = Down
  /\ UNCHANGED <<relay, chain, disk, gens, stale>>
  /\ unnoted' = unnoted \union Unnoted

(* The head of a pass: the listing, and the failures of requests no longer        *)
(* listed dropped.                                                               *)
Listing == [req |-> listed, res |-> {k \in listed : res[k] # None}]

PassRead ==
  LET fl == [k \in Keys |-> IF k \in listed THEN fails[k] ELSE None]
  IN  /\ d.pc = "pass"
      /\ d' = [d EXCEPT !.pc = "keys", !.todo = Listing.req, !.fl = fl, !.ress = Listing.res]
      /\ fails' = IF full THEN fails ELSE fl
      /\ UNCHANGED <<relay, chain, journal, full, drain, gens, left, stale, unnoted>>

(* _forget_commitment, once the chain was read to carry the commitment.           *)
Settle(k) ==
  /\ journal' = IF full THEN journal ELSE [journal EXCEPT ![k] = None]
  /\ fails' = IF full THEN fails ELSE [d.fl EXCEPT ![k] = None]
  /\ d' = [d EXCEPT !.pc = "keys", !.todo = @ \ {k}, !.done = @ \union {k},
                    !.fl = [@ EXCEPT ![k] = None], !.key = None, !.ans = None]

Failed(k, e) ==
  /\ fails' = IF full THEN fails ELSE [d.fl EXCEPT ![k] = e]
  /\ d' = [d EXCEPT !.pc = "keys", !.todo = @ \ {k}, !.fl = [@ EXCEPT ![k] = e], !.key = None, !.ans = None]

(* A response deposited, its commitment journalled: only the anchoring is replayed, *)
(* with the journalled commitment and its model.                                   *)
ResumableFault(k) == journal[k] # None

Resumable(k) == journal[k] # None /\ k \in d.ress

ResumeAnswerFault(k) == [g |-> journal[k].g, model |-> None]
ResumeAnswer(k) == journal[k]

Resume(k) ==
  /\ k \in d.todo \ d.done /\ Resumable(k)
  /\ IF anchored[k] = journal[k]
     THEN Settle(k) /\ UNCHANGED <<chain, left>>
     ELSE /\ d.fl[k] # None /\ d.fl[k].kind = "anchor" => JobDue(d.fl[k])
          /\ \E how \in {"in", "refused", "unread"} :
               /\ TxFate(k, ResumeAnswer(k), how)
               /\ IF how = "in" THEN Settle(k)
                  ELSE Failed(k, NoteJobFailure(d.fl[k], "anchor", FALSE, None)) /\ UNCHANGED journal
  /\ UNCHANGED <<relay, full, drain, gens, stale, unnoted>>

(* A deposit refused earlier is offered again with the response that was kept.     *)
Kept(k) == journal[k] # None /\ d.fl[k] # None /\ d.fl[k].kind = "deposit"

Redeposit(k) ==
  /\ k \in d.todo \ d.done /\ ~ Resumable(k) /\ Kept(k) /\ JobDue(d.fl[k])
  /\ \E how \in Puts :
       /\ PutLands(k, d.fl[k].sealed, how)
       /\ d' = [d EXCEPT !.pc = IF how = "ok" THEN "accepted" ELSE "refused", !.key = k, !.ans = d.fl[k].sealed]
  /\ UNCHANGED <<chain, disk, gens, unnoted>>

(* request_stale_age: never applied to a request whose commitment is journalled.   *)
Stale(k) == k \in stale /\ journal[k] = None

(* What may be generated: not given up nor waiting, and nothing while draining.    *)
Servable(k) ==
  /\ k \in d.todo \ d.done /\ ~ Resumable(k) /\ ~ Kept(k)
  /\ ~ (k \in d.ress /\ journal[k] = None)
  /\ JobDue(d.fl[k]) /\ ~ Stale(k) /\ ~ drain /\ k \in listed

(* Miner.handle_job: an answer, never twice the same, or a failure that counts     *)
(* only when the engine answers a test request after it (engine_answered_since);   *)
(* a request the memory guard holds back is not tried.                             *)
Generate(k) ==
  /\ Servable(k)
  /\ \/ /\ gens[k] < MaxGen
        /\ gens' = [gens EXCEPT ![k] = @ + 1]
        /\ d' = [d EXCEPT !.pc = "made", !.key = k, !.fl = [@ EXCEPT ![k] = None],
                          !.ans = [g |-> gens[k] + 1, model |-> d.model]]
        /\ fails' = IF full \/ d.fl[k] = None THEN fails ELSE [d.fl EXCEPT ![k] = None]
        /\ UNCHANGED left
     \/ /\ Spend("gen") /\ UNCHANGED gens
        /\ \E how \in {"counted", "uncounted", "held"} :
             Failed(k, IF how = "held" THEN d.fl[k]
                       ELSE NoteJobFailure(d.fl[k], "inference", how = "counted", None))
  /\ UNCHANGED <<relay, chain, journal, full, drain, stale, unnoted>>

(* The requests this pass leaves alone; with none left the pass ends.              *)
Skip ==
  /\ d.pc = "keys"
  /\ \A k \in d.todo \ d.done :
       /\ ~ Servable(k)
       /\ Resumable(k) => anchored[k] # journal[k] /\ d.fl[k] # None /\ d.fl[k].kind = "anchor" /\ d.fl[k].wait
       /\ ~ Resumable(k) /\ Kept(k) => ~ JobDue(d.fl[k])
  /\ d' = [d EXCEPT !.pc = "pass", !.todo = {}]
  /\ UNCHANGED <<relay, chain, disk, gens, left, stale, unnoted>>

(* _journal_commitment: durable before the deposit; a write that fails ends the    *)
(* pass with nothing deposited.                                                   *)
JournalFault ==
  /\ d.pc = "made"
  /\ d' = [d EXCEPT !.pc = "journalled"]
  /\ journal' = journal
  /\ UNCHANGED <<relay, chain, fails, full, drain, gens, left, stale, unnoted>>

Journal ==
  /\ d.pc = "made"
  /\ d' = IF full THEN [d EXCEPT !.pc = "pass", !.key = None, !.ans = None]
                  ELSE [d EXCEPT !.pc = "journalled"]
  /\ journal' = IF full THEN journal ELSE [journal EXCEPT ![d.key] = d.ans]
  /\ UNCHANGED <<relay, chain, fails, full, drain, gens, left, stale, unnoted>>

Deposit ==
  /\ d.pc = "journalled"
  /\ \E how \in Puts :
       /\ PutLands(d.key, d.ans, how)
       /\ d' = [d EXCEPT !.pc = IF how = "ok" THEN "anchor" ELSE "refused", !.tries = 0]
  /\ UNCHANGED <<chain, disk, gens, unnoted>>

(* What became of the deposit is written after it: the response of one that was    *)
(* refused is kept with its failure.                                              *)
NoteDeposit ==
  /\ d.pc \in {"accepted", "refused"}
  /\ Failed(d.key, IF d.pc = "accepted" THEN None ELSE NoteJobFailure(d.fl[d.key], "deposit", FALSE, d.ans))
  /\ unnoted' = unnoted \union Unnoted
  /\ UNCHANGED <<relay, chain, journal, full, drain, gens, left, stale>>

(* Three anchoring attempts; then the journal keeps the commitment.                *)
Anchor ==
  /\ d.pc = "anchor"
  /\ IF anchored[d.key] = d.ans THEN Settle(d.key) /\ UNCHANGED <<chain, left>>
     ELSE IF d.tries = 3
     THEN d' = [d EXCEPT !.pc = "keys", !.todo = @ \ {d.key}, !.key = None, !.ans = None] /\ UNCHANGED <<chain, disk, left>>
     ELSE /\ \E how \in {"in", "refused", "unread"} : TxFate(d.key, d.ans, how)
          /\ d' = [d EXCEPT !.tries = @ + 1]
          /\ UNCHANGED disk
  /\ UNCHANGED <<relay, full, drain, gens, stale, unnoted>>

-----------------------------------------------------------------------------
(* The machine                                                                  *)

PauseOver(k) ==
  /\ fails[k] # None /\ fails[k].wait
  /\ fails' = [fails EXCEPT ![k].wait = FALSE]
  /\ d' = IF d.pc # "down" /\ d.fl[k] # None THEN [d EXCEPT !.fl = [@ EXCEPT ![k].wait = FALSE]] ELSE d
  /\ UNCHANGED <<relay, chain, journal, full, drain, gens, left, stale, unnoted>>

DiskTurns ==
  /\ IF full THEN left' = left ELSE Spend("disk")
  /\ full' = ~ full
  /\ UNCHANGED <<relay, chain, journal, fails, drain, d, gens, stale, unnoted>>

Age(k) ==
  /\ k \notin stale /\ stale' = stale \union {k}
  /\ UNCHANGED <<relay, chain, disk, d, gens, unnoted, left>>

DrainTurns ==
  /\ IF drain THEN left' = left ELSE Spend("drain")
  /\ drain' = ~ drain
  /\ UNCHANGED <<relay, chain, journal, fails, full, d, gens, stale, unnoted>>

Init ==
  /\ listed = Keys /\ res = [k \in Keys |-> None] /\ late = {}
  /\ anchored = [k \in Keys |-> None] /\ mempool = {}
  /\ journal = [k \in Keys |-> None] /\ fails = [k \in Keys |-> None]
  /\ full = FALSE /\ drain = FALSE
  /\ d = Down /\ gens = [k \in Keys |-> 0] /\ stale = {} /\ unnoted = {} /\ left \in Faults

Visit(k) == d.pc = "keys" /\ (Resume(k) \/ Redeposit(k) \/ Generate(k))
Loop == PassRead \/ Skip \/ Journal \/ Deposit \/ NoteDeposit \/ Anchor \/ \E k \in Keys : Visit(k)
Machine == Crash \/ DiskTurns \/ DrainTurns \/ \E k \in Keys : PauseOver(k) \/ Expire(k) \/ Age(k)

Next ==
  \/ Loop \/ Machine
  \/ \E m \in Models : StartUp(m)
  \/ \E t \in mempool : Include(t)
  \/ \E p \in late : LateArrives(p)

Spec == Init /\ [][Next]_vars

(* Docker restarts the container, the loop keeps turning, pauses end, and a full   *)
(* disk is freed.                                                                *)
StartsUp == \E m \in Models : StartUp(m)
DiskFreed == full /\ DiskTurns
Fair ==
  /\ WF_vars(Loop) /\ WF_vars(StartsUp)
  /\ \A k \in Keys : WF_vars(PauseOver(k))
  /\ WF_vars(DiskFreed)

-----------------------------------------------------------------------------
(* Properties                                                                  *)

Answers == [g : 1..MaxGen, model : Models]

(* The shape of the state.                                                     *)
TypeOK ==
  /\ \A k \in Keys : {res[k], anchored[k], journal[k]} \subseteq Answers \union {None}
  /\ \A t \in mempool \union late : t.a \in Answers
  /\ d.pc \in {"made", "journalled", "anchor"} => d.ans \in Answers /\ d.key \in Keys

LateUnnoted(k) == [k |-> k, a |-> res[k]] \in unnoted

(* "Re-running inference would produce a different answer, and the deposit is      *)
(* write-once": whatever crashes, refusals and lost answers happen, the commitment *)
(* the chain carries is the one of the response the relay holds, with the model    *)
(* that produced it. The exception is a deposit that arrived after its sender gave *)
(* it up, and whose failure the file does not hold: a write that failed, or a stop *)
(* between the deposit and the write.                                             *)
AnchoredIsDeposited ==
  \A k \in listed : anchored[k] # None /\ ~ LateUnnoted(k) => anchored[k] = res[k]

(* _journal_commitment: a deposited response whose commitment is not on chain is    *)
(* never without its journalled commitment, which cannot be recomputed.            *)
DepositIsJournalled ==
  \A k \in Keys : res[k] # None /\ anchored[k] # res[k] /\ ~ LateUnnoted(k) => journal[k] = res[k]

(* "A deposit the relay refused keeps its sealed response in the file, and the next *)
(* attempt deposits that response again, never a new inference": the commitment     *)
(* anchored is the one of the response deposited, without the exception.            *)
DepositedIsAnchored == \A k \in listed : anchored[k] # None /\ res[k] # None => anchored[k] = res[k]

Deposited(k) == res[k] # None
AnchoredOrGone(k) == anchored[k] # None \/ k \notin listed

(* "a journalled commitment is an obligation": a deposited response is anchored,    *)
(* unless its request leaves the relay first.                                      *)
DepositedAnchored == \A k \in Keys : Deposited(k) ~> AnchoredOrGone(k)
=============================================================================

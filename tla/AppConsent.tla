----------------------------- MODULE AppConsent -----------------------------
(***************************************************************************)
(* What the owner confirms in the miner application (deploy/app/           *)
(* dendra_app.py): the one-time access token, the confirmation codes, the  *)
(* recovery phrase shown, typed back and removed, and the payout address   *)
(* declared for one identity or for all of them.                           *)
(*                                                                         *)
(* A code's value is its number of issue; 0 is a code nobody was given.    *)
(* The phrase of slot k is named by <<k, generation of its key>>, and a    *)
(* person can type back only a phrase that was shown.                      *)
(***************************************************************************)
EXTENDS Integers, Sequences, FiniteSets

CONSTANTS None, ConsentSlots, PayAddresses, Pages, CodeTries, ConsentProfiles

VARIABLES access,    \* [once, sessions]: the one-time token unspent, sessions opened with it
          codes,     \* by purpose, the code that waits: None or [value, target, old, tries]
          issued,    \* codes printed, in order: [purpose, target, guesses, uses]
          challenge, \* the phrase and the positions last asked: None or [phrase, ask]
          phrase,    \* by slot, the generation of the phrase kept on the volume, 0 for none
          gen,       \* by slot, the generation of its key
          shown,     \* challenges a page has shown: [phrase, ask]
          typed,     \* phrases whose words were sent to be confirmed
          removed,   \* phrases the application removed
          appFile,   \* app.json: [last, confirmed, payout]
          actionBy,  \* the request that holds the action lock
          stopping,  \* Stop asked of the action that runs
          filed,     \* by slot, the address the programme recorded
          page,      \* requests being answered
          consentLeft

consentvars == <<access, codes, issued, challenge, phrase, gen, shown, typed, removed, appFile, actionBy,
                 stopping, filed, page, consentLeft>>

Purposes == {"recovery", "payout"}
\* What a code may be printed for: one identity's words, or an address for one identity or for all.
SlotSets == {{k} : k \in ConsentSlots} \cup {ConsentSlots}
Targets == [recovery |-> {[addr |-> None, slots |-> {k}] : k \in ConsentSlots},
            payout |-> [addr : PayAddresses, slots : SlotSets]]
Positions == {1, 2}
IdlePage == [pc |-> "idle", slot |-> None, gen |-> 0, words |-> None, addr |-> None, slots |-> {}, todo |-> {},
             failed |-> FALSE]
HasC(f) == consentLeft[f] > 0
TakeC(f) == consentLeft' = [consentLeft EXCEPT ![f] = @ - 1]
To(q, pc) == page' = [page EXCEPT ![q].pc = pc]
Answered(q) == page' = [page EXCEPT ![q] = IdlePage]
kept == <<phrase, gen, removed, appFile, filed>>

-----------------------------------------------------------------------------
(* The way in                                                              *)

TokenSpentFault(a) == [a EXCEPT !.sessions = @ + 1]
TokenSpent(a) == [a EXCEPT !.once = FALSE, !.sessions = @ + 1]

\* The access page posts the one-time token; the token is spent by the request that shows it.
Handoff ==
  /\ access.once
  /\ access' = TokenSpent(access)
  /\ UNCHANGED <<codes, issued, challenge, shown, typed, kept, actionBy, stopping, page, consentLeft>>

\* Nobody used the token in time.
ForgetAccess ==
  /\ access.once /\ HasC("unused")
  /\ TakeC("unused")
  /\ access' = [access EXCEPT !.once = FALSE]
  /\ UNCHANGED <<codes, issued, challenge, shown, typed, kept, actionBy, stopping, page>>

\* The application ends and is launched again, with a new token and nothing of its memory.
Relaunch ==
  /\ HasC("relaunch")
  /\ TakeC("relaunch")
  /\ access' = [once |-> TRUE, sessions |-> 0]
  /\ codes' = [p \in Purposes |-> None]
  /\ challenge' = None /\ actionBy' = None /\ stopping' = FALSE
  /\ page' = [q \in Pages |-> IdlePage]
  /\ UNCHANGED <<issued, shown, typed, kept>>

-----------------------------------------------------------------------------
(* Confirmation codes                                                      *)

\* A code replaces the earlier one of its purpose only; it is printed beside its target, never returned.
IssueCode(p, t) ==
  /\ codes' = [codes EXCEPT ![p] = [value |-> Len(issued) + 1, target |-> t, old |-> FALSE, tries |-> 0]]
  /\ issued' = Append(issued, [purpose |-> p, target |-> t, guesses |-> 0, uses |-> <<>>])

\* A page of the session asks for a code; this waits behind no action.
AskCode(p, t) ==
  /\ access.sessions > 0 /\ Len(issued) < consentLeft.codes
  /\ IssueCode(p, t)
  /\ UNCHANGED <<access, challenge, shown, typed, kept, actionBy, stopping, page, consentLeft>>

CodeExpires(p) ==
  /\ codes[p] # None /\ HasC("slow")
  /\ TakeC("slow")
  /\ codes' = [codes EXCEPT ![p].old = TRUE]
  /\ UNCHANGED <<access, issued, challenge, shown, typed, kept, actionBy, stopping, page>>

TriedFault(c, good) ==
  IF good THEN None ELSE [c EXCEPT !.tries = @ + 1]
\* What a try leaves of the waiting code: used, gone at its last try, or one try nearer to it.
Tried(c, good) ==
  IF good \/ c.tries + 1 >= CodeTries THEN None ELSE [c EXCEPT !.tries = @ + 1]

SpendCodeFault(p, v, t) ==
  /\ codes[p] # None /\ (codes[p] # None => ~codes[p].old /\ codes[p].value = v)
\* The code v confirms target t.
SpendCode(p, v, t) ==
  /\ codes[p] # None /\ (codes[p] # None => ~codes[p].old /\ codes[p].value = v /\ codes[p].target = t)

\* The codes and the printed lines after a request gave code v for target t while a code waits; with none waiting it is
\* refused and nothing changes.
AfterTry(p, v, t) ==
  LET c == codes[p] IN
  IF c.old THEN codes' = [codes EXCEPT ![p] = None] /\ UNCHANGED issued
  ELSE /\ codes' = [codes EXCEPT ![p] = Tried(c, SpendCode(p, v, t))]
       /\ issued' = [issued EXCEPT ![c.value] =
                       IF SpendCode(p, v, t) THEN [@ EXCEPT !.uses = Append(@, t)]
                       ELSE [@ EXCEPT !.guesses = @ + 1]]

-----------------------------------------------------------------------------
(* The recovery phrase                                                     *)

\* The phrase kept on the volume, opened in the container; 0 for none.
RecoveryPhrase(k) == phrase[k]

\* The code is checked, then the phrase is opened.
AskPhrase(q, k, v) ==
  /\ access.sessions > 0 /\ page[q].pc = "idle" /\ codes["recovery"] # None
  /\ AfterTry("recovery", v, [addr |-> None, slots |-> {k}])
  /\ IF SpendCode("recovery", v, [addr |-> None, slots |-> {k}]) /\ RecoveryPhrase(k) # 0
     THEN page' = [page EXCEPT ![q] = [IdlePage EXCEPT !.pc = "show", !.slot = k, !.gen = RecoveryPhrase(k)]]
     ELSE UNCHANGED page
  /\ UNCHANGED <<access, challenge, shown, typed, kept, actionBy, stopping, consentLeft>>

\* The positions are drawn for this phrase of this identity and shown beside it.
ShowPhrase(q) ==
  /\ page[q].pc = "show"
  /\ \E a \in Positions :
       LET c == [phrase |-> <<page[q].slot, page[q].gen>>, ask |-> a] IN
       challenge' = c /\ shown' = shown \cup {c}
  /\ Answered(q)
  /\ UNCHANGED <<access, codes, issued, typed, kept, actionBy, stopping, consentLeft>>

\* Words written down from what a page showed are sent back for slot k; the kept phrase is read again.
SendWords(q, k, w) ==
  /\ access.sessions > 0 /\ page[q].pc = "idle" /\ actionBy = None
  /\ HasC("confirm") /\ TakeC("confirm")
  /\ actionBy' = q
  /\ typed' = typed \cup {w.phrase}
  /\ page' = [page EXCEPT ![q] = [IdlePage EXCEPT !.pc = "check", !.slot = k, !.gen = RecoveryPhrase(k), !.words = w]]
  /\ UNCHANGED <<access, codes, issued, challenge, shown, kept, stopping>>

\* The challenge is the one of the kept phrase, and the words are those it asks of that phrase.
WordsMatch(r) ==
  LET mine == <<r.slot, r.gen>> IN
  /\ r.gen # 0 /\ challenge # None
  /\ challenge # None => challenge.phrase = mine /\ r.words = [phrase |-> mine, ask |-> challenge.ask]

RecordConfirmation(f, a) == [f EXCEPT !.last = a, !.confirmed = @ \cup {a}]

CheckWords(q) ==
  /\ page[q].pc = "check"
  /\ IF WordsMatch(page[q])
     THEN /\ appFile' = RecordConfirmation(appFile, <<page[q].slot, page[q].gen>>)
          /\ To(q, "clear") /\ UNCHANGED <<actionBy, stopping>>
     ELSE Answered(q) /\ actionBy' = None /\ stopping' = FALSE /\ UNCHANGED appFile
  /\ UNCHANGED <<access, codes, issued, challenge, phrase, gen, shown, typed, removed, filed, consentLeft>>

ClearChallenge(q) ==
  /\ page[q].pc = "clear"
  /\ challenge' = None
  /\ To(q, "forget")
  /\ UNCHANGED <<access, codes, issued, shown, typed, kept, actionBy, stopping, consentLeft>>

StillThatPhraseFault(r) == phrase[r.slot] # 0
\* The container removes the phrase file when it is still the one of that address.
StillThatPhrase(r) == phrase[r.slot] = r.gen

ForgetRecovery(q) ==
  /\ page[q].pc = "forget"
  /\ \/ /\ StillThatPhrase(page[q])
        /\ removed' = removed \cup {<<page[q].slot, phrase[page[q].slot]>>}
        /\ phrase' = [phrase EXCEPT ![page[q].slot] = 0]
        /\ UNCHANGED consentLeft
     \/ ~StillThatPhrase(page[q]) /\ UNCHANGED <<removed, phrase, consentLeft>>
     \/ HasC("exec") /\ TakeC("exec") /\ UNCHANGED <<removed, phrase>>
  /\ Answered(q) /\ actionBy' = None /\ stopping' = FALSE
  /\ UNCHANGED <<access, codes, issued, challenge, gen, shown, typed, appFile, filed>>

\* The identity of a slot gets another key, with a phrase of its own (outside the application).
NewKey(k) ==
  /\ HasC("key") /\ TakeC("key")
  /\ gen' = [gen EXCEPT ![k] = @ + 1]
  /\ phrase' = [phrase EXCEPT ![k] = gen[k] + 1]
  /\ UNCHANGED <<access, codes, issued, challenge, shown, typed, removed, appFile, actionBy, stopping, filed, page>>

-----------------------------------------------------------------------------
(* The payout address                                                      *)

\* The action lock is held; the code is tried once the rest of the request is valid.
AskPayout(q, t, v) ==
  /\ access.sessions > 0 /\ page[q].pc = "idle" /\ actionBy = None /\ codes["payout"] # None
  /\ AfterTry("payout", v, t)
  /\ IF SpendCode("payout", v, t)
     THEN /\ page' = [page EXCEPT ![q] = [IdlePage EXCEPT !.pc = "declare", !.addr = t.addr, !.slots = t.slots,
                                                          !.todo = t.slots]]
          /\ actionBy' = q
     ELSE UNCHANGED <<page, actionBy>>
  /\ UNCHANGED <<access, challenge, shown, typed, kept, stopping, consentLeft>>

\* The next identity declares; after a Stop nothing more is sent, and one being sent may or may not be filed.
Declare(q) ==
  /\ page[q].pc = "declare" /\ page[q].todo # {}
  /\ LET k == CHOOSE x \in page[q].todo : \A y \in page[q].todo : x <= y
         next(bad) == page' = [page EXCEPT ![q].todo = @ \ {k}, ![q].failed = @ \/ bad]
     IN \/ stopping /\ next(TRUE) /\ UNCHANGED <<filed, consentLeft>>
        \/ /\ ~stopping /\ filed' = [filed EXCEPT ![k] = page[q].addr]
           /\ \/ next(FALSE) /\ UNCHANGED consentLeft
              \/ HasC("exec") /\ TakeC("exec") /\ next(TRUE)
        \/ ~stopping /\ HasC("exec") /\ TakeC("exec") /\ next(TRUE) /\ UNCHANGED filed
  /\ UNCHANGED <<access, codes, issued, challenge, phrase, gen, shown, typed, removed, appFile, actionBy, stopping>>

\* The address is kept in the settings when every identity's declaration was accepted.
PayoutSaved(r, f) == IF r.failed THEN f ELSE [f EXCEPT !.payout = r.addr]

PayoutDone(q) ==
  /\ page[q].pc = "declare" /\ page[q].todo = {}
  /\ appFile' = PayoutSaved(page[q], appFile)
  /\ Answered(q) /\ actionBy' = None /\ stopping' = FALSE
  /\ UNCHANGED <<access, codes, issued, challenge, phrase, gen, shown, typed, removed, filed, consentLeft>>

\* Stop is asked while an action runs.
StopAsked ==
  /\ actionBy # None /\ ~stopping /\ HasC("stop")
  /\ TakeC("stop") /\ stopping' = TRUE
  /\ UNCHANGED <<access, codes, issued, challenge, shown, typed, kept, actionBy, page>>

-----------------------------------------------------------------------------

Init ==
  /\ consentLeft \in ConsentProfiles
  /\ access = [once |-> TRUE, sessions |-> 0]
  /\ codes = [p \in Purposes |-> None]
  /\ issued = <<>> /\ challenge = None
  /\ gen = [k \in ConsentSlots |-> 1] /\ phrase = gen
  /\ shown = {} /\ typed = {} /\ removed = {}
  /\ appFile = [last |-> None, confirmed |-> {}, payout |-> None]
  /\ actionBy = None /\ stopping = FALSE
  /\ filed = [k \in ConsentSlots |-> None]
  /\ page = [q \in Pages |-> IdlePage]

Next ==
  \/ Handoff \/ ForgetAccess \/ Relaunch \/ StopAsked
  \/ \E p \in Purposes : CodeExpires(p) \/ \E t \in Targets[p] \cap consentLeft.targets : AskCode(p, t)
  \/ \E k \in ConsentSlots : NewKey(k)
  \/ \E q \in Pages :
       \/ ShowPhrase(q) \/ CheckWords(q) \/ ClearChallenge(q) \/ ForgetRecovery(q) \/ Declare(q) \/ PayoutDone(q)
       \/ \E k \in ConsentSlots : (\E v \in 0..Len(issued) : AskPhrase(q, k, v)) \/ (\E w \in shown : SendWords(q, k, w))
       \/ \E t \in Targets["payout"] \cap consentLeft.targets, v \in 0..Len(issued) : AskPayout(q, t, v)

Spec == Init /\ [][Next]_consentvars

-----------------------------------------------------------------------------
(* Properties                                                              *)

\* Types; one session per launch's token, and a code that waits has tries left.
TypeOK ==
  /\ access.once \in BOOLEAN /\ access.sessions \in 0..1
  /\ \A p \in Purposes : codes[p] # None => codes[p].value \in 1..Len(issued) /\ codes[p].tries < CodeTries
  /\ \A k \in ConsentSlots : phrase[k] \in {0, gen[k]}
  /\ \A q \in Pages : page[q].pc \in {"check", "clear", "forget", "declare"} => actionBy = q
  /\ appFile.last # None => appFile.last \in appFile.confirmed

\* A printed code confirms the change it was printed for, once, and is tried wrongly at most CODE_TRIES times,
\* whatever is asked with it in between, for the other purpose or by a request racing with the first.
CodeConfirmsItsTarget ==
  \A i \in 1..Len(issued) :
    /\ issued[i].guesses <= CodeTries
    /\ issued[i].uses = <<>> \/ issued[i].uses = <<issued[i].target>>

\* The programme records an address for an identity only after the owner used a code printed for that address
\* and that identity.
FiledWasConfirmed ==
  \A k \in ConsentSlots : filed[k] # None =>
    \E i \in 1..Len(issued) : issued[i].uses # <<>> /\ issued[i].target.addr = filed[k] /\ k \in issued[i].target.slots

\* The only copy of a phrase leaves the machine only when the words of that very phrase were typed back, although
\* the key may change, or another identity's phrase be shown, between the reading, the typing and the removal;
\* and its confirmation stays on record, whichever phrases are confirmed after it.
RemovedWasWrittenDown == \A x \in removed : x \in typed /\ x \in appFile.confirmed
=============================================================================

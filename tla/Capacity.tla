------------------------------ MODULE Capacity ------------------------------
(***************************************************************************)
(* The capacity registry (capacity_server.py) and the sender in a miner's  *)
(* container (capacity_sender.py).  Reports arrive late, twice or out of   *)
(* order; a signed one is filed under the identity its signature proves,   *)
(* an unsigned one under what it declares, and the season pays nothing to  *)
(* an identity without a fresh signed report.                              *)
(*                                                                         *)
(* Records carry their age in ticks, a tick being one cache period; ages   *)
(* stop counting past the last limit that tells them apart.  The rate      *)
(* window is shorter than the sender's sleep between two rounds.           *)
(***************************************************************************)
EXTENDS Integers, FiniteSets, FiniteSetsExt

CONSTANTS None, Ids,         \* identities; Me is the one whose sender runs
          Me, Declarations,  \* what an unsigned poster may declare: [machine, node, names]
          StaleAge, PurgeAge, RateIp, RateSigned, DeclaredMax, AnonymityMin,
          MaxSeq, MaxKit, Handlers, Readers, MaxReading, CapProfiles

VARIABLES ledger,    \* the chain: [op, seq]: operators by identity, Me's account sequence
          kit,       \* the kit Me's container runs
          registry,  \* the server's copy of the operators: [age, op]
          store,     \* the reports on disk, by key
          mail,      \* signed reports on the way or captured: [seq, kit]
          post,      \* handlers of POST
          sender,    \* [pc, rep, outcome, slept]
          rate,      \* allowances used in this window: [ip, signed]
          blockC,    \* the cached chain reading: [gen, measured, age, regAge]
          reader,    \* handlers of GET
          reading,   \* the handler that reads the chain, or None
          capLeft

capvars == <<ledger, kit, registry, store, mail, post, sender, rate, blockC, reader, reading, capLeft>>
servervars == <<registry, store, post, rate>>
getvars == <<blockC, reader, reading>>

Own == "own"
MaxAge == PurgeAge + 1
OldReading == 3
Older(n, top) == IF n < top THEN n + 1 ELSE top
Signed(m) == [ns |-> "signed", of |-> m]
Declared(d) == [ns |-> "decl", of |-> <<d.machine, d.node>>]
KeysC == {Signed(m) : m \in Ids} \cup {Declared(d) : d \in Declarations}
Held == {k \in KeysC : store[k] # None}
IsSigned(k) == k.ns = "signed"
HasC(f) == capLeft[f] > 0
TakeC(f) == capLeft' = [capLeft EXCEPT ![f] = @ - 1]

-----------------------------------------------------------------------------
(* The store                                                               *)

IsStale(rec) == rec.age > StaleAge

\* The key follows the proof: only a proven report reaches the signed namespace.
StorageKey(p) == IF p.proven THEN Signed(Me) ELSE Declared(p.decl)

RecordOf(p) == [age |-> 0, kit |-> p.rep.kit, seq |-> p.rep.seq,
                machine |-> p.decl.machine, node |-> p.decl.node, names |-> p.decl.names]

OlderThanStoredFault(prev, seq) == prev # None /\ (prev # None => ~IsStale(prev) /\ seq + 1 < prev.seq)
OlderThanStoredForever(prev, seq) == prev # None /\ (prev # None => seq < prev.seq)
\* A signed report older than the fresh one stored is refused; equal orders pass.
OlderThanStored(prev, seq) == prev # None /\ (prev # None => ~IsStale(prev) /\ seq < prev.seq)

\* The declared entries beyond the cap leave, the oldest first, the new one staying.
Oldest(s, ks) ==
  CHOOSE k \in ks : \A j \in ks : s[j].age < s[k].age \/ (s[j].age = s[k].age /\ k.of[1] <= j.of[1])
CapDeclaredFault(s, keep) ==
  LET all == {k \in KeysC : s[k] # None}
      victims == all \ {keep}
  IN IF Cardinality(all) <= DeclaredMax THEN s
     ELSE LET out == CHOOSE k \in victims : \A j \in victims : s[j].age <= s[k].age
          IN [s EXCEPT ![out] = None]
CapDeclaredLoose(s, keep) ==
  LET declared == {k \in KeysC : ~IsSigned(k) /\ s[k] # None}
  IN IF Cardinality(declared) <= DeclaredMax + 1 THEN s
     ELSE [s EXCEPT ![Oldest(s, declared \ {keep})] = None]
CapDeclared(s, keep) ==
  LET declared == {k \in KeysC : ~IsSigned(k) /\ s[k] # None}
  IN IF Cardinality(declared) <= DeclaredMax THEN s
     ELSE [s EXCEPT ![Oldest(s, declared \ {keep})] = None]

\* What a deposit leaves on disk: the new entry, what is not yet purged, within the cap.
Deposited(key, rec) ==
  LET new == [store EXCEPT ![key] = rec]
  IN CapDeclared([k \in KeysC |-> IF new[k] # None /\ (new[k] # None => new[k].age > PurgeAge)
                                  THEN None ELSE new[k]], key)

-----------------------------------------------------------------------------
(* The public document                                                     *)

\* Whether report a stands for report b: of the same machine, under its name or among its ids.
StandsFor(a, ids, b) == a.machine = b.machine /\ (a.node = b.node \/ ids \cap b.names # {})

FoldedKeysFault(s) ==
  {k \in KeysC : s[k] # None /\ \E h \in KeysC \ {k} : s[h] # None /\ (s[h] # None => StandsFor(s[h], {}, s[k]))}
\* Declared entries that a signed report of the same machine stands for.
FoldedKeys(s) ==
  {k \in KeysC : ~IsSigned(k) /\ s[k] # None /\
     \E m \in Ids : s[Signed(m)] # None /\
                  (s[Signed(m)] # None => StandsFor(s[Signed(m)], {m}, s[k]))}

\* The entries counted as live in the declared totals.
LiveRows == {k \in Held \ FoldedKeys(store) : ~IsStale(store[k])}

ReportClass(rec) == [kit |-> rec.kit, stale |-> IsStale(rec)]
RowsOf(cls) == {m \in Ids : /\ registry.op[m] # None /\ store[Signed(m)] # None
                            /\ store[Signed(m)] # None => ReportClass(store[Signed(m)]) = cls}
Classes == [kit : 0 .. MaxKit, stale : BOOLEAN]
SizeOf(cls) == Cardinality(RowsOf(cls))
Before(c, d) == SizeOf(c) < SizeOf(d) \/ (SizeOf(c) = SizeOf(d) /\
                  (c.kit < d.kit \/ (c.kit = d.kit /\ ~c.stale /\ d.stale)))
MinerClassesFault == {cls \in Classes : SizeOf(cls) >= AnonymityMin}
\* The classes the miner route may publish: large enough, and the smallest of them
\* joining the withheld rows until those are none or enough.
MinerClasses ==
  LET large == {cls \in Classes : SizeOf(cls) >= AnonymityMin}
      withheld(pub) == Cardinality(UNION {RowsOf(c) : c \in Classes \ pub})
      upto(d) == {c \in large : c = d \/ Before(c, d)}
      enough(pub) == withheld(pub) = 0 \/ withheld(pub) >= AnonymityMin
  IN IF enough(large) THEN large
     ELSE large \ CHOOSE out \in {upto(d) : d \in large} \cup {large} :
            /\ enough(large \ out) \/ out = large
            /\ \A d \in large : enough(large \ upto(d)) => out \subseteq upto(d)
RegisteredRows == UNION {RowsOf(c) : c \in Classes}

-----------------------------------------------------------------------------
(* The sender                                                              *)

\* The sleep between two rounds is longer than the rate window.
Window ==
  /\ rate' = [ip |-> 0, signed |-> [s \in 0 .. MaxSeq |-> 0]]
  /\ sender' = [sender EXCEPT !.slept = sender.pc = "asleep" /\ capLeft.sends]
  /\ rate # rate' \/ sender # sender'
  /\ UNCHANGED <<ledger, kit, registry, store, mail, post, getvars, capLeft>>

\* What the chain says of the identity; a reading that fails is not an absence.
Registration(how) == IF how = "unread" THEN "unread" ELSE IF ledger.op[Me] = None THEN "absent"
                     ELSE IF ledger.op[Me] = Own THEN "registered" ELSE "other"

\* The host's inventory is read whole or the round stops.
ReadInventory(how) == how # "no-inventory"

\* One round up to the post: nothing is sent unless the inventory and the key are read,
\* the chain records this key as the identity's operator, and the body is signed.
Round ==
  /\ sender.pc = "asleep" /\ sender.slept /\ capLeft.sends
  /\ \E how \in {"ok"} \cup (IF HasC("round") THEN {"no-inventory", "unread", "unsigned"} ELSE {}) :
       /\ IF how = "ok" THEN UNCHANGED capLeft ELSE TakeC("round")
       /\ IF ReadInventory(how) /\ Registration(how) = "registered" /\ how # "unsigned"
          THEN LET r == [seq |-> ledger.seq, kit |-> kit]
               IN /\ sender' = [sender EXCEPT !.pc = "wait", !.rep = r, !.slept = FALSE]
                  /\ mail' = mail \cup {r}
          ELSE /\ sender' = [sender EXCEPT !.slept = FALSE, !.outcome =
                               IF ~ReadInventory(how) \/ Registration(how) = "registered" THEN how
                               ELSE Registration(how)]
               /\ UNCHANGED mail
  /\ UNCHANGED <<ledger, kit, servervars, getvars>>

\* The registry did not answer in time; the report may still be filed.
GiveUp ==
  /\ sender.pc = "wait" /\ HasC("late")
  /\ TakeC("late")
  /\ sender' = [sender EXCEPT !.pc = "asleep", !.outcome = "unreachable"]
  /\ UNCHANGED <<ledger, kit, mail, servervars, getvars>>

\* The answer of handler p, read by the sender when it still waits for it.
Answered(p, code) ==
  /\ post' = [post EXCEPT ![p] = None]
  /\ sender' = IF post[p].mine /\ sender.pc = "wait" /\ sender.rep = post[p].rep
               THEN [sender EXCEPT !.pc = "asleep", !.outcome = code]
               ELSE sender

-----------------------------------------------------------------------------
(* POST                                                                    *)

Twin == CHOOSE d \in Declarations : Me \in d.names /\ d.machine = 1
PostOf(rep, decl, signed, mine) ==
  [pc |-> "prove", rep |-> rep, decl |-> decl, signed |-> signed, mine |-> mine, proven |-> FALSE]

\* A signed report arrives: the sender's, or one sent before and delivered again.
ReceiveSigned(p) ==
  /\ post[p] = None
  /\ \E r \in mail :
       LET mine == sender.pc = "wait" /\ sender.rep = r /\ \A q \in Handlers :
                     post[q] # None => ~(post[q].mine /\ post[q].rep = r)
       IN /\ mine \/ (HasC("again") /\ (r.seq < sender.rep.seq \/ HasC("equal")))
          /\ IF mine THEN UNCHANGED capLeft ELSE TakeC("again")
          /\ post' = [post EXCEPT ![p] = PostOf(r, Twin, TRUE, mine)]
  /\ UNCHANGED <<ledger, kit, registry, store, mail, sender, rate, getvars>>

\* An unsigned report is charged to its address before its body is read; a body that
\* cannot be read is refused.
ReceiveUnsigned(p) ==
  /\ post[p] = None /\ HasC("unsigned")
  /\ TakeC("unsigned")
  /\ IF rate.ip >= RateIp THEN UNCHANGED <<post, rate>>
     ELSE /\ rate' = [rate EXCEPT !.ip = @ + 1]
          /\ \E d \in Declarations \cup {None} :
               post' = IF d = None THEN post
                       ELSE [post EXCEPT ![p] = [PostOf([seq |-> 0, kit |-> 0], d, FALSE, FALSE)
                                                 EXCEPT !.pc = "file"]]
  /\ UNCHANGED <<ledger, kit, registry, store, mail, sender, getvars>>

\* The registry is read again when the copy is a period old; a failed reading keeps the
\* copy and its age.
RegistryRead(how) == IF registry.age = 0 THEN registry
                     ELSE IF how = "read" THEN [age |-> 0, op |-> ledger.op] ELSE registry
ReadFails == {"read"} \cup (IF HasC("rpc") /\ registry.age # 0 THEN {"failed"} ELSE {})

AllowanceFault(seq) == 0
\* The allowance a proven report draws from is the one of its own order.
Allowance(seq) == seq

\* The proof: the signature goes back to the operator the registry names.  A proven
\* report draws from its identity's allowance, another from its address's.
Prove(p) ==
  /\ post[p] # None /\ (post[p] # None => post[p].pc = "prove")
  /\ \E how \in ReadFails :
       LET reg == RegistryRead(how)
           proven == reg.op[Me] = Own
           s == Allowance(post[p].rep.seq)
           full == IF proven THEN rate.signed[s] >= RateSigned ELSE rate.ip >= RateIp
       IN /\ registry' = reg
          /\ IF how = "read" THEN UNCHANGED capLeft ELSE TakeC("rpc")
          /\ IF full THEN Answered(p, IF proven THEN "rate" ELSE "address") /\ UNCHANGED rate
             ELSE /\ post' = [post EXCEPT ![p].pc = "file", ![p].proven = proven]
                  /\ rate' = IF proven THEN [rate EXCEPT !.signed[s] = @ + 1]
                             ELSE [rate EXCEPT !.ip = @ + 1]
                  /\ UNCHANGED sender
  /\ UNCHANGED <<ledger, kit, store, mail, getvars>>

\* Under the lock: read the store, refuse a report older than the stored one, write.  A
\* store that cannot be read or written refuses the report and keeps what it held.
File(p) ==
  /\ post[p] # None /\ (post[p] # None => post[p].pc = "file")
  /\ \E how \in {"ok"} \cup (IF HasC("disk") THEN {"failed"} ELSE {}) :
       LET key == StorageKey(post[p])
       IN /\ IF how = "ok" THEN UNCHANGED capLeft ELSE TakeC("disk")
          /\ IF how # "ok" THEN Answered(p, "store") /\ UNCHANGED store
             ELSE IF post[p].proven /\ OlderThanStored(store[key], post[p].rep.seq)
             THEN Answered(p, "older") /\ UNCHANGED store
             ELSE Answered(p, "sent") /\ store' = Deposited(key, RecordOf(post[p]))
  /\ UNCHANGED <<ledger, kit, registry, mail, rate, getvars>>

-----------------------------------------------------------------------------
(* GET: the chain's counts                                                 *)

\* A request looks at the cached block, then, in a second look, at its time.
Look(g) ==
  /\ reader[g].pc = "idle" /\ HasC("get")
  /\ TakeC("get")
  /\ reader' = [reader EXCEPT ![g] = [pc |-> "looked", saw |-> blockC, now |-> blockC.age, got |-> None]]
  /\ UNCHANGED <<ledger, kit, servervars, mail, sender, blockC, reading>>

\* The age the second look computes: the time of a block written meanwhile is later than
\* the request's own clock.
SeenAge(g) == IF blockC.gen = reader[g].saw.gen THEN reader[g].now ELSE 0
Serve(g, b) == reader' = [reader EXCEPT ![g] = [@ EXCEPT !.pc = "idle", !.got = b]]
Unmeasured == [gen |-> 0, measured |-> FALSE, age |-> 0, regAge |-> 0]

\* A fresh block is served; otherwise one request reads the chain and the others are
\* served the previous block while it is recent.
Choose(g) ==
  /\ reader[g].pc = "looked"
  /\ IF reader[g].saw.gen > 0 /\ SeenAge(g) < 1
     THEN Serve(g, reader[g].saw) /\ UNCHANGED reading
     ELSE IF reading = None
     THEN reading' = g /\ reader' = [reader EXCEPT ![g].pc = "reading"]
     ELSE /\ Serve(g, IF reader[g].saw.gen > 0 /\ SeenAge(g) < 2 THEN reader[g].saw ELSE Unmeasured)
          /\ UNCHANGED reading
  /\ UNCHANGED <<ledger, kit, servervars, mail, sender, blockC, capLeft>>

FreshRegistryFault(reg) == TRUE
\* A count is published only while the last registry reading is at most two periods old.
FreshRegistry(reg) == reg.age <= 2

\* The proofs of the two windows are read to the end, or refused.
PresentIds(proofs) == proofs = "whole"

\* The reading: the registry, the node's height and window, the index and every proof
\* of the two windows, whole; or no count at all.
ReadOnchain(g) ==
  /\ reader[g].pc = "reading"
  /\ \E how \in ReadFails, proofs \in {"whole"} \cup (IF HasC("rpc") THEN {"cut"} ELSE {}) :
       LET reg == RegistryRead(how)
           b == [gen |-> blockC.gen + 1, age |-> 0, regAge |-> reg.age,
                 measured |-> FreshRegistry(reg) /\ PresentIds(proofs)]
       IN /\ blockC.gen < MaxReading
          /\ registry' = reg
          /\ blockC' = b
          /\ reader' = [reader EXCEPT ![g] = [pc |-> "idle", saw |-> b, now |-> 0, got |-> b]]
          /\ IF how = "read" /\ proofs = "whole" THEN UNCHANGED capLeft ELSE TakeC("rpc")
  /\ reading' = None
  /\ UNCHANGED <<ledger, kit, store, mail, post, sender, rate>>

-----------------------------------------------------------------------------
(* The world                                                               *)

\* Time passes.
Tick ==
  /\ HasC("tick") \/ capLeft.forever
  /\ IF capLeft.forever THEN UNCHANGED capLeft ELSE TakeC("tick")
  /\ store' = [k \in KeysC |-> IF store[k] = None THEN None
                               ELSE [store[k] EXCEPT !.age = Older(@, MaxAge)]]
  /\ registry' = [registry EXCEPT !.age = Older(@, OldReading)]
  /\ blockC' = [blockC EXCEPT !.age = Older(@, OldReading)]
  /\ store # store' \/ registry # registry' \/ blockC # blockC'
  /\ UNCHANGED <<ledger, kit, mail, post, sender, rate, reader, reading>>

\* The chain registers the identity, gives it another operator, or counts a transaction of
\* the operator's account; the container is upgraded; the chain starts again from zero.
World ==
  \/ /\ ledger.op[Me] = None
     /\ ledger' = [ledger EXCEPT !.op[Me] = Own] /\ UNCHANGED <<kit, capLeft>>
  \/ /\ HasC("operator") /\ ledger.op[Me] = Own
     /\ TakeC("operator")
     /\ ledger' = [ledger EXCEPT !.op[Me] = "other"] /\ UNCHANGED kit
  \/ /\ ledger.seq < MaxSeq /\ HasC("tx")
     /\ TakeC("tx")
     /\ ledger' = [ledger EXCEPT !.seq = @ + 1] /\ UNCHANGED kit
  \/ /\ kit < MaxKit /\ HasC("kit")
     /\ TakeC("kit")
     /\ kit' = kit + 1 /\ UNCHANGED ledger
  \/ /\ HasC("reset")
     /\ TakeC("reset")
     /\ ledger' = [ledger EXCEPT !.seq = 0] /\ UNCHANGED kit
Outside == World /\ UNCHANGED <<servervars, mail, sender, getvars>>

-----------------------------------------------------------------------------

Init ==
  \E prof \in CapProfiles :
    /\ capLeft = prof.left
    /\ ledger = [op |-> [m \in Ids |-> IF m = Me THEN None ELSE "other"], seq |-> 0]
    /\ kit = 1
    /\ registry = [age |-> OldReading, op |-> [m \in Ids |-> None]]
    /\ store \in {[k \in KeysC |-> IF k \in {Signed(m) : m \in DOMAIN f} THEN f[k.of] ELSE None] : f \in prof.found}
    /\ mail = {} /\ post = [p \in Handlers |-> None]
    /\ sender = [pc |-> "asleep", rep |-> None, outcome |-> None, slept |-> FALSE]
    /\ rate = [ip |-> 0, signed |-> [s \in 0 .. MaxSeq |-> 0]]
    /\ blockC = Unmeasured
    /\ reader = [g \in Readers |-> [pc |-> "idle", saw |-> Unmeasured, now |-> 0, got |-> None]]
    /\ reading = None

Next ==
  \/ Window \/ Round \/ GiveUp \/ Tick \/ Outside
  \/ \E p \in Handlers : ReceiveSigned(p) \/ ReceiveUnsigned(p) \/ Prove(p) \/ File(p)
  \/ \E g \in Readers : Look(g) \/ Choose(g) \/ ReadOnchain(g)

Spec == Init /\ [][Next]_capvars

\* The sender's loop and the server's threads run; time passes; the miner registers.
Registers == Outside /\ ledger.op[Me] = None
ReceivesMine(p) == ReceiveSigned(p) /\ sender.pc = "wait" /\ (post[p] = None => post'[p].mine)
Fair == /\ WF_capvars(Window) /\ WF_capvars(Round) /\ WF_capvars(Tick)
        /\ WF_capvars(Registers)
        /\ \A p \in Handlers : /\ WF_capvars(Prove(p)) /\ WF_capvars(File(p))
                               /\ SF_capvars(ReceivesMine(p))
FairSpec == Spec /\ Fair

-----------------------------------------------------------------------------
(* Properties                                                              *)

Reps == [seq : 0 .. MaxSeq, kit : 0 .. MaxKit]

\* Every variable keeps its shape, and the declared entries stay within their cap
\* whatever was posted (capacity_server.py::cap_declared).
TypeOK ==
  /\ ledger.seq \in 0 .. MaxSeq /\ kit \in 1 .. MaxKit
  /\ \A k \in Held : store[k].age \in 0 .. MaxAge /\ store[k].seq \in 0 .. MaxSeq
  /\ mail \subseteq Reps
  /\ sender.outcome \in {None, "sent", "no-inventory", "unsigned", "unread", "absent", "other", "unreachable", "older", "rate",
                         "address", "store"}
  /\ rate.ip \in 0 .. RateIp /\ \A s \in 0 .. MaxSeq : rate.signed[s] \in 0 .. RateSigned
  /\ Cardinality({k \in Held : ~IsSigned(k)}) <= DeclaredMax
  /\ reading # None => reader[reading].pc = "reading"

\* While the stored report of an identity counts as live, no late, repeated or reordered
\* delivery replaces it by one signed earlier (capacity_server.py::older_than_stored,
\* evaluated under the lock by do_POST).
NoRollback ==
  \A m \in Ids : LET old == store[Signed(m)] new == store'[Signed(m)]
                 IN old # None /\ (old # None => ~IsStale(old)) =>
                      new # None /\ (new # None => new.seq >= old.seq)

\* NoRollback, of every step.
NeverRolledBack == [][NoRollback]_capvars

\* No amount of unsigned reports, late deliveries or full tables takes a signed report out
\* of the store before its purge age, nor changes which key signed it: what is listed as
\* verified was signed by an operator of that identity
\* (capacity_server.py::storage_key, cap_declared).
SignedKept ==
  \A m \in Ids : LET old == store[Signed(m)] new == store'[Signed(m)]
                 IN /\ old # None /\ (old # None => old.age <= PurgeAge) => new # None
                    /\ new # None /\ (new # None => new.age = 0 /\ new # old) =>
                         \E p \in Handlers : post[p] # None /\ post[p].proven

\* SignedKept, of every step.
SignedStays == [][SignedKept]_capvars

\* A machine is counted once, under its signed report, which no unsigned deposit hides:
\* whatever was posted about it, in whatever order, a fresh signed report is in the totals and
\* no unsigned one that it stands for is beside it (capacity_server.py::declared_folded_keys,
\* aggregate).
MachineCountedOnce ==
  \A m \in Ids : store[Signed(m)] # None =>
    /\ IsStale(store[Signed(m)]) \/ Signed(m) \in LiveRows
    /\ \A k \in LiveRows : ~IsSigned(k) => ~StandsFor(store[Signed(m)], {m}, store[k])

\* A captured older report posted again and again, or any number of unsigned ones, never
\* uses up the allowance of the sender's own report (capacity_server.py::do_POST, the
\* allowance per identity and order).  A report whose proof fails, because the copy of the
\* registry does not show its operator yet or the chain cannot be read, has no allowance
\* of its own and is charged to its address: that one may be refused ("address").
NotStarved == ~HasC("equal") => sender.outcome # "rate"

\* What do_POST says: "no amount of unsigned traffic can use up the allowance of a signed
\* report".  Violated while the registry cannot be read, or is older than the registration:
\* the signed report of a registered identity is then charged to its address, which the
\* unsigned ones have used up.
SignedNeverStarved == sender.outcome \notin {"rate", "address"}

\* The miner route never singles a machine out: when registered rows exist, every answer it
\* gives is shared by at least the anonymity floor of them, the withheld answer included
\* (capacity_server.py::miner_classes).
NobodySingledOut ==
  Cardinality(RegisteredRows) >= AnonymityMin =>
    LET pub == MinerClasses
        hidden == UNION {RowsOf(c) : c \in Classes \ pub}
    IN /\ \A c \in pub : SizeOf(c) >= AnonymityMin
       /\ hidden = {} \/ Cardinality(hidden) >= AnonymityMin

\* A count of registered and present miners is never built from a registry copy kept
\* through an outage longer than two cache periods (capacity_server.py::_fresh_registry,
\* _read_onchain).
CountFromFreshRegistry == \A g \in Readers : reader[g].got # None =>
                            (reader[g].got.measured => reader[g].got.regAge <= 2)

Registered == ledger.op[Me] = Own
ReportLive == store[Signed(Me)] # None /\ (store[Signed(Me)] # None => ~IsStale(store[Signed(Me)]))

\* While the identity stays registered under its key, its signed report is on file and
\* live again and again (capacity_sender.py::run_forever).
ReportFiled == <>[]Registered => []<>ReportLive
=============================================================================

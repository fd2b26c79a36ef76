------------------------------- MODULE Faucet -------------------------------
(***************************************************************************)
(* The faucet (faucet.py): a drip is authorised and recorded on disk       *)
(* before it is sent, sends go one at a time and wait for inclusion, and a *)
(* drip that failed gives back the address's cooldown.  Requesters (the    *)
(* miner daemon and gateway_fund.py) honour the proof of work and retry    *)
(* once when the faucet asks for it.                                       *)
(*                                                                         *)
(* Time is counted in ticks; Cooldown and DayLen are lengths of time.      *)
(* Requests are numbered in the order they start.                          *)
(***************************************************************************)
EXTENDS Integers, FiniteSets

CONSTANTS None, Asks, Addrs, Ips, Cooldown, DayLen, IpDaily, DailyCap, MaxClock, FaucetProfiles

VARIABLES clock,
          caps,     \* the anti-abuse state in memory: [last, hits]
          capsFile, \* the state on disk, [ok, last, hits]
          ask,      \* requests, from the probe to the answer
          bank,     \* the transfers the chain holds or may still include
          drips,    \* every drip authorised: [r, addr, ip, at]
          rules,    \* [pow, floor, from]: what the operator armed, and who asks
          faucetLeft

faucetvars == <<clock, caps, capsFile, ask, bank, drips, rules, faucetLeft>>

Kits == {"none", "bad", "old", "current"}
NewAsk == [pc |-> "new", addr |-> None, ip |-> None, kit |-> "none", nonce |-> FALSE,
           tried |-> FALSE, at |-> 0, http |-> 0, why |-> None]
At(r, pc) == ask[r].pc = pc
Has(f) == faucetLeft[f] > 0
Take(f) == faucetLeft' = [faucetLeft EXCEPT ![f] = @ - 1]

-----------------------------------------------------------------------------
(* The caps                                                                *)

\* An entry leaves the state once it is older than its window.
Pruned(c) == [last |-> [a \in Addrs |-> IF c.last[a] # None /\ (c.last[a] # None => clock - c.last[a] < Cooldown)
                                        THEN c.last[a] ELSE None],
              hits |-> {h \in c.hits : clock - h.at < DayLen}]
SavedStateFault(c) == [ok |-> TRUE, last |-> [a \in Addrs |-> None], hits |-> Pruned(c).hits]
SavedState(c) == [ok |-> TRUE, last |-> Pruned(c).last, hits |-> Pruned(c).hits]

\* The first cap reached, the most specific first.
CapReached(a, ip) ==
  LET p == Pruned(caps) IN
  IF p.last[a] # None THEN "cooldown"
  ELSE IF Cardinality({h \in p.hits : h.ip = ip}) >= IpDaily THEN "ip"
  ELSE IF Cardinality(p.hits) >= DailyCap THEN "global" ELSE None

Granted(r) == [last |-> [caps.last EXCEPT ![ask[r].addr] = clock],
               hits |-> caps.hits \cup {[r |-> r, n |-> 0, ip |-> ask[r].ip, at |-> clock]}]

\* Only the address's cooldown stands for a payout; the quotas stand for work done.
Refunded(a) == [caps EXCEPT !.last[a] = None]

LoadedStateFault(f) == IF f.ok THEN Pruned([last |-> f.last, hits |-> f.hits])
                       ELSE [last |-> [a \in Addrs |-> None], hits |-> {}]
\* A state file that cannot be read counts as the day's cap reached.
LoadedState(f) ==
  IF f.ok THEN Pruned([last |-> f.last, hits |-> f.hits])
  ELSE [last |-> [a \in Addrs |-> None],
        hits |-> {[r |-> None, n |-> i, ip |-> None, at |-> clock] : i \in 1 .. DailyCap}]

-----------------------------------------------------------------------------
(* A request                                                               *)

\* The requester reads the difficulty and solves the proof bound to its address;
\* an unread difficulty is asked for without a proof, once.
Probe(r) ==
  /\ At(r, "new") /\ \A s \in Asks : s < r => ~At(s, "new")
  /\ \E <<a, ip>> \in rules.from, kit \in IF rules.floor THEN Kits ELSE {"none"},
        how \in {"read"} \cup (IF Has("probe") THEN {"unread", "unsolved"} ELSE {}) :
       /\ ask' = [ask EXCEPT ![r] = [@ EXCEPT
                    !.pc = IF how = "unsolved" /\ rules.pow THEN "done" ELSE "post",
                    !.addr = a, !.ip = ip, !.kit = kit, !.nonce = rules.pow /\ how = "read"]]
       /\ IF how = "read" THEN UNCHANGED faucetLeft ELSE Take("probe")
  /\ UNCHANGED <<clock, caps, capsFile, bank, drips, rules>>

\* The retry a refusal that names the difficulty gets.
Solve(r) ==
  /\ At(r, "refused")
  /\ \E solved \in {TRUE} \cup (IF Has("probe") THEN {FALSE} ELSE {}) :
       /\ ask' = [ask EXCEPT ![r] = [@ EXCEPT !.pc = IF solved THEN "post" ELSE "done",
                                              !.nonce = solved, !.tried = TRUE, !.http = 0]]
       /\ IF solved THEN UNCHANGED faucetLeft ELSE Take("probe")
  /\ UNCHANGED <<clock, caps, capsFile, bank, drips, rules>>

\* do_POST before the accounting: the kit floor, the proof of work, the amount.
Refused(r) ==
  IF rules.floor /\ ask[r].kit = "bad" THEN 400
  ELSE IF rules.floor /\ ask[r].kit = "old" THEN 403
  ELSE IF rules.pow /\ ~ask[r].nonce THEN 400 ELSE 0
NamesPow(r) == ~(rules.floor /\ ask[r].kit = "bad") /\ ~ask[r].nonce

\* The amount comes from the setting, from the value last read or from the chain;
\* a query that fails, or a min_stake of zero, leaves it unknown.
AmountReads == {"ok"} \cup (IF Has("chain") THEN {"no_amount"} ELSE {})

\* do_POST up to the transfer.  The amount is read before any quota is spent; an
\* authorisation that is not on disk is taken back.
Post(r) ==
  /\ At(r, "post")
  /\ \E how \in AmountReads \cup (IF Has("disk") THEN {"unsaved"} ELSE {}) :
       LET code == IF Refused(r) # 0 THEN Refused(r)
                   ELSE IF how = "no_amount" THEN 503
                   ELSE IF CapReached(ask[r].addr, ask[r].ip) # None THEN 429
                   ELSE IF how = "unsaved" THEN 503 ELSE 0
           c == [last |-> caps.last, hits |-> Pruned(caps).hits]
       IN /\ how # "ok" => code = 503
          /\ IF how = "no_amount" THEN Take("chain")
             ELSE IF how = "unsaved" THEN Take("disk") ELSE UNCHANGED faucetLeft
          /\ IF code # 0
             THEN /\ ask' = [ask EXCEPT ![r] = [@ EXCEPT !.http = code,
                               !.pc = IF code = 400 /\ NamesPow(r) /\ ~ask[r].tried THEN "refused" ELSE "done"]]
                  /\ UNCHANGED <<caps, capsFile, drips>>
             ELSE /\ ask' = [ask EXCEPT ![r] = [@ EXCEPT !.pc = "granted", !.at = clock]]
                  /\ caps' = Granted(r) /\ capsFile' = SavedState(Granted(r))
                  /\ drips' = drips \cup {[r |-> r, addr |-> ask[r].addr, ip |-> ask[r].ip, at |-> clock]}
  /\ UNCHANGED <<clock, bank, rules>>

GivenUp(r, why) == [ask EXCEPT ![r].pc = "failed", ![r].why = why]

BroadcastFault(r) ==
  /\ At(r, "granted")
  /\ bank' = [bank EXCEPT ![r] = "pending"] /\ ask' = [ask EXCEPT ![r].pc = "sent"]
  /\ UNCHANGED <<clock, caps, capsFile, drips, rules, faucetLeft>>

\* fund takes the lock and broadcasts: the transfer is sent, is not, or went without
\* the answer that says so (a command that ran out of time, an answer with no hash).
Broadcast(r) ==
  /\ At(r, "granted")
  /\ \A s \in Asks : ~At(s, "sent")
  /\ \E how \in {"sent"} \cup (IF Has("chain") THEN {"unsent", "unknown"} ELSE {}) :
       /\ IF how = "sent" THEN UNCHANGED faucetLeft ELSE Take("chain")
       /\ bank' = IF how = "unsent" THEN bank ELSE [bank EXCEPT ![r] = "pending"]
       /\ ask' = IF how = "sent" THEN [ask EXCEPT ![r].pc = "sent"] ELSE GivenUp(r, how)
  /\ UNCHANGED <<clock, caps, capsFile, drips, rules>>

\* The wait for inclusion: read as included, refused by the chain, or given up;
\* a transfer given up may still be included.
WaitTx(r) ==
  /\ At(r, "sent")
  /\ \/ bank[r] = "included" /\ ask' = [ask EXCEPT ![r].pc = "done", ![r].http = 200]
        /\ UNCHANGED <<bank, faucetLeft>>
     \/ bank[r] = "pending" /\ Has("refuse") /\ Take("refuse")
        /\ bank' = [bank EXCEPT ![r] = "rejected"] /\ ask' = GivenUp(r, "refused")
     \/ Has("slow") /\ Take("slow") /\ ask' = GivenUp(r, "unknown") /\ UNCHANGED bank
  /\ UNCHANGED <<clock, caps, capsFile, drips, rules>>

Include(r) ==
  /\ bank[r] = "pending"
  /\ bank' = [bank EXCEPT ![r] = "included"]
  /\ UNCHANGED <<clock, caps, capsFile, ask, drips, rules, faucetLeft>>

\* The cooldown given back; a save that fails keeps it in memory only.
Refund(r) ==
  /\ At(r, "failed")
  /\ caps' = Refunded(ask[r].addr)
  /\ \E ok \in {TRUE} \cup (IF Has("disk") THEN {FALSE} ELSE {}) :
       /\ IF ok THEN UNCHANGED faucetLeft ELSE Take("disk")
       /\ capsFile' = IF ok THEN SavedState(caps') ELSE capsFile
  /\ ask' = [ask EXCEPT ![r].pc = "done", ![r].http = 502]
  /\ UNCHANGED <<clock, bank, drips, rules>>

\* The process stops with its requests; the next one reads the state file.
FaucetRestart ==
  /\ Has("crash")
  /\ \E lost \in IF Has("corrupt") THEN BOOLEAN ELSE {FALSE} :
       /\ faucetLeft' = [faucetLeft EXCEPT !.crash = @ - 1, !.corrupt = IF lost THEN @ - 1 ELSE @]
       /\ capsFile' = [capsFile EXCEPT !.ok = @ /\ ~lost]
  /\ caps' = LoadedState(capsFile')
  /\ ask' = [r \in Asks |-> IF ask[r].pc = "new" THEN ask[r] ELSE [ask[r] EXCEPT !.pc = "done"]]
  /\ UNCHANGED <<clock, bank, drips, rules>>

\* A request is answered within its cooldown: the wait for inclusion is bounded.
FaucetTick ==
  /\ clock < MaxClock
  /\ \A r \in Asks : ask[r].pc \in {"granted", "sent", "failed"} => clock + 1 < ask[r].at + Cooldown
  /\ clock' = clock + 1
  /\ UNCHANGED <<caps, capsFile, ask, bank, drips, rules, faucetLeft>>

Init ==
  /\ \E q \in FaucetProfiles : rules = q.rules /\ faucetLeft = q.left
  /\ clock = 0
  /\ caps = [last |-> [a \in Addrs |-> None], hits |-> {}]
  /\ capsFile = [ok |-> TRUE, last |-> [a \in Addrs |-> None], hits |-> {}]
  /\ ask = [r \in Asks |-> NewAsk] /\ bank = [r \in Asks |-> "none"] /\ drips = {}

Next == \/ \E r \in Asks : \/ Probe(r) \/ Solve(r) \/ Post(r) \/ Broadcast(r) \/ WaitTx(r)
                           \/ Include(r) \/ Refund(r)
        \/ FaucetRestart \/ FaucetTick
Spec == Init /\ [][Next]_faucetvars

-----------------------------------------------------------------------------
\* The shape of the state; one broadcast at a time holds the send lock (faucet.py).
TypeOK ==
  /\ clock \in 0 .. MaxClock
  /\ \A a \in Addrs : caps.last[a] \in {None} \cup 0 .. MaxClock
  /\ \A h \in caps.hits : h.ip \in Ips \cup {None} /\ h.at \in 0 .. MaxClock
  /\ \A r \in Asks : /\ bank[r] \in {"none", "pending", "included", "rejected"}
                     /\ ask[r].http \in {0, 200, 400, 403, 429, 502, 503}
                     /\ ask[r].http = 502 \/ At(r, "failed") => ask[r].why # None
  /\ Cardinality({r \in Asks : At(r, "sent")}) <= 1

\* Over any day, across restarts, failed saves and refunds, the drips that were
\* authorised stay within the daily cap and within the quota of their address's
\* IP (faucet.py, _rate_ok and _load_state).
CapsHold ==
  \A d \in drips :
    LET day == {e \in drips : e.at \in d.at .. d.at + DayLen - 1}
    IN /\ Cardinality(day) <= DailyCap
       /\ Cardinality({e \in day : e.ip = d.ip}) <= IpDaily

\* An address gets a second drip inside its cooldown only after the faucet gave up
\* one of the two, whatever restarts in between; and both are paid only if the one
\* given up was sent, and not seen in a block in time: never after a transfer that
\* was not sent or that the chain refused (_rate_refund).  The cooldown is at most a day,
\* as shipped: an unreadable state file closes the faucet for a day, and no longer.
DripOnce ==
  \A d, e \in drips :
    d.r # e.r /\ d.addr = e.addr /\ d.at <= e.at /\ e.at < d.at + Cooldown
      => \E r \in {d.r, e.r} :
           /\ ask[r].http = 502
           /\ bank[d.r] = "included" /\ bank[e.r] = "included" => ask[r].why = "unknown"

\* _rate_refund gives back the cooldown of "a drip that was authorised but never
\* paid", "and none happened".  Violated: the transfer of an answer 502 may land.
RefundedUnpaid == \A r \in Asks : ask[r].http = 502 => bank[r] # "included"
=============================================================================

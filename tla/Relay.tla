-------------------------------- MODULE Relay --------------------------------
(* The relay of services/relay.py: a threaded HTTP server that keeps sealed  *)
(* deposits in RAM and on disk (relay_store.py), decides who may write       *)
(* (modea/relay_write.py, registry_cache.py, job_registry.py), refuses a     *)
(* message it has already accepted (modea/relay_antireplay.py) and answers   *)
(* the work queue from a cache.                                              *)
(*                                                                           *)
(* One action is one critical section or one read of the chain: a request    *)
(* thread may be preempted between any two of them, and the process may      *)
(* crash at any moment. Bodies, keys and addresses are model values; a       *)
(* digest is the tuple of the fields relay_canon.py hashes.                  *)
EXTENDS Integers, Sequences, FiniteSets, SequencesExt, FiniteSetsExt

CONSTANTS
  Threads,         \* request threads of the ThreadingHTTPServer
  Kinds,           \* the kinds in use, among pub, req, res, reveal, attest
  RequestSets,     \* sets of deposits; one of them is sent (see RequestType)
  Miners, Addresses,
  Latecomers,      \* the miners not registered yet when the relay starts
  Nobody,          \* no address, no signature
  Operator,        \* miner -> the operator the chain records once it is registered
  Payer,           \* job -> the client the chain records
  Committee,       \* job -> the miners the chain assigned
  Price,           \* DENDRA_REQUEST_PRICE_UDNDR, 0 when unset
  Fee,             \* job -> the fee in escrow
  KitFloor,        \* the kit floor in force, 0 while dormant
  SignMode,        \* "off", "observe" or "enforce"
  Tokened,         \* TRUE iff DENDRA_RELAY_TOKEN is set
  Attested,        \* the miners _attest_ok accepts
  AttestRequire,
  Cost,            \* body -> the bytes charged for the entry
  KindBudget, Retention, RegistryExpiry, RegistryRetry,
  MaxTime, MaxRequests, MaxCrashes    \* bounds of the model

WriteOnceFault == {"req", "res"}
WriteOnce == {"req", "res", "reveal"}

(* A key is <<job, miner>>; a pub or an attest key names no job.             *)
NoJob == "-"
Keys == (DOMAIN Payer \cup {NoJob}) \X Miners

RequestType ==
  [kind : Kinds, key : Keys, body : DOMAIN Cost, miner : Miners,
   signer : Addresses \cup {Nobody}, height : Nat, kit : Nat, token : BOOLEAN]

(* What an entry is charged is a number of bytes (_cost, relay.py:786), the  *)
(* configured times and budgets are numbers, and deposits are of the types   *)
(* the handler takes from a request's path, body and headers.                *)
ASSUME RelayAssumption ==
  /\ \A S \in RequestSets : \A r \in S : r \in RequestType
  /\ \A b \in DOMAIN Cost : Cost[b] \in Nat
  /\ KindBudget \in Nat /\ Retention \in Nat /\ RegistryRetry \in Nat

VARIABLES
  offered,     \* the deposits that may arrive
  up,          \* the process serves
  now,         \* the host's clock
  store,       \* STORE and TS: kind -> entries in insertion order
  disk,        \* DiskStore: kind -> records in the order of their rank
  used,        \* USED: kind -> bytes charged
  version,     \* _STORE_VERSION
  listing,     \* _LIST_CACHE: [version, keys], version -1 when empty
  seen,        \* Antireplay._seen: accepted digests in insertion order, with their time
  high,        \* Antireplay._high: address -> highest accepted height, -1 for none
  registry,    \* RegistryCache: [ops, at], at -1 while NEVER_READ
  attempt,     \* _REG_ATTEMPT of the miner registry
  registered,  \* the chain: the miners it has registered
  closedJobs,  \* the chain: the jobs that no longer wait for their request
  thread,      \* thread -> the request it serves and how far it is
  sent,        \* number of requests received
  crashes,
  acked,       \* history: the entries a 200 acknowledged, over all processes
  accepted,    \* history: [dig, at] the replay guard accepted in this process
  refused      \* history: digests refused in this process before the guard

chain   == <<offered, registered, closedJobs>>
guard   == <<seen, high, accepted, refused>>
books   == <<store, used, version, listing>>
vars == <<offered, up, now, store, disk, used, version, listing, seen, high, registry, attempt,
          registered, closedJobs, thread, sent, crashes, acked, accepted, refused>>

Idle == [pc |-> "idle"]
Entry(k, b, t) == [key |-> k, body |-> b, ts |-> t]
KeysOf(s)      == {s[i].key : i \in DOMAIN s}
At(s, k)       == CHOOSE e \in Range(s) : e.key = k

(* The positions of I in ascending order, and the entries at those positions *)
(* in the order they had: an OrderedDict from which the others are popped.   *)
InOrder(I)     == CHOOSE f \in [1..Cardinality(I) -> I] : \A m, n \in DOMAIN f : m < n => f[m] < f[n]
Kept(s, I)     == [n \in 1..Cardinality(I) |-> s[InOrder(I)[n]]]
Only(s, ks)    == Kept(s, {i \in DOMAIN s : s[i].key \in ks})
Without(s, ks) == Kept(s, {i \in DOMAIN s : s[i].key \notin ks})
ReplaceFault(s, e) == Append(s, e)
Replace(s, e)  == Append(Without(s, {e.key}), e)      \* move_to_end, or a new key
SumCost(s)     == FoldSeq(LAMBDA e, n : Cost[e.body] + n, 0, s)
Digest(r)      == <<r.kind, r.key, r.body, r.miner, r.height>>

(* The queue: every kind named, with its keys.                              *)
Snapshot == [k \in Kinds |-> KeysOf(store[k])]

-----------------------------------------------------------------------------
(* The registry of miners                                                    *)

RegistryState ==
  IF registry.at = -1 THEN "NEVER_READ"
  ELSE IF now - registry.at <= RegistryExpiry THEN "FEES" ELSE "STALE"

(* _refresh_cache: a fresh copy is not read again unless a miner is unknown, *)
(* and never twice within RegistryRetry.                                     *)
MayRefresh(unknown_miner) ==
  /\ RegistryState # "FEES" \/ unknown_miner
  /\ now - attempt >= RegistryRetry

(* RegistryCache.refresh: a failed read, or one that names no miner, keeps   *)
(* the previous copy.                                                        *)
refresh ==
  /\ attempt' = now
  /\ \/ UNCHANGED registry
     \/ /\ registered # {}
        /\ registry' = [ops |-> [m \in Miners |-> IF m \in registered THEN Operator[m] ELSE Nobody],
                        at |-> now]

-----------------------------------------------------------------------------
(* Who may write                                                             *)

NamedByKey(r) == r.key[2]                  \* _miner_named_by_key

RoleOf(kind) == IF kind = "req" THEN "client" ELSE "operator"

(* _operator_authority and _client_authority: the address that must have     *)
(* signed, Nobody when it is unknown. The payer of a job never changes.      *)
Authority(r) ==
  IF RoleOf(r.kind) = "client" THEN Payer[r.key[1]] ELSE registry.ops[r.miner]

UnknownMiner(r) ==
  /\ RoleOf(r.kind) = "operator"
  /\ RegistryState # "NEVER_READ"
  /\ Authority(r) = Nobody

AttributedFault(r) ==
  /\ r.signer # Nobody
  /\ KitFloor > 0 /\ RoleOf(r.kind) = "operator" => r.kit >= KitFloor

(* relay_write._verdict up to the replay guard: the signature verifies, the  *)
(* registry names its key, and an operator's kit is not below the floor.     *)
Attributed(r) ==
  /\ Authority(r) # Nobody
  /\ r.signer = Authority(r)
  /\ KitFloor > 0 /\ RoleOf(r.kind) = "operator" => r.kit >= KitFloor

(* Handler._verify_write_request before any read: what is not signed, and a  *)
(* deposit whose key and header name two miners, goes no further.            *)
Verifiable(r) ==
  /\ SignMode # "off"
  /\ r.signer # Nobody
  /\ NamedByKey(r) = r.miner

(* Handler._request_refusal: NOT (open, paid, assigned, attested). `reads`   *)
(* says whether the gateway answered for the job and for its committee.      *)
RequestRefusal(r, reads) ==
  \/ Price = 0
  \/ ~reads
  \/ r.key[1] \in closedJobs
  \/ Fee[r.key[1]] < Price
  \/ r.key[2] \notin Committee[r.key[1]]
  \/ AttestRequire /\ r.key[2] \notin Attested

(* The token path of do_POST: under enforce it needs a configured token,     *)
(* except for req.                                                           *)
TokenFallback(r) ==
  IF SignMode = "enforce" /\ r.kind # "req"
  THEN Tokened /\ r.token
  ELSE Tokened => r.token

(* The authorisation of do_POST (401 otherwise), then the attestation gate   *)
(* on a request (403). It reads no shared state.                             *)
Authorised(r, writer) ==
  /\ writer # Nobody \/ TokenFallback(r)
  /\ AttestRequire /\ r.kind = "req" => r.key[2] \in Attested

-----------------------------------------------------------------------------
(* The replay guard                                                          *)

PurgedFault ==
  LET young == {i \in DOMAIN seen : seen[i].at > now - Retention}
  IN  IF young = {} THEN <<>> ELSE SubSeq(seen, Min(young), Len(seen))

(* Antireplay._purge: from the front, up to the first digest still young.    *)
Purged ==
  LET young == {i \in DOMAIN seen : seen[i].at >= now - Retention}
  IN  IF young = {} THEN <<>> ELSE SubSeq(seen, Min(young), Len(seen))

(* A dict keeps the place of a key that is assigned again.                   *)
Remember(s, d) ==
  IF \E i \in DOMAIN s : s[i].dig = d
  THEN [i \in DOMAIN s |-> IF s[i].dig = d THEN [s[i] EXCEPT !.at = now] ELSE s[i]]
  ELSE Append(s, [dig |-> d, at |-> now])

-----------------------------------------------------------------------------
Init ==
  /\ offered \in RequestSets
  /\ up = TRUE /\ now = 0
  /\ store = [k \in Kinds |-> <<>>] /\ disk = [k \in Kinds |-> <<>>]
  /\ used = [k \in Kinds |-> 0]
  /\ version = 0 /\ listing = [version |-> -1, keys |-> [k \in Kinds |-> {}]]
  /\ seen = <<>> /\ high = [a \in Addresses |-> -1]
  /\ registry = [ops |-> [m \in Miners |-> Nobody], at |-> -1]
  /\ attempt = -RegistryRetry
  /\ registered = Miners \ Latecomers /\ closedJobs = {}
  /\ thread = [t \in Threads |-> Idle]
  /\ sent = 0 /\ crashes = 0
  /\ acked = {} /\ accepted = {} /\ refused = {}

Step(t, pc)  == thread' = [thread EXCEPT ![t].pc = pc]
Finish(t)    == thread' = [thread EXCEPT ![t] = Idle]
Serving(t, pc) == up /\ thread[t].pc = pc
Req(t)       == thread[t].req

(* The verdict is reached: the deposit goes on, or the thread has answered.  *)
Decide(t, r, writer) ==
  thread' = [thread EXCEPT ![t] =
    IF Authorised(r, writer) THEN [pc |-> "evict", req |-> r, writer |-> writer] ELSE Idle]

(* do_POST up to the verification: the route's policy lets a signed kind     *)
(* through without the token.                                                *)
Receive(t, r) ==
  /\ Serving(t, "idle") /\ sent < MaxRequests /\ r \in offered
  /\ sent' = sent + 1
  /\ IF Verifiable(r)
     THEN thread' = [thread EXCEPT ![t] = [pc |-> "refresh", req |-> r, reread |-> FALSE, mark |-> -1]]
     ELSE Decide(t, r, Nobody)
  /\ UNCHANGED <<up, now, disk, registry, attempt, chain, crashes, acked, guard, books>>

(* The best-effort refresh before the verdict.                               *)
Refresh(t) ==
  /\ Serving(t, "refresh")
  /\ \/ MayRefresh(FALSE) /\ refresh
     \/ ~MayRefresh(FALSE) /\ UNCHANGED <<registry, attempt>>
  /\ Step(t, "attribute")
  /\ UNCHANGED <<up, now, disk, chain, sent, crashes, acked, guard, books>>

(* Attribution. An unknown miner earns one re-read of the registry and the   *)
(* same verdict again.                                                       *)
Attribute(t) ==
  LET r == Req(t) IN
  /\ Serving(t, "attribute")
  /\ \/ /\ UnknownMiner(r) /\ ~thread[t].reread /\ MayRefresh(TRUE)
        /\ refresh
        /\ thread' = [thread EXCEPT ![t].reread = TRUE]
        /\ UNCHANGED refused
     \/ /\ ~(UnknownMiner(r) /\ ~thread[t].reread /\ MayRefresh(TRUE))
        /\ IF Attributed(r)
           THEN Step(t, IF r.kind = "req" THEN "paid" ELSE "check") /\ UNCHANGED refused
           ELSE Decide(t, r, Nobody) /\ refused' = refused \cup {Digest(r)}
        /\ UNCHANGED <<registry, attempt>>
  /\ UNCHANGED <<up, now, disk, chain, sent, crashes, acked, seen, high, accepted, books>>

PaidFault(t) ==
  /\ Serving(t, "paid")
  /\ seen' = Remember(Purged, Digest(Req(t)))
  /\ \E reads \in BOOLEAN :
       IF RequestRefusal(Req(t), reads)
       THEN Decide(t, Req(t), Nobody) /\ refused' = refused \cup {Digest(Req(t))}
       ELSE Step(t, "check") /\ UNCHANGED refused
  /\ UNCHANGED <<up, now, disk, registry, attempt, chain, sent, crashes, acked, high,
                 accepted, books>>

(* PaidBeforeReplay: the checks of a signed request, before the digest is    *)
(* recorded.                                                                 *)
Paid(t) ==
  /\ Serving(t, "paid")
  /\ \E reads \in BOOLEAN :
       IF RequestRefusal(Req(t), reads)
       THEN Decide(t, Req(t), Nobody) /\ refused' = refused \cup {Digest(Req(t))}
       ELSE Step(t, "check") /\ UNCHANGED refused
  /\ UNCHANGED <<up, now, disk, registry, attempt, chain, sent, crashes, acked, seen, high,
                 accepted, books>>

(* Antireplay.verify, first half: purge, the exact digest, the high-water    *)
(* mark. The relay has no chain head, so the window is not read. No lock is  *)
(* held between this half and the next.                                      *)
CheckReplay(t) ==
  LET r == Req(t)
      known == \E i \in DOMAIN Purged : Purged[i].dig = Digest(r)
  IN
  /\ Serving(t, "check")
  /\ seen' = Purged
  /\ IF known \/ r.height < high[r.signer]
     THEN Decide(t, r, Nobody)
     ELSE thread' = [thread EXCEPT ![t].pc = "record", ![t].mark = high[r.signer]]
  /\ UNCHANGED <<up, now, disk, registry, attempt, chain, sent, crashes, acked, high,
                 accepted, refused, books>>

(* Antireplay.verify, second half: the write is recorded only if accepted;   *)
(* the height is compared with the mark read in the first half.              *)
RecordReplay(t) ==
  LET r == Req(t) IN
  /\ Serving(t, "record")
  /\ seen' = Remember(seen, Digest(r))
  /\ high' = [high EXCEPT ![r.signer] = IF r.height > thread[t].mark THEN r.height ELSE @]
  /\ accepted' = accepted \cup {[dig |-> Digest(r), at |-> now]}
  /\ Decide(t, r, r.signer)
  /\ UNCHANGED <<up, now, disk, registry, attempt, chain, sent, crashes, acked, refused, books>>

-----------------------------------------------------------------------------
(* _put                                                                      *)

(* The entries at the front that have outlived the retention.                *)
Old(s) ==
  LET young == {i \in DOMAIN s : now - s[i].ts <= Retention}
  IN  IF young = {} THEN KeysOf(s) ELSE KeysOf(SubSeq(s, 1, Min(young) - 1))

BumpFault(gone) == version

(* The version of the queue moves with every eviction, whatever the deposit  *)
(* becomes.                                                                  *)
Bump(gone) == version + (IF gone = {} THEN 0 ELSE 1)

(* (1) Eviction by age, under the lock; the clock is read once, before it.   *)
Evict(t) ==
  LET k == Req(t).kind
      gone == Old(store[k])
  IN
  /\ Serving(t, "evict")
  /\ store' = [store EXCEPT ![k] = Without(@, gone)]
  /\ used' = [used EXCEPT ![k] = @ - SumCost(Only(store[k], gone))]
  /\ version' = Bump(gone)
  /\ thread' = [thread EXCEPT ![t] =
       [pc |-> IF gone = {} THEN "write" ELSE "remove", req |-> Req(t), writer |-> @.writer,
        evicted |-> gone, clock |-> now]]
  /\ UNCHANGED <<up, now, disk, listing, registry, attempt, chain, sent, crashes, acked, guard>>

(* DISK.remove of the evicted keys, after the lock was released.             *)
RemoveEvicted(t) ==
  /\ Serving(t, "remove")
  /\ disk' = [disk EXCEPT ![Req(t).kind] = Without(@, thread[t].evicted)]
  /\ Step(t, "write")
  /\ UNCHANGED <<up, now, registry, attempt, chain, sent, crashes, acked, guard, books>>

Held(r)      == r.key \in KeysOf(store[r.kind])
HeldBody(r)  == At(store[r.kind], r.key).body
Sealed(r)    == r.kind \in WriteOnce /\ Held(r)
AfterFault(r) == used[r.kind] + Cost[r.body]
After(r)     == used[r.kind] - (IF Held(r) THEN Cost[HeldBody(r)] ELSE 0) + Cost[r.body]
OverBudgetFault(t) == used[Req(t).kind] > KindBudget
OverBudget(t) == After(Req(t)) > KindBudget /\ After(Req(t)) > used[Req(t).kind]
(* (2) Identical bytes on a sealed key: 200 and nothing changes; different   *)
(* bytes: 409. (3) Over the budget: 507.                                     *)
WriteUnchanged(t) ==
  LET r == Req(t) IN
  /\ Serving(t, "write")
  /\ \/ Sealed(r)
     \/ ~Sealed(r) /\ OverBudget(t)
  /\ Finish(t)
  /\ UNCHANGED <<up, now, disk, registry, attempt, chain, sent, crashes, acked, guard, books>>

(* The disk write fails: 503, nothing in RAM.                                *)
WriteFails(t) ==
  LET r == Req(t) IN
  /\ Serving(t, "write") /\ ~Sealed(r) /\ ~OverBudget(t)
  /\ Finish(t)
  /\ UNCHANGED <<up, now, disk, registry, attempt, chain, sent, crashes, acked, guard, books>>

(* Disk, then RAM, under one lock with the checks above; then 200.           *)
Write(t) ==
  LET r == Req(t)
      e == Entry(r.key, r.body, thread[t].clock)
  IN
  /\ Serving(t, "write") /\ ~Sealed(r) /\ ~OverBudget(t)
  /\ disk'  = [disk EXCEPT ![r.kind] = Replace(@, e)]
  /\ store' = [store EXCEPT ![r.kind] = Replace(@, e)]
  /\ used'  = [used EXCEPT ![r.kind] = After(r)]
  /\ version' = version + 1
  /\ acked' = acked \cup {[kind |-> r.kind, entry |-> e]}
  /\ Finish(t)
  /\ UNCHANGED <<up, now, listing, registry, attempt, chain, sent, crashes, guard>>

-----------------------------------------------------------------------------
(* GET /list: _list_answer                                                   *)

(* The keys and the version are copied under one lock; a hit changes nothing.*)
ListBuild(t) ==
  /\ Serving(t, "idle") /\ listing.version # version
  /\ thread' = [thread EXCEPT ![t] = [pc |-> "list", version |-> version, keys |-> Snapshot]]
  /\ UNCHANGED <<up, now, disk, registry, attempt, chain, sent, crashes, acked, guard, books>>

(* The body is filed unless the cache already holds a later one.             *)
ListFile(t) ==
  /\ Serving(t, "list")
  /\ listing' = IF listing.version < thread[t].version
                THEN [version |-> thread[t].version, keys |-> thread[t].keys] ELSE listing
  /\ Finish(t)
  /\ UNCHANGED <<up, now, disk, registry, attempt, chain, sent, crashes, acked, guard,
                 store, used, version>>

-----------------------------------------------------------------------------
(* The process, the clock and the chain                                      *)

(* What is in RAM is lost, the guard's memory and the registry included.     *)
Crash ==
  /\ up /\ crashes < MaxCrashes
  /\ up' = FALSE /\ crashes' = crashes + 1
  /\ store' = [k \in Kinds |-> <<>>] /\ used' = [k \in Kinds |-> 0]
  /\ listing' = [listing EXCEPT !.version = -1]
  /\ seen' = <<>> /\ high' = [a \in Addresses |-> -1]
  /\ registry' = [ops |-> [m \in Miners |-> Nobody], at |-> -1]
  /\ attempt' = now - RegistryRetry
  /\ thread' = [t \in Threads |-> Idle]
  /\ accepted' = {} /\ refused' = {}
  /\ UNCHANGED <<now, disk, version, chain, sent, acked>>

Expired(k) == {disk[k][i].key : i \in {i \in DOMAIN disk[k] : now - disk[k][i].ts > Retention}}

(* _boot_store: DiskStore.load drops what has aged, then RAM and the byte    *)
(* totals are rebuilt from the records.                                      *)
Boot ==
  /\ ~up /\ up' = TRUE
  /\ disk' = [k \in Kinds |-> Without(disk[k], Expired(k))]
  /\ store' = disk'
  /\ used' = [k \in Kinds |-> SumCost(disk'[k])]
  /\ version' = version + 1
  /\ UNCHANGED <<now, listing, registry, attempt, chain, thread, sent, crashes, acked, guard>>

Tick ==
  /\ now < MaxTime /\ now' = now + 1
  /\ UNCHANGED <<up, disk, registry, attempt, chain, thread, sent, crashes, acked, guard, books>>

Register(m) ==
  /\ m \notin registered /\ registered' = registered \cup {m}
  /\ UNCHANGED <<offered, up, now, disk, registry, attempt, closedJobs, thread, sent, crashes, acked,
                 guard, books>>

CloseJob(j) ==
  /\ \E r \in offered : r.kind = "req" /\ r.key[1] = j
  /\ j \notin closedJobs /\ closedJobs' = closedJobs \cup {j}
  /\ UNCHANGED <<offered, up, now, disk, registry, attempt, registered, thread, sent, crashes, acked,
                 guard, books>>

Next ==
  \/ \E t \in Threads, r \in UNION RequestSets : Receive(t, r)
  \/ \E t \in Threads :
       \/ Refresh(t) \/ Attribute(t) \/ Paid(t) \/ CheckReplay(t) \/ RecordReplay(t)
       \/ Evict(t) \/ RemoveEvicted(t)
       \/ WriteUnchanged(t) \/ WriteFails(t) \/ Write(t)
       \/ ListBuild(t) \/ ListFile(t)
  \/ Crash \/ Boot \/ Tick
  \/ \E m \in Miners : Register(m)
  \/ \E j \in DOMAIN Payer : CloseJob(j)

Spec == Init /\ [][Next]_vars

-----------------------------------------------------------------------------
(* Properties                                                                *)

EntryType(S) == \A k \in Kinds : \A i \in DOMAIN S[k] :
  S[k][i].key \in Keys /\ S[k][i].body \in DOMAIN Cost /\ S[k][i].ts \in 0..now

(* The tables of the relay: RAM, disk and replay guard hold deposits of the  *)
(* known kinds, dated no later than the clock, at most one per key.          *)
TypeOK ==
  /\ EntryType(store) /\ EntryType(disk)
  /\ \A k \in Kinds : Cardinality(KeysOf(store[k])) = Len(store[k])
  /\ \A k \in Kinds : Cardinality(KeysOf(disk[k])) = Len(disk[k])
  /\ \A a \in Addresses : high[a] \in {-1} \cup Nat
  /\ registry.at \in -1..now /\ offered \subseteq RequestType

(* A /list answer served from the cache is the queue as it is: whenever the  *)
(* cached version is the current one, the cached keys are the keys held,     *)
(* although the body is filed after the lock was released.                   *)
ListNeverStale == listing.version = version => listing.keys = Snapshot

(* The bytes charged are those of the entries held, through replacements,    *)
(* evictions, refusals and reloads.                                          *)
UsedIsCost == \A k \in Kinds : used[k] = SumCost(store[k])

(* A deposit never takes a kind past its budget, although the budget is      *)
(* checked in another critical section than the eviction; only a reload may  *)
(* find more on disk.                                                        *)
BudgetRespected ==
  [][up /\ up' => \A k \in Kinds : used'[k] > KindBudget => used'[k] <= used[k]]_vars

(* Evidence that has not outlived the retention stays in RAM, byte for byte, *)
(* as long as the process runs.                                              *)
EvidenceKept ==
  [][up /\ up' => \A k \in Kinds \cap {"req", "res", "reveal"} : \A i \in DOMAIN store[k] :
       now - store[k][i].ts <= Retention => store[k][i] \in Range(store'[k])]_vars

(* A message accepted less than the retention ago is still known to the      *)
(* guard: the purge and the concurrent re-insertions forget none early.      *)
GuardRemembers ==
  \A a \in accepted : now - a.at <= Retention => \E i \in DOMAIN seen : seen[i].dig = a.dig

(* A message refused before the guard consumes nothing: the client whose     *)
(* request was not paid yet may send the same bytes again.                   *)
RefusedReusable ==
  \A d \in refused : (\E a \in accepted : a.dig = d) \/ \A i \in DOMAIN seen : seen[i].dig # d

(* A deposit attributed to an address is attributed to the operator of the   *)
(* miner its key names, or to the payer of the job its key names, whatever   *)
(* the registry said when it was last read.                                  *)
AttributedToOwner ==
  \A t \in Threads : thread[t].pc \in {"evict", "remove", "write"} =>
    LET r == Req(t) IN
    thread[t].writer # Nobody =>
      thread[t].writer = IF r.kind = "req" THEN Payer[r.key[1]] ELSE Operator[r.key[2]]

(* A copy that is tested once its message was accepted is not accepted again, *)
(* within the retention and in one process. Two threads that both test before *)
(* either records are both accepted: verify (relay_antireplay.py:203, 222)    *)
(* holds no lock.                                                             *)
NoLateCopy ==
  [][\A t \in Threads : thread[t].pc = "check" /\ thread'[t].pc = "record" =>
       \A a \in accepted : a.dig = Digest(Req(t)) => now - a.at > Retention]_vars

(* RAM, disk, byte counts and the cached list describe the same deposits,    *)
(* although each is updated in a critical section of its own (relay.py,      *)
(* _put, _evict_for, _list).                                                 *)
StoreConsistent == TypeOK /\ ListNeverStale /\ UsedIsCost

(* A sender gets what it signed for: a message refused before the guard may  *)
(* be sent again, a copy of an accepted one that is tested later is refused, *)
(* whatever was purged in between, and a deposit is attributed to its owner  *)
(* (relay_antireplay.py, relay_write.py).                                    *)
SenderTreatedRight ==
  [](GuardRemembers /\ RefusedReusable /\ AttributedToOwner) /\ NoLateCopy

(* The header of relay_antireplay.py: a replay carries "an already-seen      *)
(* digest: it is refused without querying any chain", so no message is       *)
(* accepted while the guard accepted it within the retention.                *)
AcceptedOnce ==
  [][\A t \in Threads : thread[t].pc = "record" /\ RecordReplay(t) =>
       \A a \in accepted : a.dig = Digest(Req(t)) => now - a.at > Retention]_vars

(* What a 200 acknowledged is on disk until it has outlived the retention:   *)
(* "a deposit accepted but not persisted would answer ok to a miner whose    *)
(* reveal is not safe".                                                      *)
AckedDurable ==
  \A a \in acked : a.kind \in WriteOnce /\ now - a.entry.ts <= Retention =>
    a.entry \in Range(disk[a.kind])

=============================================================================

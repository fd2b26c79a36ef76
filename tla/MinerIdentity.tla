--------------------------- MODULE MinerIdentity ---------------------------
(***************************************************************************)
(* The identity of a miner (miner.py and modea/keyring.py): which keyring  *)
(* is opened, when a key may be created, how the name of the key follows   *)
(* the identifier the chain derives, who registers the miner, and what     *)
(* survives a stop at any of these steps.  The operator may meanwhile      *)
(* change the owner setting, write a passphrase, encrypt the keyring and   *)
(* confirm a recovery phrase.                                              *)
(*                                                                         *)
(* Keys are numbered in the order they are created; the identifier of the  *)
(* account k is k itself, Passed is the name the kit was started with.     *)
(***************************************************************************)
EXTENDS Integers, FiniteSets

CONSTANTS None, Passed, OwnerAcc, MaxKeys, IdProfiles

VARIABLES ring,     \* the two keyrings on disk: backend -> set of [name, acc]
          secret,   \* the passphrase file: "none", "right", "wrong"
          memo,     \* the resolved identity, or None
          phrase,   \* the account whose recovery phrase is kept, or None
          noted,    \* accounts whose phrase was confirmed as written down
          cut,      \* accounts whose phrase was never kept
          made,     \* keys created so far
          setting,  \* DENDRA_MINER_OWNER is set
          registry, \* the chain: identifier -> [creator, operator] or None
          offered,  \* operators of the create-miner prepared for the owner
          proc,     \* the daemon: [pc, id, acc, owner]
          moving,   \* the migration of the keyring: "no", "imported", "verified"
          boot,     \* bootstrap deposits still to make
          unkept,   \* the identity file could not be written
          history,  \* identities ever written to the identity file
          idLeft    \* faults and interventions still allowed

idvars == <<ring, secret, memo, phrase, noted, cut, made, setting, registry, offered, proc, moving,
            boot, unkept, history, idLeft>>

Keys == 1 .. MaxKeys
Ids == Keys \cup {OwnerAcc}
Off == [pc |-> "off", id |-> Passed, acc |-> None, owner |-> FALSE]
Has(f) == idLeft[f] > 0
Take(f) == idLeft' = [idLeft EXCEPT ![f] = @ - 1]
Fails(f) == IF Has(f) THEN BOOLEAN ELSE {FALSE}
Spent(bad, f) == IF bad THEN Take(f) ELSE UNCHANGED idLeft
Stop == proc' = Off

-----------------------------------------------------------------------------
(* The keyring, from the state of the disk                                 *)

DiskState == IF ring.test # {} /\ ring.file # {} THEN "both"
             ELSE IF ring.file # {} THEN "file" ELSE IF ring.test # {} THEN "test" ELSE "none"

\* The backend a start uses, or None when it is refused.
Resolve == IF DiskState = "both" THEN None
           ELSE IF DiskState = "file" \/ (DiskState = "none" /\ secret # "none")
           THEN IF secret = "none" THEN None ELSE "file"
           ELSE "test"

\* key_state: a wrong passphrase reads like an absent key, and is told apart.
KeyStateFault(name) ==
  IF \E e \in ring[Resolve] : e.name = name /\ (Resolve = "test" \/ secret = "right") THEN "present" ELSE "absent"
KeyState(name) ==
  IF Resolve = "file" /\ ring.file # {} /\ secret = "wrong" THEN "unreadable"
  ELSE IF \E e \in ring[Resolve] : e.name = name THEN "present" ELSE "absent"
AccountOf(name) == (CHOOSE e \in ring[Resolve] : e.name = name).acc

-----------------------------------------------------------------------------
(* A start of the daemon                                                   *)

\* The identity is resumed from its file; a keyring that cannot be chosen stops.
Start ==
  /\ proc.pc = "off" /\ moving = "no"
  /\ proc' = IF Resolve = None THEN Off
             ELSE [Off EXCEPT !.pc = "key", !.id = IF memo # None THEN memo ELSE Passed]
  /\ UNCHANGED <<ring, secret, memo, phrase, noted, cut, made, setting, registry, offered, moving, boot,
                 unkept, history, idLeft>>

MayCreateFault(name) == KeyState(name) = "absent" /\ made < MaxKeys
\* A key is created only when it is absent and no earlier phrase is still kept.
MayCreate(name) == KeyState(name) = "absent" /\ phrase = None /\ made < MaxKeys

KeysAddr ==
  /\ proc.pc = "key" /\ Resolve # None
  /\ \/ /\ KeyState(proc.id) = "present"
        /\ proc' = [proc EXCEPT !.pc = "owner", !.acc = AccountOf(proc.id)]
        /\ UNCHANGED <<ring, made>>
     \/ /\ MayCreate(proc.id)
        /\ made' = made + 1
        /\ ring' = [ring EXCEPT ![Resolve] = @ \cup {[name |-> proc.id, acc |-> made + 1]}]
        /\ proc' = [proc EXCEPT !.pc = "keep", !.acc = made + 1]
     \/ /\ KeyState(proc.id) # "present" /\ ~MayCreate(proc.id)
        /\ Stop /\ UNCHANGED <<ring, made>>
  /\ UNCHANGED <<secret, memo, phrase, noted, cut, setting, registry, offered, moving, boot, unkept, history, idLeft>>

\* The phrase dendrad printed is linked under its name, which refuses an existing
\* file; a write that fails ends the start.
KeepRecoveryPhrase ==
  /\ proc.pc = "keep"
  /\ \E bad \in Fails("disk") :
       /\ Spent(bad, "disk")
       /\ phrase' = IF bad \/ phrase # None THEN phrase ELSE proc.acc
       /\ cut' = IF bad THEN cut \cup {proc.acc} ELSE cut
       /\ IF bad THEN Stop ELSE proc' = [proc EXCEPT !.pc = "owner"]
  /\ UNCHANGED <<ring, secret, memo, noted, made, setting, registry, offered, moving, boot, unkept, history>>

\* The owner this miner runs under: the registry decides when the volume and the
\* setting disagree, and an unread registry decides nothing.
OwnerRefusedFault(unread) == setting /\ proc.id \in Keys /\ (unread \/ registry[proc.id] # None)
OwnerRefused(unread) ==
  IF setting THEN proc.id \in Keys /\ (unread \/ registry[proc.id] # None)
  ELSE /\ proc.id \in Ids /\ proc.id # proc.acc
       /\ unread \/ registry[proc.id] = None
OwnerFound == setting \/ ( /\ proc.id \in Ids /\ proc.id # proc.acc /\ registry[proc.id] # None
                           /\ registry[proc.id].operator = proc.acc /\ registry[proc.id].creator # proc.acc )

DecideOwner ==
  /\ proc.pc = "owner"
  /\ \E unread \in Fails("read") :
       /\ Spent(unread, "read")
       /\ IF OwnerRefused(unread) THEN Stop
          ELSE proc' = [proc EXCEPT !.pc = "align", !.owner = OwnerFound]
  /\ UNCHANGED <<ring, secret, memo, phrase, noted, cut, made, setting, registry, offered, moving, boot, unkept, history>>

\* The entry is renamed to the identifier, unless the name holds another account.
Renamed(expected) ==
  [ring EXCEPT ![Resolve] = {IF e.acc = proc.acc /\ e.name = proc.id THEN [e EXCEPT !.name = expected] ELSE e : e \in @}]
AlignIdentity ==
  /\ proc.pc = "align"
  /\ LET expected == IF proc.owner THEN OwnerAcc ELSE proc.acc
         taken == {e \in ring[Resolve] : e.name = expected}
     IN \E bad \in Fails("rename") :
          /\ bad => taken = {} /\ proc.id # expected
          /\ Spent(bad, "rename")
          /\ ring' = IF bad \/ taken # {} \/ proc.id = expected THEN ring ELSE Renamed(expected)
          /\ proc' = [proc EXCEPT !.pc = "memo",
                        !.id = IF bad \/ \E e \in taken : e.acc # proc.acc THEN proc.id ELSE expected]
  /\ UNCHANGED <<secret, memo, phrase, noted, cut, made, setting, registry, offered, moving, boot, unkept, history>>

WriteMemoryFault ==
  /\ proc.pc = "memo" /\ memo' = proc.id /\ proc' = [proc EXCEPT !.pc = "register"]
  /\ UNCHANGED <<ring, secret, phrase, noted, cut, made, setting, registry, offered, moving, boot, unkept, history, idLeft>>

\* Only an identifier the chain accepts is remembered; a failed write is said.
WriteMemory ==
  /\ proc.pc = "memo"
  /\ \E bad \in IF proc.id \in Ids THEN Fails("disk") ELSE {FALSE} :
       /\ Spent(bad, "disk")
       /\ memo' = IF proc.id \in Ids /\ ~bad THEN proc.id ELSE memo
       /\ unkept' = (unkept \/ (bad /\ memo # proc.id))
       /\ history' = IF proc.id \in Ids THEN history \cup {proc.id} ELSE history
  /\ proc' = [proc EXCEPT !.pc = "register"]
  /\ UNCHANGED <<ring, secret, phrase, noted, cut, made, setting, registry, offered, moving, boot>>

\* Owner mode waits for the chain to record this machine's key as the operator and
\* prepares the owner's transaction; it never sends create-miner itself.
OwnerWait ==
  /\ proc.pc = "register" /\ proc.owner
  /\ LET rec == IF proc.id \in Ids THEN registry[proc.id] ELSE None IN
     IF rec # None /\ (rec # None => rec.operator = proc.acc)
     THEN proc' = [proc EXCEPT !.pc = "run"] /\ UNCHANGED offered
     ELSE /\ offered' = IF proc.id = OwnerAcc THEN offered \cup {proc.acc} ELSE offered
          /\ UNCHANGED proc
  /\ UNCHANGED <<ring, secret, memo, phrase, noted, cut, made, setting, registry, moving, boot, unkept, history, idLeft>>

\* One attempt: present, absent (the faucet, then create-miner, which the chain
\* accepts only for the identifier of its signer), or not read: nothing is sent.
RegisterAttempt ==
  /\ proc.pc = "register" /\ ~proc.owner
  /\ \E bad \in Fails("read") :
       /\ Spent(bad, "read")
       /\ IF bad THEN UNCHANGED <<registry, proc>>
          ELSE LET here == proc.id \in Ids /\ (proc.id \in Ids => registry[proc.id] # None) IN
               /\ registry' = IF ~here /\ proc.id = proc.acc
                              THEN [registry EXCEPT ![proc.id] = [creator |-> proc.acc, operator |-> proc.acc]]
                              ELSE registry
               /\ proc' = IF here \/ proc.id = proc.acc THEN [proc EXCEPT !.pc = "run"] ELSE proc
  /\ UNCHANGED <<ring, secret, memo, phrase, noted, cut, made, setting, offered, moving, boot, unkept, history>>

\* A round of the bootstrap deposits: a refused kind is due again.
BootstrapDeposits ==
  /\ proc.pc = "run" /\ boot # {}
  /\ \E refused \in IF Has("relay") THEN SUBSET boot ELSE {{}} :
       /\ Spent(refused # {}, "relay")
       /\ boot' = refused
  /\ UNCHANGED <<ring, secret, memo, phrase, noted, cut, made, setting, registry, offered, proc, moving, unkept, history>>

\* The daemon stops anywhere; the deposits are made again by the next process.
Crash ==
  /\ proc.pc # "off" /\ Has("crash") /\ Take("crash")
  /\ Stop /\ boot' = {"pub", "attest"}
  /\ cut' = IF proc.pc = "keep" THEN cut \cup {proc.acc} ELSE cut
  /\ UNCHANGED <<ring, secret, memo, phrase, noted, made, setting, registry, offered, moving, unkept, history>>

-----------------------------------------------------------------------------
(* The operator, the owner and the migration                               *)

Confirm ==
  /\ phrase # None /\ noted' = noted \cup {phrase} /\ phrase' = None
  /\ UNCHANGED <<ring, secret, memo, cut, made, setting, registry, offered, proc, moving, boot, unkept, history, idLeft>>

\* Between two starts: the setting, the passphrase file.  A passphrase is wrong
\* against a keyring it does not open.
Reconfigure ==
  /\ proc.pc = "off" /\ moving = "no" /\ Has("config") /\ Take("config")
  /\ \E s \in BOOLEAN, w \in {"none", "right", "wrong"} :
       /\ <<s, w>> # <<setting, secret>>
       /\ (s = setting) \/ (w = secret)
       /\ w = "wrong" => ring.file # {}
       /\ setting' = s /\ secret' = w
  /\ UNCHANGED <<ring, memo, phrase, noted, cut, made, registry, offered, proc, moving, boot, unkept, history>>

OwnerRegisters ==
  /\ registry[OwnerAcc] = None
  /\ \E k \in offered : registry' = [registry EXCEPT ![OwnerAcc] = [creator |-> OwnerAcc, operator |-> k]]
  /\ UNCHANGED <<ring, secret, memo, phrase, noted, cut, made, setting, offered, proc, moving, boot, unkept, history, idLeft>>

\* migrate: the keys imported under the passphrase until one fails, read back, then the clear
\* keyring removed; a failure before that removes the encrypted one.
MigrateImport ==
  /\ proc.pc = "off" /\ moving = "no" /\ Has("migrate") /\ Take("migrate")
  /\ DiskState = "test" /\ secret = "right"
  /\ \E got \in SUBSET ring.test : ring' = [ring EXCEPT !.file = got]
  /\ moving' = "imported"
  /\ UNCHANGED <<secret, memo, phrase, noted, cut, made, setting, registry, offered, proc, boot, unkept, history>>

MigrateVerifyFault == moving' = "verified" /\ UNCHANGED ring
MigrateVerify ==
  IF ring.file # ring.test THEN ring' = [ring EXCEPT !.file = {}] /\ moving' = "no"
  ELSE moving' = "verified" /\ UNCHANGED ring
\* The migration's later steps, or its process killed between two of them.
MigrateStep ==
  /\ moving # "no"
  /\ \E killed \in Fails("crash") :
       /\ Spent(killed, "crash")
       /\ IF killed THEN moving' = "no" /\ UNCHANGED ring
          ELSE IF moving = "imported" THEN MigrateVerify
          ELSE ring' = [ring EXCEPT !.test = {}] /\ moving' = "no"
  /\ UNCHANGED <<secret, memo, phrase, noted, cut, made, setting, registry, offered, proc, boot, unkept, history>>

-----------------------------------------------------------------------------
Init ==
  /\ \E q \in IdProfiles : setting = q.owner /\ secret = q.secret /\ idLeft = q.left
  /\ ring = [test |-> {}, file |-> {}] /\ memo = None /\ phrase = None /\ noted = {} /\ cut = {} /\ made = 0
  /\ registry = [i \in Ids |-> None] /\ offered = {} /\ proc = Off /\ moving = "no"
  /\ boot = {"pub", "attest"} /\ unkept = FALSE /\ history = {}

Daemon == \/ Start \/ KeysAddr \/ KeepRecoveryPhrase \/ DecideOwner \/ AlignIdentity \/ WriteMemory
          \/ OwnerWait \/ RegisterAttempt \/ BootstrapDeposits
Next == Daemon \/ Crash \/ Confirm \/ Reconfigure \/ OwnerRegisters \/ MigrateImport \/ MigrateStep
Spec == Init /\ [][Next]_idvars

-----------------------------------------------------------------------------
\* The shape of the state: both keyrings, the identity file and the registry.
TypeOK ==
  /\ \A b \in {"test", "file"} : \A e \in ring[b] : e.name \in Ids \cup {Passed} /\ e.acc \in Keys
  /\ memo \in Ids \cup {None} /\ made \in 0 .. MaxKeys /\ phrase \in Keys \cup {None}
  /\ proc.acc \in Keys \cup {None} /\ boot \subseteq {"pub", "attest"}
  /\ \A i \in Ids : registry[i] = None \/ registry[i].operator \in Keys

\* A key once created stays in a keyring under one name: no rename, migration,
\* rollback or stop between two of their steps loses one (align_identity, migrate).
KeysNeverLost ==
  \A k \in 1 .. made : \E b \in {"test", "file"} : Cardinality({e \in ring[b] : e.acc = k}) = 1

\* The words of a key are kept or were written down, unless the start that created
\* it ended before they were kept (keys_addr, keep_recovery_phrase).
PhraseNeverReplaced ==
  \A k \in 1 .. made : k = phrase \/ k \in noted \/ k \in cut \/ (proc.pc = "keep" /\ proc.acc = k)

\* Once the chain records a miner for a key of this volume, no start creates
\* another key in its place, unless the identity file could not be written.
KeepsTheKey == made' = made \/ unkept \/ \A i \in Ids : registry[i] = None

\* KeepsTheKey, of every step.
NoNewKeyOnceStaked == [][KeepsTheKey]_idvars

\* A volume that resolved an owner's identity never stakes a key of its own, whatever
\* the setting becomes afterwards, unless the identity file could not be written
\* (decide_owner).
KeepsTheOwner == (OwnerAcc \in history /\ ~unkept) => (\A k \in Keys : registry'[k] = registry[k])

\* KeepsTheOwner, of every step.
OwnerKeepsTheStake == [][KeepsTheOwner]_idvars
=============================================================================

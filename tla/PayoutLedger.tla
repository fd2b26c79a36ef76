---------------------------- MODULE PayoutLedger ----------------------------
(* What the payments of the Final Testnet Season promise: the payout account  *)
(* pays obligations (a week, an amendment) part by part; an obligation is     *)
(* paid under one plan only, each part of it at most once.                    *)
EXTENDS Sequences, Naturals

CONSTANTS Obligations, PartNumbers

VARIABLE ledger

Init == ledger = <<>>

Of(o) == {i \in 1..Len(ledger) : ledger[i].of = o}

Pay(o, plan, part) ==
  /\ \A i \in Of(o) : ledger[i].plan = plan /\ ledger[i].part # part
  /\ ledger' = Append(ledger, [of |-> o, plan |-> plan, part |-> part])

Next ==
  \/ /\ Len(ledger') = Len(ledger) + 1
     /\ LET e == ledger'[Len(ledger')] IN
          /\ e.of \in Obligations
          /\ e.part \in PartNumbers
          /\ Pay(e.of, e.plan, e.part)

Spec == Init /\ [][Next]_ledger
=============================================================================

------------------------------ MODULE MCRelay -------------------------------
(* Small instances of Relay.                                                 *)
EXTENDS Relay, TLC

CONSTANTS t1, t2, m1, m2, op1, op2, c1, j1, a, b, nobody

MCOperator  == [m \in {m1, m2} |-> IF m = m1 THEN op1 ELSE op2]
MCPayer     == [j \in {j1} |-> c1]
MCCommittee == [j \in {j1} |-> {m1}]
MCFee       == [j \in {j1} |-> 1]
MCCost      == [x \in {a, b} |-> IF x = a THEN 1 ELSE 2]

Deposit(kind, key, body, miner, signer, h, token) ==
  [kind |-> kind, key |-> key, body |-> body, miner |-> miner, signer |-> signer,
   height |-> h, kit |-> 1, token |-> token]

(* Two bodies on one sealed key, one signed and one behind the token, and a  *)
(* deposit whose key and header name two miners.                             *)
Evidence ==
  {Deposit("reveal", <<j1, m1>>, a, m1, op1, 1, FALSE),
   Deposit("reveal", <<j1, m1>>, b, m1, nobody, 1, TRUE),
   Deposit("reveal", <<j1, m2>>, b, m1, op1, 2, FALSE)}

(* A replaced public key, of either size.                                    *)
Rotation ==
  {Deposit("pub", <<NoJob, m1>>, a, m1, op1, 1, FALSE),
   Deposit("pub", <<NoJob, m1>>, b, m1, op1, 2, FALSE),
   Deposit("pub", <<NoJob, m2>>, b, m2, nobody, 1, TRUE)}

(* A signed request, and the same one by somebody who does not pay.          *)
Paying ==
  {Deposit("req", <<j1, m1>>, a, m1, c1, 1, FALSE),
   Deposit("req", <<j1, m1>>, a, m1, op2, 1, FALSE)}

MCRequestSets == {Evidence, Rotation, Paying}

Symmetric == Permutations({t1, t2})

=============================================================================

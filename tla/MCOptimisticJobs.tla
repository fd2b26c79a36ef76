--------------------------- MODULE MCOptimisticJobs ---------------------------
(* Small instances of OptimisticJobs for TLC.                               *)
EXTENDS OptimisticJobs, TLC

CONSTANTS j1, j2, m1, m2, m3

OneJob  == {j1}
TwoJobs == {j1, j2}
Two     == {m1, m2}
Three   == {m1, m2, m3}
Nobody  == {}
JustOne == {m1}

(* Jobs are interchangeable; miners are while none of them is singled out.   *)
Symmetry == {f @@ g : f \in Permutations(Jobs), g \in Permutations(Miners)}
Staying  == Permutations({m2, m3})

EqualStakes == [m \in Miners |-> 10]

(* Fee 20: 2 to burn, a cut of 6 (3 validators, 1 team, 2 treasury), 12 net. *)
Base == [FeeBurnBps |-> 1000, ProtocolFeeBps |-> 3000, ValidatorRewardBps |-> 5000,
         TeamFeeBps |-> 2000, HoldBps |-> 10000, SlashLeakBps |-> 8000,
         AuditSampleBps |-> 9000, AuditProbationJobs |-> 0, AuditAdaptive |-> 0,
         MinStake |-> 10, DisputeWindow |-> 1, DisputeBond |-> 5,
         AuditResolveTimeout |-> 2, AppealWindow |-> 0, AuditUnwindBlocks |-> 3,
         AuditMinQuorum |-> 0, CommitteeRevealDelay |-> 1, CommitteeSeedSource |-> 1,
         WorkCommitteeSize |-> 1, JobExpiryBlocks |-> 3, TeamAddress |-> "none"]

(* Half of the fee paid at once, an address for the team, one appeal, and    *)
(* probation for newcomers.                                                  *)
Partial == [Base EXCEPT !.HoldBps = 5000, !.TeamAddress = "set", !.AppealWindow = 1,
                        !.AuditProbationJobs = 1]

(* Nothing held, no unwind, the proposer's seed, a quorum of two.            *)
NoHold == [Base EXCEPT !.HoldBps = 0, !.AuditUnwindBlocks = 0, !.CommitteeSeedSource = 0,
                       !.AuditMinQuorum = 2]

FullHold == {Base}
Unheld   == {NoHold}
TeamPaid == {[Base EXCEPT !.TeamAddress = "set"]}
Switched == FullHold \cup Unheld
Governed == {Base, Partial}
=============================================================================

------------------------------ MODULE MCEmission ------------------------------
(* Small instances of Emission for TLC.  A word of 2^24 leaves the headroom *)
(* of the code: no amount times a valid rate reaches it.                    *)
EXTENDS Emission

(* Reserve 100: a slice of 50, of which 25 for work, 10 for availability    *)
(* and 15 for security.                                                     *)
Base == [ReserveReleaseBps |-> 5000, WorkSplitBps |-> 5000, AvailSplitBps |-> 2000,
         WorkGateBps |-> 15000, EpochBlocks |-> 2]

(* Nothing for security; stopped; disabled.                                 *)
NoSecure == [Base EXCEPT !.AvailSplitBps = 5000, !.ReserveReleaseBps = 10000,
                         !.WorkGateBps = 20000]
Stopped  == [Base EXCEPT !.ReserveReleaseBps = 0]
Disabled == [Base EXCEPT !.EpochBlocks = 0]

(* Two splits whose uint64 sum is 10000.                                    *)
Wrapped == [Base EXCEPT !.WorkSplitBps = Word - 5000, !.AvailSplitBps = 15000]

OneSet   == {Base}
Governed == {Base, NoSecure, Stopped, Disabled, Wrapped}
=============================================================================

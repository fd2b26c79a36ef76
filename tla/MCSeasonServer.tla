--------------------------- MODULE MCSeasonServer ---------------------------
(* A season of two days of three blocks, whose end falls in the second day;  *)
(* a budget gives each input of a case and each fault it meets its number.   *)
EXTENDS SeasonServer, TLC

CONSTANTS m1, m2

MCJobMiner == <<m1, m1>>
MCMiners == {m1}
Base == <<Absent, NoDay, NoDay>>
Kit == <<0, 1, 1>>
Again == {Base, <<Absent, Absent, NoDay>>, <<Absent, Absent, Absent>>}
AllParams == Again \cup {Kit, <<0, 0, NoDay>>, <<Absent, 1, NoDay>>, <<1, 1, 1>>, <<1, 0, 1>>}

None0 == [jobs |-> 0, crash |-> 0, lost |-> 0, disk |-> 0, unread |-> 0, gencrash |-> 0,
          payout |-> 0, grade |-> 0, report |-> 0, params |-> Again]

(* The answers of one miner: a generator that stops, a service that stops, a  *)
(* file that cannot be written; grades, with a service that stops, or with a  *)
(* write that fails while they come; readings of the chain that fail;         *)
(* declarations, with the same two faults; capacity reports, with the same;   *)
(* first days, kept through two restarts.                                     *)
MCBudgets ==
  {[None0 EXCEPT !.jobs = 2, !.lost = 1, !.gencrash = 1],
   [None0 EXCEPT !.jobs = 2, !.crash = 1, !.lost = 1],
   [None0 EXCEPT !.jobs = 1, !.lost = 1, !.disk = 1],
   [None0 EXCEPT !.jobs = 1, !.crash = 1, !.grade = 2],
   [None0 EXCEPT !.jobs = 1, !.disk = 1, !.grade = 2],
   [None0 EXCEPT !.jobs = 1, !.unread = 2],
   [None0 EXCEPT !.crash = 1, !.payout = 2],
   [None0 EXCEPT !.disk = 1, !.payout = 2],
   [None0 EXCEPT !.report = 2, !.crash = 1, !.params = {Kit} \cup Again],
   [None0 EXCEPT !.report = 1, !.disk = 1, !.params = {Kit} \cup Again],
   [None0 EXCEPT !.crash = 2, !.report = 1, !.params = AllParams]}
=============================================================================

--------------------------- MODULE MCSeasonPayout ---------------------------
(* Two weeks of one day, three identities: one that may lack its capacity    *)
(* report, one that always has it, one with an unpayable address.            *)
EXTENDS SeasonPayout, TLC

CONSTANTS m1, m2, m3

MCSet(kit, season) ==
  [work |-> 2, presence |-> 1, windows |-> 1, juror |-> 1, kit |-> kit, judge |-> 1,
   probation |-> 5000, floor |-> 1, capDay |-> 8, capSeason |-> season]
MCRuleSets == <<MCSet(FALSE, 11), MCSet(TRUE, 11)>>
MCTightSets == <<MCSet(FALSE, 9), MCSet(TRUE, 9)>>
MCFrom == <<0, 1>>
MCFromStart == <<0, 0>>
MCMiners == {m1, m2, m3}

Facts(a, n, kit, late) ==
  [presence |-> n, verified |-> n, verdicts |-> 0, judge |-> 0, probation |-> late, kit |-> kit,
   dated |-> TRUE, addr |-> a]

MCDayFacts ==
  {(m1 :> Facts(1, 1, 1, FALSE) @@ m2 :> Facts(2, 0, 1, FALSE) @@ m3 :> Facts(3, 0, 1, TRUE)),
   (m1 :> Facts(1, 1, NoReport, FALSE) @@ m2 :> Facts(2, 2, 1, TRUE) @@ m3 :> Facts(3, 1, 1, FALSE))}
=============================================================================

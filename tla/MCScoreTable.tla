---------------------------- MODULE MCScoreTable ----------------------------
(* Constants of ScoreTable for TLC: what a threat may say and a profile ask *)
(* are chosen so that the scores differ, and that one is clamped.           *)
EXTENDS ScoreTable, TLC

CONSTANTS tomcat, payment, minecraft, swift, cwe79

Plain == [words |-> {payment}, cwes |-> {}, cvss |-> NoCvss, tags |-> {}, sources |-> 1,
          packages |-> {}]
Exploited == [words |-> {payment, tomcat, swift}, cwes |-> {cwe79}, cvss |-> 98,
              tags |-> {KevTag, ActivelyExploitedTag, RansomwareTag}, sources |-> 3,
              packages |-> {{tomcat}}]

Finance == [technologies |-> {tomcat}, keywords |-> {payment}, cwes |-> {cwe79},
            threshold |-> 70, boosts |-> {swift}, excluded |-> {minecraft}]
Gaming == [technologies |-> {minecraft}, keywords |-> {}, cwes |-> {},
           threshold |-> 90, boosts |-> {}, excluded |-> {payment}]

TwoThreatContents == {Plain, Exploited}
TwoProfileContents == {Finance, Gaming}
=============================================================================

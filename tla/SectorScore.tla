----------------------------- MODULE SectorScore -----------------------------
(***************************************************************************)
(* SectorScoringService.calculate_score (services/sector_scoring.py): the  *)
(* relevance of a threat for a sector.                                     *)
(*                                                                         *)
(* A text is the set of its words and phrases, so that a whole-word match  *)
(* of a term is membership; terms are lower-cased and never blank.  A      *)
(* package is the set of the names it is matched by: its name and the name's*)
(* parts.  A CVSS score is kept in tenths, NoCvss when there is none.      *)
(*   threat:  words, cwes, cvss, tags, sources (how many), packages        *)
(*   profile: technologies, keywords, cwes, threshold, boosts, excluded    *)
(***************************************************************************)
EXTENDS Integers

CONSTANTS NoCvss, KevTag, ActivelyExploitedTag, RansomwareTag

TechPoints == 30
KeywordPoints == 25
CwePoints == 20
CvssPoints == 15
BoostPoints == 20
ExclusionPenalty == -30
KevPoints == 25
ActivelyExploitedPoints == 15
RansomwarePoints == 15
PackagePoints == 20
ScoreMax == 100

Points(hit, points) == IF hit THEN points ELSE 0

Mentions(threat, terms) == threat.words \cap terms # {}

CvssHit(threat, profile) == threat.cvss # NoCvss /\ threat.cvss >= profile.threshold

SourcePoints(n) == IF n >= 3 THEN 10 ELSE IF n = 2 THEN 5 ELSE 0

PackageHit(threat, profile) == \E p \in threat.packages : p \cap profile.technologies # {}

\* The points that only depend on what is said of the threat, whoever asks.
ThreatPoints(threat) ==
    Points(KevTag \in threat.tags, KevPoints)
  + Points(ActivelyExploitedTag \in threat.tags, ActivelyExploitedPoints)
  + Points(RansomwareTag \in threat.tags, RansomwarePoints)
  + SourcePoints(threat.sources)

ProfilePoints(threat, profile) ==
    Points(Mentions(threat, profile.technologies), TechPoints)
  + Points(Mentions(threat, profile.keywords), KeywordPoints)
  + Points(threat.cwes \cap profile.cwes # {}, CwePoints)
  + Points(CvssHit(threat, profile), CvssPoints)
  + Points(Mentions(threat, profile.boosts), BoostPoints)
  + Points(Mentions(threat, profile.excluded), ExclusionPenalty)
  + Points(PackageHit(threat, profile), PackagePoints)

RawTotal(threat, profile) == ThreatPoints(threat) + ProfilePoints(threat, profile)

ClampAbove(n) == IF n > ScoreMax THEN ScoreMax ELSE n

Clamp(n) == IF n < 0 THEN 0 ELSE IF n > ScoreMax THEN ScoreMax ELSE n

Score(threat, profile) == Clamp(RawTotal(threat, profile))
=============================================================================

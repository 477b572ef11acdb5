-------------------------- MODULE ScoreTableProofs --------------------------
(***************************************************************************)
(* The safety properties of ScoreTable for every number of threats,        *)
(* sectors, jobs and reloads, every chunk size and every content.          *)
(***************************************************************************)
EXTENDS ScoreTable, TLAPS

Present == {t \in Threats : threat[t] # Absent}

\* What jobs are to score exists: nothing deletes a threat.
JobsScoreThreats ==
  /\ recent \subseteq Present
  /\ \A j \in Jobs : job[j].todo \subseteq Present /\ job[j].chunk \subseteq Present

IInv == TypeOK /\ JobsScoreThreats /\ ScoreInRange /\ ScoresHaveOwners

\* calculate_score is between 0 and 100 for every threat and every profile,
\* whatever they hold (sector_scoring.py:193-198).
THEOREM ScoreBounded ==
  ASSUME NEW t, NEW p
  PROVE  Score(t, p) \in 0 .. ScoreMax
<1>1. \A hit, n : n \in Int => Points(hit, n) \in Int
  BY DEF Points
<1>2. \A n : SourcePoints(n) \in Int
  BY DEF SourcePoints
<1>3. ThreatPoints(t) \in Int
  BY <1>1, <1>2 DEF ThreatPoints, KevPoints, ActivelyExploitedPoints, RansomwarePoints
<1>4. ProfilePoints(t, p) \in Int
  BY <1>1 DEF ProfilePoints, TechPoints, KeywordPoints, CwePoints, CvssPoints, BoostPoints,
              ExclusionPenalty, PackagePoints
<1>5. RawTotal(t, p) \in Int
  BY <1>3, <1>4 DEF RawTotal
<1> QED
  BY <1>5 DEF Score, Clamp, ScoreMax

\* A threat on the KEV list scores at least what it would score if it were not,
\* for every profile: the points never work against one another through the
\* clamping (sector_scoring.py:154, 198).
THEOREM KevNeverLowers ==
  ASSUME NEW t, NEW u, NEW p,
         u.words = t.words, u.cwes = t.cwes, u.cvss = t.cvss, u.sources = t.sources,
         u.packages = t.packages, u.tags = t.tags \cup {KevTag}
  PROVE  Score(t, p) <= Score(u, p)
<1>1. \A hit, n : n \in Int => Points(hit, n) \in Int
  BY DEF Points
<1>2. \A n : SourcePoints(n) \in Int
  BY DEF SourcePoints
<1>3. /\ ThreatPoints(t) \in Int /\ ThreatPoints(u) \in Int
      /\ ThreatPoints(t) <= ThreatPoints(u)
  BY <1>1, <1>2 DEF ThreatPoints, Points, KevPoints, ActivelyExploitedPoints, RansomwarePoints
<1>4. ProfilePoints(t, p) \in Int /\ ProfilePoints(u, p) = ProfilePoints(t, p)
  <2>1. ProfilePoints(t, p) \in Int
    BY <1>1 DEF ProfilePoints, TechPoints, KeywordPoints, CwePoints, CvssPoints, BoostPoints,
                ExclusionPenalty, PackagePoints
  <2>2. /\ \A terms : Mentions(u, terms) = Mentions(t, terms)
        /\ CvssHit(u, p) = CvssHit(t, p) /\ PackageHit(u, p) = PackageHit(t, p)
    BY DEF Mentions, CvssHit, PackageHit
  <2> QED
    BY <2>1, <2>2 DEF ProfilePoints
<1>5. /\ RawTotal(t, p) \in Int /\ RawTotal(u, p) \in Int
      /\ RawTotal(t, p) <= RawTotal(u, p)
  BY <1>3, <1>4 DEF RawTotal
<1> QED
  BY <1>5 DEF Score, Clamp, ScoreMax

\* More never scores less: the more words, CWEs, tags, packages and sources are known
\* of a threat, and the higher its CVSS score, the higher its score in every sector,
\* unless what is added mentions a term that the profile excludes, the only thing that
\* takes points away (sector_scoring.py:96-198).
THEOREM MoreNeverLowers ==
  ASSUME NEW t, NEW u, NEW p,
         t.words \subseteq u.words, t.cwes \subseteq u.cwes, t.tags \subseteq u.tags,
         t.packages \subseteq u.packages, t.sources \in Int, u.sources \in Int,
         t.sources <= u.sources,
         CvssHit(t, p) => CvssHit(u, p),
         Mentions(u, p.excluded) => Mentions(t, p.excluded)
  PROVE  Score(t, p) <= Score(u, p)
<1>1. \A hit, n : n \in Int => Points(hit, n) \in Int
  BY DEF Points
<1>2. /\ SourcePoints(t.sources) \in Int /\ SourcePoints(u.sources) \in Int
      /\ SourcePoints(t.sources) <= SourcePoints(u.sources)
  BY DEF SourcePoints
<1>3. ASSUME NEW a, NEW b, a => b, NEW n \in Nat PROVE Points(a, n) <= Points(b, n)
  BY <1>3 DEF Points
<1>4. /\ ThreatPoints(t) \in Int /\ ThreatPoints(u) \in Int
      /\ ThreatPoints(t) <= ThreatPoints(u)
  <2>1. \A tag : tag \in t.tags => tag \in u.tags
    OBVIOUS
  <2> QED
    BY <1>1, <1>2, <2>1
       DEF ThreatPoints, Points, KevPoints, ActivelyExploitedPoints, RansomwarePoints
<1>5. /\ ProfilePoints(t, p) \in Int /\ ProfilePoints(u, p) \in Int
      /\ ProfilePoints(t, p) <= ProfilePoints(u, p)
  <2>1. \A terms : Mentions(t, terms) => Mentions(u, terms)
    BY DEF Mentions
  <2>2. t.cwes \cap p.cwes # {} => u.cwes \cap p.cwes # {}
    OBVIOUS
  <2>3. PackageHit(t, p) => PackageHit(u, p)
    BY DEF PackageHit
  <2> DEFINE V(v) == /\ Points(Mentions(v, p.technologies), TechPoints) \in Int
                     /\ Points(Mentions(v, p.keywords), KeywordPoints) \in Int
                     /\ Points(v.cwes \cap p.cwes # {}, CwePoints) \in Int
                     /\ Points(CvssHit(v, p), CvssPoints) \in Int
                     /\ Points(Mentions(v, p.boosts), BoostPoints) \in Int
                     /\ Points(Mentions(v, p.excluded), ExclusionPenalty) \in Int
                     /\ Points(PackageHit(v, p), PackagePoints) \in Int
  <2>4. V(t) /\ V(u)
    BY <1>1 DEF TechPoints, KeywordPoints, CwePoints, CvssPoints, BoostPoints,
                ExclusionPenalty, PackagePoints
  <2>5. /\ Points(Mentions(t, p.technologies), TechPoints)
             <= Points(Mentions(u, p.technologies), TechPoints)
        /\ Points(Mentions(t, p.keywords), KeywordPoints)
             <= Points(Mentions(u, p.keywords), KeywordPoints)
        /\ Points(Mentions(t, p.boosts), BoostPoints)
             <= Points(Mentions(u, p.boosts), BoostPoints)
    BY <1>3, <2>1 DEF TechPoints, KeywordPoints, BoostPoints
  <2>6. /\ Points(t.cwes \cap p.cwes # {}, CwePoints) <= Points(u.cwes \cap p.cwes # {}, CwePoints)
        /\ Points(CvssHit(t, p), CvssPoints) <= Points(CvssHit(u, p), CvssPoints)
        /\ Points(PackageHit(t, p), PackagePoints) <= Points(PackageHit(u, p), PackagePoints)
    BY <1>3, <2>2, <2>3 DEF CwePoints, CvssPoints, PackagePoints
  <2>7. Points(Mentions(t, p.excluded), ExclusionPenalty)
          <= Points(Mentions(u, p.excluded), ExclusionPenalty)
    BY DEF Points, ExclusionPenalty
  <2> QED
    BY <2>4, <2>5, <2>6, <2>7 DEF ProfilePoints
<1>6. /\ RawTotal(t, p) \in Int /\ RawTotal(u, p) \in Int
      /\ RawTotal(t, p) <= RawTotal(u, p)
  BY <1>4, <1>5 DEF RawTotal
<1> QED
  BY <1>6 DEF Score, Clamp, ScoreMax

LEMMA JobTyped ==
  ASSUME NEW at \in Places, NEW i \in BOOLEAN, NEW todo \in SUBSET Threats,
         NEW p \in ProfileTable, NEW c \in SUBSET Threats, NEW t \in ThreatTable,
         NEW sc \in ScoreTables
  PROVE  Job(at, i, todo, p, c, t, sc) \in JobRecords
BY DEF Job, JobRecords

LEMMA EmptyTablesTyped ==
  NoProfiles \in ProfileTable /\ NoThreats \in ThreatTable /\ NoScores \in ScoreTables
BY DEF NoProfiles, NoThreats, NoScores, ProfileTable, ThreatTable, ScoreTables

LEMMA WaitingTyped ==
  ASSUME NEW at \in Places, NEW i \in BOOLEAN, NEW todo \in SUBSET Threats
  PROVE  /\ Waiting(at, i, todo) \in JobRecords
         /\ Waiting(at, i, todo).todo = todo /\ Waiting(at, i, todo).chunk = {}
<1>1. Waiting(at, i, todo) \in JobRecords
  BY EmptyTablesTyped, JobTyped DEF Waiting
<1> QED
  BY <1>1 DEF Waiting, Job

LEMMA ProfiledTyped ==
  ASSUME NEW todo \in SUBSET Threats, NEW p \in ProfileTable
  PROVE  /\ Profiled(todo, p) \in JobRecords
         /\ Profiled(todo, p).todo = todo /\ Profiled(todo, p).chunk = {}
<1>1. Profiled(todo, p) \in JobRecords
  BY EmptyTablesTyped, JobTyped DEF Profiled, Places
<1> QED
  BY <1>1 DEF Profiled, Job

LEMMA ReloadTyped ==
  NoReload \in [at : {"idle", "parsed", "upserted"}, parsed : Files]
<1>1. NoProfiles \in Files
  BY DEF NoProfiles, Files
<1> QED
  BY <1>1 DEF NoReload

LEMMA NoJobTyped == NoJob \in JobRecords /\ NoJob.todo = {} /\ NoJob.chunk = {}
BY WaitingTyped DEF NoJob, Places

\* A job that is at a new place, with threats that exist, keeps the invariant of
\* jobs as long as no threat is deleted.
LEMMA BecomeSafe ==
  ASSUME TypeOK, JobsScoreThreats, NEW j \in Jobs, NEW new \in JobRecords,
         new.todo \subseteq Present, new.chunk \subseteq Present,
         Become(j, new), threat' = threat, recent' \subseteq Present
  PROVE  job' \in [Jobs -> JobRecords] /\ JobsScoreThreats'
<1>1. job' \in [Jobs -> JobRecords]
  BY DEF TypeOK, Become
<1>2. Present' = Present
  BY DEF Present
<1>3. \A k \in Jobs : job'[k] = IF k = j THEN new ELSE job[k]
  BY DEF TypeOK, Become
<1> QED
  BY <1>1, <1>2, <1>3 DEF JobsScoreThreats

THEOREM InitSafe == Init => IInv
<1> SUFFICES ASSUME Init PROVE IInv
  OBVIOUS
<1> USE DEF Init
<1>1. TypeOK
  <2>1. job \in [Jobs -> JobRecords]
    BY NoJobTyped
  <2>2. NoProfiles \in Files /\ profile \in ProfileTable
    BY DEF NoProfiles, Files, ProfileTable
  <2>3. reload \in [Reloads -> [at : {"idle", "parsed", "upserted"}, parsed : Files]]
    BY <2>2 DEF NoReload
  <2> QED
    BY <2>1, <2>2, <2>3, EmptyTablesTyped DEF TypeOK
<1>2. JobsScoreThreats
  BY NoJobTyped DEF JobsScoreThreats
<1>3. ScoreInRange /\ ScoresHaveOwners
  BY DEF ScoreInRange, ScoresHaveOwners, NoScores
<1> QED
  BY <1>1, <1>2, <1>3 DEF IInv

\* The steps that change only one job's place.
LEMMA PlaceStepSafe ==
  ASSUME IInv, NEW j \in Jobs, NEW new \in JobRecords,
         new.todo \subseteq Present, new.chunk \subseteq Present, Become(j, new),
         UNCHANGED <<profile, threat, recent, score, reload>>, faults' \in Nat
  PROVE  IInv'
<1>1. job' \in [Jobs -> JobRecords] /\ JobsScoreThreats'
  BY BecomeSafe DEF IInv, JobsScoreThreats
<1>2. TypeOK'
  BY <1>1 DEF IInv, TypeOK
<1>3. ScoreInRange' /\ ScoresHaveOwners'
  BY DEF IInv, ScoreInRange, ScoresHaveOwners
<1> QED
  BY <1>1, <1>2, <1>3 DEF IInv

LEMMA JobFacts ==
  ASSUME IInv, NEW j \in Jobs
  PROVE  /\ job[j] \in JobRecords
         /\ job[j].todo \subseteq Present /\ job[j].chunk \subseteq Present
         /\ job[j].todo \in SUBSET Threats /\ job[j].chunk \in SUBSET Threats
         /\ job[j].profiles \in ProfileTable /\ job[j].threats \in ThreatTable
         /\ job[j].scores \in ScoreTables /\ job[j].ingested \in BOOLEAN
<1>1. job[j] \in JobRecords
  BY DEF IInv, TypeOK
<1> QED
  BY <1>1 DEF IInv, JobRecords, JobsScoreThreats

LEMMA JobProfiledSafe ==
  ASSUME IInv, NEW j \in Jobs, NEW p \in ProfileTable
  PROVE  /\ Profiled(job[j].todo, p) \in JobRecords
         /\ Profiled(job[j].todo, p).todo \subseteq Present
         /\ Profiled(job[j].todo, p).chunk \subseteq Present
<1> DEFINE todo == job[j].todo
<1>1. todo \in SUBSET Threats /\ todo \subseteq Present
  BY JobFacts
<1> HIDE DEF todo
<1>2. /\ Profiled(todo, p) \in JobRecords
      /\ Profiled(todo, p).todo = todo /\ Profiled(todo, p).chunk = {}
  BY <1>1, ProfiledTyped
<1>3. /\ Profiled(todo, p).todo \subseteq Present
      /\ Profiled(todo, p).chunk \subseteq Present
  BY <1>1, <1>2
<1> QED
  BY <1>2, <1>3 DEF todo

LEMMA IngestSafe ==
  ASSUME IInv, NEW j \in Jobs, NEW t \in Threats, NEW c \in ThreatContents, Ingest(j, t, c)
  PROVE  IInv'
<1> USE ScoreTableAssumption
<1> DEFINE Later(k) == Waiting("fetching", job[k].ingested \/ k = j, job[k].todo \cup {t})
<1>1. threat' \in ThreatTable /\ Present' = Present \cup {t}
  BY DEF IInv, TypeOK, Ingest, ThreatTable, Present
<1>2. ASSUME NEW k \in Jobs
      PROVE  /\ Later(k) \in JobRecords
             /\ Later(k).todo = job[k].todo \cup {t} /\ Later(k).chunk = {}
  <2>1. (job[k].ingested \/ k = j) \in BOOLEAN
    OBVIOUS
  <2>2. job[k].todo \cup {t} \in SUBSET Threats
    BY JobFacts
  <2> HIDE DEF Later
  <2> QED
    BY <2>1, <2>2, WaitingTyped DEF Later, Places
<1>3. \A k \in Jobs : job'[k] = IF job[k].at = "fetching" THEN Later(k) ELSE job[k]
  BY DEF Ingest
<1> HIDE DEF Later
<1>4. job' \in [Jobs -> JobRecords]
  <2>1. job' = [k \in Jobs |-> IF job[k].at = "fetching" THEN Later(k) ELSE job[k]]
    BY DEF Ingest, Later
  <2> QED
    BY <1>2, <2>1, JobFacts
<1>5. JobsScoreThreats'
  <2>1. recent' \subseteq Present'
    BY <1>1 DEF Ingest, IInv, JobsScoreThreats
  <2>2. ASSUME NEW k \in Jobs
        PROVE  job'[k].todo \subseteq Present' /\ job'[k].chunk \subseteq Present'
    BY <1>1, <1>2, <1>3, JobFacts
  <2> QED
    BY <2>1, <2>2 DEF JobsScoreThreats
<1>6. TypeOK'
  BY <1>1, <1>4 DEF Ingest, IInv, TypeOK
<1>7. ScoreInRange' /\ ScoresHaveOwners'
  <2>1. \A u \in Threats : threat[u] # Absent => threat'[u] # Absent
    BY DEF Ingest, IInv, TypeOK, ThreatTable
  <2> QED
    BY <2>1 DEF Ingest, IInv, ScoreInRange, ScoresHaveOwners
<1> QED
  BY <1>5, <1>6, <1>7 DEF IInv

LEMMA LoadThreatsSafe ==
  ASSUME IInv, NEW j \in Jobs, LoadThreats(j)
  PROVE  IInv'
<1>1. PICK c \in Chunks(job[j].todo) :
        Become(j, Job("read", TRUE, job[j].todo \ c, job[j].profiles, c,
                      [t \in Threats |-> IF t \in c THEN threat[t] ELSE Absent], NoScores))
  BY DEF LoadThreats
<1> DEFINE read == [t \in Threats |-> IF t \in c THEN threat[t] ELSE Absent]
           new  == Job("read", TRUE, job[j].todo \ c, job[j].profiles, c, read, NoScores)
<1>2. c \subseteq job[j].todo
  BY DEF Chunks
<1>3. read \in ThreatTable
  BY DEF IInv, TypeOK, ThreatTable
<1>4. new \in JobRecords
  <2> HIDE DEF read
  <2> QED
    BY <1>2, <1>3, EmptyTablesTyped, JobFacts, JobTyped DEF Places
<1>5. new.todo \subseteq Present /\ new.chunk \subseteq Present
  BY <1>2, JobFacts DEF Job
<1>6. Become(j, new) /\ UNCHANGED <<profile, threat, recent, score, reload>> /\ faults' \in Nat
  BY <1>1 DEF LoadThreats, IInv, TypeOK
<1> HIDE DEF new
<1> QED
  BY <1>4, <1>5, <1>6, PlaceStepSafe

LEMMA LoadScoresSafe ==
  ASSUME IInv, NEW j \in Jobs, LoadScores(j)
  PROVE  IInv'
<1> DEFINE c    == job[j].chunk
           had  == [t \in Threats |-> IF t \in c THEN score[t] ELSE NoScores[t]]
           new  == Job("loaded", TRUE, job[j].todo, job[j].profiles, c, job[j].threats, had)
<1>1. had \in ScoreTables
  BY EmptyTablesTyped DEF IInv, TypeOK, ScoreTables
<1>2. new \in JobRecords
  <2> HIDE DEF had
  <2> QED
    BY <1>1, JobFacts, JobTyped DEF Places
<1>3. new.todo \subseteq Present /\ new.chunk \subseteq Present
  BY JobFacts DEF Job
<1>4. Become(j, new) /\ UNCHANGED <<profile, threat, recent, score, reload>> /\ faults' \in Nat
  BY DEF LoadScores, IInv, TypeOK
<1> HIDE DEF new
<1> QED
  BY <1>2, <1>3, <1>4, PlaceStepSafe

\* A commit writes scores in range, of threats that exist (the job's chunk) and
\* of profiles that exist (no conflict).
LEMMA CommitChunkSafe ==
  ASSUME IInv, NEW j \in Jobs, CommitChunk(j)
  PROVE  IInv'
<1>1. CASE Conflict(j)
  <2>1. Become(j, NoJob) /\ UNCHANGED <<profile, threat, recent, score, reload>>
        /\ faults' \in Nat
    BY <1>1 DEF CommitChunk, IInv, TypeOK
  <2> QED
    BY <2>1, NoJobTyped, PlaceStepSafe
<1>2. CASE ~Conflict(j)
  <2>1. \A t \in Threats, s \in Sectors :
          score'[t][s] = IF <<t, s>> \in Scored(j) THEN Write(j, t, s) ELSE score[t][s]
    BY <1>2 DEF CommitChunk
  <2>2. \A t \in Threats, s \in Sectors : Computed(j, t, s) \in 0 .. ScoreMax
    BY ScoreBounded DEF Computed
  <2>3. \A t \in Threats, s \in Sectors :
          \/ score'[t][s] = score[t][s]
          \/ score'[t][s] \in 0 .. ScoreMax /\ <<t, s>> \in Scored(j)
    BY <2>1, <2>2 DEF Write
  <2>4. \A t \in Threats, s \in Sectors :
          <<t, s>> \in Scored(j) => t \in Present /\ profile[s] # Absent
    BY <1>2, JobFacts DEF Scored, Conflict
  <2>5. score' \in ScoreTables
    <3>1. score' = [t \in Threats |-> [s \in Sectors |->
                     IF <<t, s>> \in Scored(j) THEN Write(j, t, s) ELSE score[t][s]]]
      BY <1>2 DEF CommitChunk
    <3>2. \A t \in Threats, s \in Sectors : score[t][s] \in Int \cup {NoScore}
      BY DEF IInv, TypeOK, ScoreTables
    <3>3. \A t \in Threats, s \in Sectors : Computed(j, t, s) \in Int
      BY <2>2 DEF ScoreMax
    <3>4. \A t \in Threats, s \in Sectors :
            (IF <<t, s>> \in Scored(j) THEN Write(j, t, s) ELSE score[t][s])
              \in Int \cup {NoScore}
      BY <3>2, <3>3 DEF Write
    <3> QED
      BY <3>1, <3>4 DEF ScoreTables
  <2>6. ScoreInRange' /\ ScoresHaveOwners'
    <3>1. ScoreInRange'
      BY <2>3 DEF IInv, ScoreInRange
    <3>2. UNCHANGED <<threat, profile>>
      BY DEF CommitChunk
    <3> QED
      BY <2>3, <2>4, <3>1, <3>2 DEF IInv, ScoresHaveOwners, Present
  <2>7. job' \in [Jobs -> JobRecords] /\ JobsScoreThreats'
    <3> DEFINE on  == Profiled(job[j].todo, job[j].profiles)
               new == IF job[j].todo = {} THEN NoJob ELSE on
    <3>1. Become(j, new) /\ UNCHANGED <<threat, recent>>
      BY <1>2 DEF CommitChunk
    <3>2. TypeOK /\ JobsScoreThreats /\ recent' \subseteq Present
      BY <3>1 DEF IInv, JobsScoreThreats
    <3>3. new \in JobRecords /\ new.todo \subseteq Present /\ new.chunk \subseteq Present
      <4>1. job[j].profiles \in ProfileTable
        BY JobFacts
      <4>2. on \in JobRecords /\ on.todo \subseteq Present /\ on.chunk \subseteq Present
        BY <4>1, JobProfiledSafe
      <4> HIDE DEF on
      <4> QED
        BY <4>2, NoJobTyped
    <3> HIDE DEF new
    <3>4. threat' = threat
      BY <3>1
    <3> QED
      BY <3>1, <3>2, <3>3, <3>4, BecomeSafe
  <2>8. TypeOK'
    BY <2>5, <2>7 DEF CommitChunk, IInv, TypeOK
  <2> QED
    BY <2>6, <2>7, <2>8 DEF IInv
<1> QED
  BY <1>1, <1>2

LEMMA RemoveStaleSafe ==
  ASSUME IInv, NEW r \in Reloads, RemoveStale(r)
  PROVE  IInv'
<1>1. /\ \A s \in Sectors : profile'[s] = IF s \in Seen(r) THEN profile[s] ELSE Absent
      /\ \A t \in Threats, s \in Sectors :
           score'[t][s] = IF s \in Seen(r) THEN score[t][s] ELSE NoScore
  BY DEF RemoveStale
<1>2. profile' \in ProfileTable /\ score' \in ScoreTables
  <2>1. profile' \in ProfileTable
    BY DEF RemoveStale, IInv, TypeOK, ProfileTable
  <2>2. \A t \in Threats, s \in Sectors :
          (IF s \in Seen(r) THEN score[t][s] ELSE NoScore) \in Int \cup {NoScore}
    BY DEF IInv, TypeOK, ScoreTables
  <2> QED
    BY <2>1, <2>2 DEF RemoveStale, ScoreTables
<1>3. reload' \in [Reloads -> [at : {"idle", "parsed", "upserted"}, parsed : Files]]
  BY ReloadTyped DEF RemoveStale, ReloadBecomes, IInv, TypeOK
<1>4. TypeOK'
  BY <1>2, <1>3 DEF RemoveStale, IInv, TypeOK
<1>5. JobsScoreThreats'
  BY DEF RemoveStale, IInv, JobsScoreThreats, Present
<1>6. ScoreInRange' /\ ScoresHaveOwners'
  BY <1>1 DEF RemoveStale, IInv, ScoreInRange, ScoresHaveOwners
<1> QED
  BY <1>4, <1>5, <1>6 DEF IInv

LEMMA UpsertProfilesSafe ==
  ASSUME IInv, NEW r \in Reloads, UpsertProfiles(r)
  PROVE  IInv'
<1> USE ScoreTableAssumption
<1>1. \A s \in Sectors :
        /\ profile'[s] = IF s \in Seen(r) THEN reload[r].parsed[s] ELSE profile[s]
        /\ s \in Seen(r) => reload[r].parsed[s] \in ProfileContents
  BY DEF UpsertProfiles, Seen
<1>2. profile' \in ProfileTable
  BY <1>1 DEF UpsertProfiles, IInv, TypeOK, ProfileTable
<1>3. reload' \in [Reloads -> [at : {"idle", "parsed", "upserted"}, parsed : Files]]
  BY DEF UpsertProfiles, ReloadBecomes, IInv, TypeOK
<1>4. TypeOK'
  BY <1>2, <1>3 DEF UpsertProfiles, IInv, TypeOK
<1>5. JobsScoreThreats' /\ ScoreInRange'
  BY DEF UpsertProfiles, IInv, JobsScoreThreats, ScoreInRange, Present
<1>6. ScoresHaveOwners'
  <2>1. \A s \in Sectors : profile[s] # Absent => profile'[s] # Absent
    BY <1>1
  <2> QED
    BY <2>1 DEF UpsertProfiles, IInv, ScoresHaveOwners
<1> QED
  BY <1>4, <1>5, <1>6 DEF IInv

THEOREM StepSafe == IInv /\ [Next]_vars => IInv'
<1> SUFFICES ASSUME IInv, [Next]_vars PROVE IInv'
  OBVIOUS
<1> USE ScoreTableAssumption
<1>1. ASSUME NEW j \in Jobs, NEW new \in JobRecords,
             new.todo \subseteq Present, new.chunk \subseteq Present, Become(j, new),
             UNCHANGED <<profile, threat, recent, score, reload, faults>>
      PROVE  IInv'
  BY <1>1, PlaceStepSafe DEF IInv, TypeOK
<1>2. ASSUME NEW todo \in SUBSET Threats, todo \subseteq Present,
             NEW at \in Places, NEW i \in BOOLEAN
      PROVE  /\ Waiting(at, i, todo) \in JobRecords
             /\ Waiting(at, i, todo).todo \subseteq Present
             /\ Waiting(at, i, todo).chunk \subseteq Present
  BY <1>2, WaitingTyped
<1>3. NoJob \in JobRecords /\ NoJob.todo \subseteq Present /\ NoJob.chunk \subseteq Present
  BY NoJobTyped
<1>4. Present \subseteq Threats /\ recent \subseteq Present /\ recent \in SUBSET Threats
  BY DEF Present, IInv, JobsScoreThreats
<1>5. ASSUME NEW j \in Jobs, StartRun(j) PROVE IInv'
  BY <1>1, <1>2, <1>5 DEF StartRun, Places
<1>6. ASSUME NEW j \in Jobs, EndFetch(j) PROVE IInv'
  BY <1>1, <1>2, <1>3, <1>6, JobFacts DEF EndFetch, Places
<1>7. ASSUME NEW j \in Jobs, FetchRaises(j) PROVE IInv'
  BY <1>1, <1>3, <1>7 DEF FetchRaises
<1>8. ASSUME NEW j \in Jobs, StartRescore(j) PROVE IInv'
  BY <1>1, <1>2, <1>4, <1>8 DEF StartRescore, Places, Present
<1>9. ASSUME NEW j \in Jobs, LoadProfiles(j) PROVE IInv'
  <2>1. /\ Profiled(job[j].todo, profile) \in JobRecords
        /\ Profiled(job[j].todo, profile).todo \subseteq Present
        /\ Profiled(job[j].todo, profile).chunk \subseteq Present
    BY JobProfiledSafe DEF IInv, TypeOK
  <2>2. CASE job[j].todo = {} \/ profile = NoProfiles
    BY <1>1, <1>3, <1>9, <2>2 DEF LoadProfiles
  <2>3. CASE ~(job[j].todo = {} \/ profile = NoProfiles)
    BY <1>1, <1>9, <2>1, <2>3 DEF LoadProfiles
  <2> QED
    BY <2>2, <2>3
<1>10. ASSUME NEW j \in Jobs, LoadThreats(j) \/ LoadScores(j) \/ CommitChunk(j) PROVE IInv'
  BY <1>10, LoadThreatsSafe, LoadScoresSafe, CommitChunkSafe
<1>11. ASSUME NEW j \in Jobs, JobRaises(j) PROVE IInv'
  <2>1. faults' \in Nat
    BY <1>11 DEF JobRaises, IInv, TypeOK
  <2> QED
    BY <1>3, <1>11, <2>1, PlaceStepSafe DEF JobRaises
<1>12. CASE StartDaily
  BY <1>1, <1>2, <1>4, <1>12 DEF StartDaily, Places
<1>13. ASSUME NEW t \in Threats, Age(t) PROVE IInv'
  BY <1>13 DEF Age, IInv, TypeOK, JobsScoreThreats, ScoreInRange, ScoresHaveOwners, Present
<1>14. ASSUME NEW r \in Reloads, ParseFiles(r) PROVE IInv'
  <2>1. reload' \in [Reloads -> [at : {"idle", "parsed", "upserted"}, parsed : Files]]
    BY <1>14 DEF ParseFiles, ReloadBecomes, IInv, TypeOK, Files
  <2> QED
    BY <1>14, <2>1 DEF ParseFiles, IInv, TypeOK, JobsScoreThreats, ScoreInRange,
                       ScoresHaveOwners, Present
<1>15. ASSUME NEW r \in Reloads, ReloadRaises(r) PROVE IInv'
  <2>1. reload' \in [Reloads -> [at : {"idle", "parsed", "upserted"}, parsed : Files]]
    BY <1>15, ReloadTyped DEF ReloadRaises, ReloadBecomes, IInv, TypeOK
  <2> QED
    BY <1>15, <2>1 DEF ReloadRaises, IInv, TypeOK, JobsScoreThreats, ScoreInRange,
                       ScoresHaveOwners, Present
<1>16. CASE UNCHANGED vars
  BY <1>16 DEF vars, IInv, TypeOK, JobsScoreThreats, ScoreInRange, ScoresHaveOwners, Present
<1> QED
  BY <1>5, <1>6, <1>7, <1>8, <1>9, <1>10, <1>11, <1>12, <1>13, <1>14, <1>15, <1>16,
     IngestSafe, RemoveStaleSafe, UpsertProfilesSafe
     DEF Next, JobStep, ReloadStep

THEOREM Inductive == Spec => []IInv
BY InitSafe, StepSafe, PTL DEF Spec

\* The tables and what sessions hold of them keep their types; in particular no
\* profile that failed validation is ever in the table (profile_loader.py:98-153).
THEOREM TypeCorrect == Spec => []TypeOK
<1>1. IInv => TypeOK
  BY DEF IInv
<1> QED
  BY <1>1, Inductive, PTL

\* Every score in the table is between 0 and 100 (sector_scoring.py:198).
THEOREM ScoresStayInRange == Spec => []ScoreInRange
<1>1. IInv => ScoreInRange
  BY DEF IInv
<1> QED
  BY <1>1, Inductive, PTL

\* However jobs and reloads interleave, no score survives its profile and none is
\* written for a threat or a profile that does not exist.
THEOREM NoOrphans == Spec => []ScoresHaveOwners
<1>1. IInv => ScoresHaveOwners
  BY DEF IInv
<1> QED
  BY <1>1, Inductive, PTL
-----------------------------------------------------------------------------
(* What keeps the scores of a threat right once they are.  A job that scores *)
(* it is up to date when what it has loaded of the threat and of the         *)
(* profiles is what the tables hold; what it has loaded of the scores may be *)
(* stale.                                                                    *)

UpToDate(j, t) ==
  /\ t \in job[j].chunk => job[j].threats[t] = threat[t]
  /\ job[j].at \in {"profiled", "read", "loaded"} /\ t \in job[j].todo \cup job[j].chunk =>
       job[j].profiles = profile

Settled(t) == \A j \in Jobs : UpToDate(j, t)

LEMMA BecomeSettled ==
  ASSUME IInv, NEW t \in Threats, Settled(t), NEW j \in Jobs, NEW new, Become(j, new),
         threat'[t] = threat[t], profile' = profile,
         t \in new.chunk => new.threats[t] = threat[t],
         new.at \in {"profiled", "read", "loaded"} /\ t \in new.todo \cup new.chunk =>
           new.profiles = profile
  PROVE  Settled(t)'
<1>1. /\ job'[j] = new /\ \A k \in Jobs \ {j} : job'[k] = job[k]
  BY DEF Become, IInv, TypeOK
<1> QED
  BY <1>1 DEF Settled, UpToDate

\* A job that only waits holds no copies.
LEMMA WaitingHoldsNothing ==
  ASSUME NEW at, NEW i, NEW todo
  PROVE  /\ Waiting(at, i, todo).at = at /\ Waiting(at, i, todo).chunk = {}
         /\ Waiting(at, i, todo).todo = todo
BY DEF Waiting, Job

LEMMA WaitsSettled ==
  ASSUME IInv, NEW t \in Threats, Settled(t), NEW j \in Jobs, threat' = threat, profile' = profile,
         \E at \in {"idle", "fetching", "ready"} : \E i, todo : Become(j, Waiting(at, i, todo))
  PROVE  Settled(t)'
<1>1. PICK at \in {"idle", "fetching", "ready"} :
        \E i, todo : Become(j, Waiting(at, i, todo))
  OBVIOUS
<1>2. PICK i, todo : Become(j, Waiting(at, i, todo))
  BY <1>1
<1> DEFINE new == Waiting(at, i, todo)
<1>3. new.at = at /\ new.chunk = {}
  BY WaitingHoldsNothing
<1> HIDE DEF new
<1>4. Become(j, new)
  BY <1>2 DEF new
<1> QED
  BY <1>3, <1>4, BecomeSettled

LEMMA ProfiledSettled ==
  ASSUME IInv, NEW t \in Threats, Settled(t), NEW j \in Jobs, threat' = threat, profile' = profile,
         NEW todo, NEW p, Become(j, Profiled(todo, p)), t \in todo => p = profile
  PROVE  Settled(t)'
<1> DEFINE new == Profiled(todo, p)
<1>1. new.chunk = {} /\ new.todo = todo /\ new.profiles = p
  BY DEF Profiled, Job
<1> HIDE DEF new
<1>2. Become(j, new)
  BY DEF new
<1> QED
  BY <1>1, <1>2, BecomeSettled

LEMMA LoadSettled ==
  ASSUME IInv, NEW t \in Threats, Settled(t), NEW j \in Jobs, LoadThreats(j) \/ LoadScores(j)
  PROVE  Settled(t)'
<1>1. CASE LoadThreats(j)
  <2>1. PICK c \in Chunks(job[j].todo) :
          Become(j, Job("read", TRUE, job[j].todo \ c, job[j].profiles, c,
                        [u \in Threats |-> IF u \in c THEN threat[u] ELSE Absent], NoScores))
    BY <1>1 DEF LoadThreats
  <2> DEFINE new == Job("read", TRUE, job[j].todo \ c, job[j].profiles, c,
                        [u \in Threats |-> IF u \in c THEN threat[u] ELSE Absent], NoScores)
  <2>2. /\ new.chunk = c /\ new.todo = job[j].todo \ c /\ new.profiles = job[j].profiles
        /\ t \in c => new.threats[t] = threat[t]
    BY DEF Job
  <2>3. c \subseteq job[j].todo /\ job[j].at = "profiled" /\ UNCHANGED <<threat, profile>>
    BY <1>1 DEF Chunks, LoadThreats
  <2>4. t \in job[j].todo => job[j].profiles = profile
    BY <2>3 DEF Settled, UpToDate
  <2> HIDE DEF new
  <2>5. Become(j, new)
    BY <2>1 DEF new
  <2> QED
    BY <2>2, <2>3, <2>4, <2>5, BecomeSettled
<1>2. CASE LoadScores(j)
  <2> DEFINE new == Job("loaded", TRUE, job[j].todo, job[j].profiles, job[j].chunk, job[j].threats,
                        [u \in Threats |-> IF u \in job[j].chunk THEN score[u] ELSE NoScores[u]])
  <2>1. /\ new.chunk = job[j].chunk /\ new.todo = job[j].todo
        /\ new.profiles = job[j].profiles /\ new.threats = job[j].threats
    BY DEF Job
  <2>2. job[j].at = "read" /\ UNCHANGED <<threat, profile>> /\ Become(j, new)
    BY <1>2 DEF LoadScores
  <2> HIDE DEF new
  <2>3. /\ t \in job[j].chunk => job[j].threats[t] = threat[t]
        /\ t \in job[j].todo \cup job[j].chunk => job[j].profiles = profile
    BY <2>2 DEF Settled, UpToDate
  <2> QED
    BY <2>1, <2>2, <2>3, BecomeSettled
<1> QED
  BY <1>1, <1>2

LEMMA CommitSettled ==
  ASSUME IInv, NEW t \in Threats, Settled(t), NEW j \in Jobs, CommitChunk(j)
  PROVE  Settled(t)' /\ (Fresh(t) => Fresh(t)')
<1>1. job[j].at = "loaded" /\ UNCHANGED <<threat, profile>>
  BY DEF CommitChunk
<1>2. /\ t \in job[j].chunk => job[j].threats[t] = threat[t]
      /\ t \in job[j].todo \cup job[j].chunk => job[j].profiles = profile
  BY <1>1 DEF Settled, UpToDate
<1>3. CASE Conflict(j)
  <2>1. Become(j, NoJob) /\ UNCHANGED score
    BY <1>3 DEF CommitChunk
  <2>2. Settled(t)'
    BY <1>1, <2>1, WaitsSettled DEF NoJob
  <2> QED
    BY <1>1, <2>1, <2>2 DEF Fresh
<1>4. CASE ~Conflict(j)
  <2>1. Settled(t)'
    <3>1. CASE job[j].todo = {}
      BY <1>1, <1>4, <3>1, WaitsSettled DEF CommitChunk, NoJob
    <3>2. CASE job[j].todo # {}
      <4>1. Become(j, Profiled(job[j].todo, job[j].profiles))
        BY <1>4, <3>2 DEF CommitChunk
      <4> QED
        BY <1>1, <1>2, <4>1, ProfiledSettled
    <3> QED
      BY <3>1, <3>2
  <2>2. ASSUME Fresh(t), NEW s \in Sectors, threat'[t] # Absent, profile'[s] # Absent
        PROVE  score'[t][s] = Score(threat'[t], profile'[s])
    <3>1. score[t][s] = Score(threat[t], profile[s])
      BY <1>1, <2>2 DEF Fresh
    <3>2. score'[t][s] = IF <<t, s>> \in Scored(j) THEN Write(j, t, s) ELSE score[t][s]
      BY <1>4 DEF CommitChunk
    <3>3. <<t, s>> \in Scored(j) => Computed(j, t, s) = score[t][s]
      BY <1>2, <3>1 DEF Scored, Computed
    <3> QED
      BY <1>1, <3>1, <3>2, <3>3 DEF Write
  <2> QED
    BY <2>1, <2>2 DEF Fresh
<1> QED
  BY <1>3, <1>4

LEMMA StepSettled ==
  ASSUME IInv, NEW t \in Threats, Settled(t), threat'[t] = threat[t], profile' = profile,
         [Next]_vars
  PROVE  Settled(t)' /\ (Fresh(t) => Fresh(t)')
<1>1. ASSUME UNCHANGED <<job, score>> PROVE Settled(t)' /\ (Fresh(t) => Fresh(t)')
  BY <1>1 DEF Settled, UpToDate, Fresh
<1>2. ASSUME UNCHANGED score, Settled(t)' PROVE Fresh(t) => Fresh(t)'
  BY <1>2 DEF Fresh
<1>3. ASSUME NEW j \in Jobs, StartRun(j) \/ EndFetch(j) \/ FetchRaises(j) \/ StartRescore(j)
                             \/ JobRaises(j)
      PROVE  Settled(t)' /\ UNCHANGED score
  BY <1>3, WaitsSettled DEF StartRun, EndFetch, FetchRaises, StartRescore, JobRaises, NoJob
<1>4. ASSUME StartDaily PROVE Settled(t)' /\ UNCHANGED score
  BY <1>4, WaitsSettled, ScoreTableAssumption DEF StartDaily
<1>5. ASSUME NEW j \in Jobs, LoadProfiles(j) PROVE Settled(t)' /\ UNCHANGED score
  BY <1>5, WaitsSettled, ProfiledSettled DEF LoadProfiles, NoJob
<1>6. ASSUME NEW j \in Jobs, NEW u \in Threats, NEW c \in ThreatContents, Ingest(j, u, c)
      PROVE  Settled(t)' /\ UNCHANGED score
  <2>1. ASSUME NEW k \in Jobs PROVE UpToDate(k, t)'
    <3>1. CASE job[k].at = "fetching"
      <4>1. PICK i, todo : job'[k] = Waiting("fetching", i, todo)
        BY <1>6, <3>1 DEF Ingest
      <4>2. job'[k].at = "fetching" /\ job'[k].chunk = {}
        BY <4>1, WaitingHoldsNothing
      <4> QED
        BY <4>2 DEF UpToDate
    <3>2. CASE job[k].at # "fetching"
      BY <1>6, <3>2 DEF Ingest, Settled, UpToDate
    <3> QED
      BY <3>1, <3>2
  <2> QED
    BY <1>6, <2>1 DEF Ingest, Settled
<1>7. ASSUME NEW j \in Jobs, LoadThreats(j) \/ LoadScores(j) PROVE Settled(t)' /\ UNCHANGED score
  BY <1>7, LoadSettled DEF LoadThreats, LoadScores
<1>8. ASSUME NEW u \in Threats, Age(u) PROVE UNCHANGED <<job, score>>
  BY <1>8 DEF Age
<1>9. ASSUME NEW r \in Reloads, RemoveStale(r) PROVE Settled(t)' /\ (Fresh(t) => Fresh(t)')
  <2>1. UNCHANGED <<job, threat, profile>>
    BY <1>9 DEF RemoveStale
  <2>2. ASSUME NEW s \in Sectors, profile'[s] # Absent PROVE score'[t][s] = score[t][s]
    BY <1>9, <2>2 DEF RemoveStale
  <2> QED
    BY <2>1, <2>2 DEF Settled, UpToDate, Fresh
<1>10. ASSUME NEW r \in Reloads, ParseFiles(r) \/ UpsertProfiles(r) \/ ReloadRaises(r)
       PROVE  UNCHANGED <<job, score>>
  BY <1>10 DEF ParseFiles, UpsertProfiles, ReloadRaises
<1>11. CASE UNCHANGED vars
  BY <1>1, <1>11 DEF vars
<1>12. CASE Next
  BY <1>1, <1>2, <1>3, <1>4, <1>5, <1>6, <1>7, <1>8, <1>9, <1>10, <1>12, CommitSettled
     DEF Next, JobStep, ReloadStep
<1> QED
  BY <1>11, <1>12

\* Scores that are right stay right, whatever jobs overwrite them and whatever else is
\* reloaded, ingested or fails, as long as the threat and the profiles do not change and
\* no job in flight has copies from before they did; and then no job ever has any.  The
\* scores that a job has loaded may be stale: its UPDATE, which leaves out a score that
\* it has loaded already, does not go wrong by it (scoring_job.py:101-141).  This is the
\* safety half of EventuallyFresh.
THEOREM RightScoresStay ==
  Spec => [][\A t \in Threats :
               Settled(t) /\ threat'[t] = threat[t] /\ profile' = profile =>
                 Settled(t)' /\ (Fresh(t) => Fresh(t)')]_vars
<1>1. IInv /\ [Next]_vars =>
        [\A t \in Threats :
           Settled(t) /\ threat'[t] = threat[t] /\ profile' = profile =>
             Settled(t)' /\ (Fresh(t) => Fresh(t)')]_vars
  BY StepSettled
<1> QED
  BY <1>1, Inductive, PTL DEF Spec

LEMMA CommitRight ==
  ASSUME NEW t \in Threats, NEW j \in Jobs, CommitChunk(j), ~Conflict(j),
         t \in job[j].chunk, UpToDate(j, t), job[j].scores[t] = score[t]
  PROVE  Fresh(t)'
<1> SUFFICES ASSUME NEW s \in Sectors, threat'[t] # Absent, profile'[s] # Absent
             PROVE  score'[t][s] = Score(threat'[t], profile'[s])
  BY DEF Fresh
<1>1. UNCHANGED <<threat, profile>> /\ job[j].profiles = profile /\ job[j].threats[t] = threat[t]
  BY DEF CommitChunk, UpToDate
<1>2. <<t, s>> \in Scored(j)
  BY <1>1 DEF Scored
<1>3. score'[t][s] = Write(j, t, s)
  BY <1>2 DEF CommitChunk
<1> QED
  BY <1>1, <1>3 DEF Write, Computed

\* And how they become right: by the commit of a job that is up to date, if nobody has
\* written the threat's scores since the job has loaded them.
THEOREM CommitsMakeRight ==
  Spec => [][\A t \in Threats : \A j \in Jobs :
               CommitChunk(j) /\ ~Conflict(j) /\ t \in job[j].chunk /\ UpToDate(j, t)
               /\ job[j].scores[t] = score[t] => Fresh(t)']_vars
<1>1. [Next]_vars =>
        [\A t \in Threats : \A j \in Jobs :
           CommitChunk(j) /\ ~Conflict(j) /\ t \in job[j].chunk /\ UpToDate(j, t)
           /\ job[j].scores[t] = score[t] => Fresh(t)']_vars
  BY CommitRight
<1> QED
  BY <1>1, PTL DEF Spec
=============================================================================

----------------------------- MODULE ScoreTable -----------------------------
(***************************************************************************)
(* The table threat_sector_score and what changes it: ingestion runs that  *)
(* score what they have ingested (services/ingestion.py), the daily job    *)
(* (main.py) and the operator's rescoring (api/v1/admin.py), which all go  *)
(* through ThreatScoringJob (services/scoring_job.py), and the reload of   *)
(* the sector profiles (services/profile_loader.py).                       *)
(*                                                                         *)
(* A job loads the profiles once.  It then works through its threats chunk *)
(* by chunk, each a transaction: SELECT the threats and the scores they    *)
(* have, compute, INSERT or UPDATE, COMMIT.  Two jobs, or a job and a      *)
(* reload, may interleave between any two of these steps.                  *)
(*                                                                         *)
(* A threat and a profile are represented by what the score depends on.    *)
(* The breakdown and calculated_at are left out; since calculated_at always*)
(* changes, a row that exists is always updated.  Deletes cascade from a   *)
(* profile to its scores; nothing deletes a threat.                        *)
(***************************************************************************)
EXTENDS SectorScore, FiniteSets

CONSTANTS
  Threats,          \* threats that may be ingested
  Sectors,          \* ids of sector profiles
  Jobs,             \* the runs and scoring jobs that may be in flight at once
  Daily,            \* the one of them that is the daily job (max_instances=1)
  Reloads,          \* the reload requests that may be in flight at once
  ThreatContents,   \* what sources may say of a threat
  ProfileContents,  \* what a profile's file may hold
  Invalid,          \* a profile's file that cannot be read or is not valid
  Absent,           \* no such threat, profile or file
  NoScore,          \* no such row in threat_sector_score
  ChunkSize,        \* threats in one transaction (200 in the code)
  MaxFaults         \* bound on database errors

ASSUME ScoreTableAssumption ==
  /\ Daily \in Jobs
  /\ ChunkSize \in Nat \ {0} /\ MaxFaults \in Nat
  /\ Absent \notin ThreatContents \cup ProfileContents
  /\ NoScore \notin Int

VARIABLES
  profile,  \* the table sector_profile
  threat,   \* the table threat
  recent,   \* the threats modified in the last seven days
  score,    \* the table threat_sector_score
  job,      \* where each run or job is, and its local variables
  reload,   \* where each reload is, and its local variables
  faults    \* database errors so far

vars == <<profile, threat, recent, score, job, reload, faults>>

NoProfiles == [s \in Sectors |-> Absent]
NoThreats  == [t \in Threats |-> Absent]
NoScores   == [t \in Threats |-> [s \in Sectors |-> NoScore]]

\* fetching: a run is in its fetch loop, todo are the threats whose updated_at
\* is later than its start.  ready: todo are the ids to score.  profiled: the
\* profiles are loaded, the next chunk is not.  read, loaded: the chunk's threats,
\* then its scores, have been read, in the chunk's transaction.
Job(at, ingested, todo, profiles, chunk, threats, scores) ==
  [at |-> at, ingested |-> ingested, todo |-> todo, profiles |-> profiles,
   chunk |-> chunk, threats |-> threats, scores |-> scores]

Waiting(at, ingested, todo) == Job(at, ingested, todo, NoProfiles, {}, NoThreats, NoScores)
Profiled(todo, profiles) == Job("profiled", TRUE, todo, profiles, {}, NoThreats, NoScores)
NoJob == Waiting("idle", FALSE, {})

NoReload == [at |-> "idle", parsed |-> NoProfiles]

Init ==
  /\ profile \in [Sectors -> ProfileContents \cup {Absent}]  \* load_all at start-up
  /\ threat = NoThreats /\ recent = {}
  /\ score = NoScores
  /\ job = [j \in Jobs |-> NoJob]
  /\ reload = [r \in Reloads |-> NoReload]
  /\ faults = 0

Become(j, new) == job' = [job EXCEPT ![j] = new]
-----------------------------------------------------------------------------
(* Ingestion runs.                                                         *)

StartRun(j) ==
  /\ j # Daily /\ job[j].at = "idle"
  /\ Become(j, Waiting("fetching", FALSE, {}))
  /\ UNCHANGED <<profile, threat, recent, score, reload, faults>>

\* IngestService.process; the threat's updated_at is set, for every run's eyes.
Ingest(j, t, content) ==
  /\ job[j].at = "fetching"
  /\ threat' = [threat EXCEPT ![t] = content]
  /\ recent' = recent \cup {t}
  /\ job' = [k \in Jobs |->
       IF job[k].at = "fetching"
       THEN Waiting("fetching", job[k].ingested \/ k = j, job[k].todo \cup {t})
       ELSE job[k]]
  /\ UNCHANGED <<profile, score, reload, faults>>

EndFetch(j) ==
  /\ job[j].at = "fetching"
  /\ Become(j, IF job[j].ingested THEN Waiting("ready", TRUE, job[j].todo) ELSE NoJob)
  /\ UNCHANGED <<profile, threat, recent, score, reload, faults>>

FetchRaises(j) ==
  /\ job[j].at = "fetching"
  /\ Become(j, NoJob)
  /\ UNCHANGED <<profile, threat, recent, score, reload, faults>>

\* Seven days have passed since t was last modified (daily_recent_window).
Age(t) ==
  /\ recent' = recent \ {t}
  /\ UNCHANGED <<profile, threat, score, job, reload, faults>>
-----------------------------------------------------------------------------
(* ThreatScoringJob.                                                       *)

\* score_threats_since(daily_recent_window())
StartDaily ==
  /\ job[Daily].at = "idle"
  /\ Become(Daily, Waiting("ready", TRUE, recent))
  /\ UNCHANGED <<profile, threat, recent, score, reload, faults>>

\* rescore_all, in the background of the operator's request.
StartRescore(j) ==
  /\ j # Daily /\ job[j].at = "idle"
  /\ Become(j, Waiting("ready", TRUE, {t \in Threats : threat[t] # Absent}))
  /\ UNCHANGED <<profile, threat, recent, score, reload, faults>>

LoadProfiles(j) ==
  /\ job[j].at = "ready"
  /\ Become(j, IF job[j].todo = {} \/ profile = NoProfiles THEN NoJob
               ELSE Profiled(job[j].todo, profile))
  /\ UNCHANGED <<profile, threat, recent, score, reload, faults>>

Chunks(todo) ==
  {c \in SUBSET todo : Cardinality(c) = ChunkSize \/ (c = todo /\ Cardinality(c) < ChunkSize)}

\* _load_threats, at the beginning of a chunk's transaction.
LoadThreats(j) ==
  /\ job[j].at = "profiled"
  /\ \E c \in Chunks(job[j].todo) :
       Become(j, Job("read", TRUE, job[j].todo \ c, job[j].profiles, c,
                     [t \in Threats |-> IF t \in c THEN threat[t] ELSE Absent], NoScores))
  /\ UNCHANGED <<profile, threat, recent, score, reload, faults>>

\* The SELECTs of _score_one, for the threats of the chunk.
LoadScores(j) ==
  /\ job[j].at = "read"
  /\ Become(j, Job("loaded", TRUE, job[j].todo, job[j].profiles, job[j].chunk, job[j].threats,
                   [t \in Threats |-> IF t \in job[j].chunk THEN score[t] ELSE NoScores[t]]))
  /\ UNCHANGED <<profile, threat, recent, score, reload, faults>>

Scored(j) == job[j].chunk \X {s \in Sectors : job[j].profiles[s] # Absent}

ConflictOfKeys(j) == \E r \in Scored(j) :
  (job[j].scores[r[1]][r[2]] = NoScore) # (score[r[1]][r[2]] = NoScore)

\* An INSERT fails if the row is there by now (primary key) or its profile is
\* not (foreign key); an UPDATE fails if its row has been deleted.
Conflict(j) == \E r \in Scored(j) :
  \/ (job[j].scores[r[1]][r[2]] = NoScore) # (score[r[1]][r[2]] = NoScore)
  \/ profile[r[2]] = Absent

Computed(j, t, s) == Score(job[j].threats[t], job[j].profiles[s])

\* Only the first score of a threat is ever written.
WriteOnce(j, t, s) == IF score[t][s] = NoScore THEN Computed(j, t, s) ELSE score[t][s]

\* The UPDATE leaves out a score that is what the session has loaded.
Write(j, t, s) ==
  IF Computed(j, t, s) = job[j].scores[t][s] THEN score[t][s] ELSE Computed(j, t, s)

CommitChunk(j) ==
  /\ job[j].at = "loaded"
  /\ IF Conflict(j)
     THEN Become(j, NoJob) /\ UNCHANGED score
     ELSE /\ score' = [t \in Threats |-> [s \in Sectors |->
                         IF <<t, s>> \in Scored(j) THEN Write(j, t, s) ELSE score[t][s]]]
          /\ Become(j, IF job[j].todo = {} THEN NoJob ELSE Profiled(job[j].todo, job[j].profiles))
  /\ UNCHANGED <<profile, threat, recent, reload, faults>>

\* A database error; the exception ends the run or job.
JobRaises(j) ==
  /\ job[j].at \in {"ready", "profiled", "read", "loaded"} /\ faults < MaxFaults
  /\ Become(j, NoJob)
  /\ faults' = faults + 1
  /\ UNCHANGED <<profile, threat, recent, score, reload>>

JobStep(j) == LoadProfiles(j) \/ LoadThreats(j) \/ LoadScores(j) \/ CommitChunk(j)
-----------------------------------------------------------------------------
(* SectorProfileLoader.load_all(remove_missing=True), the reload request.  *)

ReloadBecomes(r, new) == reload' = [reload EXCEPT ![r] = new]

SeenUnvalidated(r) == {s \in Sectors : reload[r].parsed[s] # Absent}

\* The profiles that were read: a file that cannot be read, parsed or validated
\* is skipped as if there were none.
Seen(r) == {s \in Sectors : reload[r].parsed[s] \in ProfileContents}

\* _parse_one on every file, which may have been edited since the last reload.
ParseFiles(r) ==
  /\ reload[r].at = "idle"
  /\ \E files \in [Sectors -> ProfileContents \cup {Invalid, Absent}] :
       ReloadBecomes(r, [at |-> "parsed", parsed |-> files])
  /\ UNCHANGED <<profile, threat, recent, score, job, faults>>

\* _upsert_many, one transaction.  It conflicts with another reload's at most,
\* and then raises.
UpsertProfiles(r) ==
  /\ reload[r].at = "parsed"
  /\ profile' = [s \in Sectors |-> IF s \in Seen(r) THEN reload[r].parsed[s] ELSE profile[s]]
  /\ ReloadBecomes(r, [at |-> "upserted", parsed |-> reload[r].parsed])
  /\ UNCHANGED <<threat, recent, score, job, faults>>

\* _remove_stale; the scores go with their profile (ON DELETE CASCADE).
RemoveStale(r) ==
  /\ reload[r].at = "upserted"
  /\ profile' = [s \in Sectors |-> IF s \in Seen(r) THEN profile[s] ELSE Absent]
  /\ score' = [t \in Threats |-> [s \in Sectors |->
                IF s \in Seen(r) THEN score[t][s] ELSE NoScore]]
  /\ ReloadBecomes(r, NoReload)
  /\ UNCHANGED <<threat, recent, job, faults>>

ReloadRaises(r) ==
  /\ reload[r].at # "idle" /\ faults < MaxFaults
  /\ ReloadBecomes(r, NoReload)
  /\ faults' = faults + 1
  /\ UNCHANGED <<profile, threat, recent, score, job>>

ReloadStep(r) == UpsertProfiles(r) \/ RemoveStale(r)
-----------------------------------------------------------------------------
Next ==
  \/ \E j \in Jobs :
       \/ StartRun(j) \/ EndFetch(j) \/ FetchRaises(j) \/ StartRescore(j)
       \/ JobStep(j) \/ JobRaises(j)
       \/ \E t \in Threats, c \in ThreatContents : Ingest(j, t, c)
  \/ StartDaily
  \/ \E t \in Threats : Age(t)
  \/ \E r \in Reloads : ParseFiles(r) \/ ReloadStep(r) \/ ReloadRaises(r)

Spec == Init /\ [][Next]_vars

\* The daily job is started every day, fetch loops end, and the event loop runs
\* what is ready.  Nobody has to reload profiles or to rescore.
Fairness ==
  /\ WF_vars(StartDaily)
  /\ \A j \in Jobs : WF_vars(JobStep(j)) /\ WF_vars(EndFetch(j) \/ FetchRaises(j))
  /\ \A r \in Reloads : WF_vars(ReloadStep(r))

FairSpec == Spec /\ Fairness
-----------------------------------------------------------------------------
Places == {"idle", "fetching", "ready", "profiled", "read", "loaded"}
ProfileTable == [Sectors -> ProfileContents \cup {Absent}]
ThreatTable  == [Threats -> ThreatContents \cup {Absent}]
ScoreTables  == [Threats -> [Sectors -> Int \cup {NoScore}]]
Files        == [Sectors -> ProfileContents \cup {Invalid, Absent}]

JobRecords ==
  [at : Places, ingested : BOOLEAN, todo : SUBSET Threats, profiles : ProfileTable,
   chunk : SUBSET Threats, threats : ThreatTable, scores : ScoreTables]

\* The types of the tables and of what sessions hold of them.  In particular a
\* profile is never one that failed validation.
TypeOK ==
  /\ profile \in ProfileTable /\ threat \in ThreatTable /\ recent \subseteq Threats
  /\ score \in ScoreTables
  /\ job \in [Jobs -> JobRecords]
  /\ reload \in [Reloads -> [at : {"idle", "parsed", "upserted"}, parsed : Files]]
  /\ faults \in Nat

\* A score is between 0 and 100, whatever the points add up to
\* (sector_scoring.py:198).
ScoreInRange ==
  \A t \in Threats, s \in Sectors : score[t][s] # NoScore => score[t][s] \in 0 .. ScoreMax

\* A score belongs to a threat and a profile that exist, although a job may have
\* loaded a profile that a reload deletes before the job commits.
ScoresHaveOwners ==
  \A t \in Threats, s \in Sectors :
    score[t][s] # NoScore => threat[t] # Absent /\ profile[s] # Absent

Fresh(t) ==
  \A s \in Sectors :
    threat[t] # Absent /\ profile[s] # Absent => score[t][s] = Score(threat[t], profile[s])

\* Scores computed from stale profiles, overwritten scores, jobs that fail on
\* each other's rows and runs that end without scoring are all made good: once
\* a threat and the profiles stop changing the daily job sees to it that the
\* threat's scores are those of what it and the profiles now are, if the threat
\* stays in the seven days that the job looks back on (`recent`).
EventuallyFresh ==
  \A t \in Threats :
    (<>[](t \in recent) /\ <>[][threat'[t] = threat[t] /\ profile' = profile]_vars)
      => <>[]Fresh(t)

\* A reload deletes only profiles whose file is no longer there; see the finding.
OnlyMissingAreRemoved ==
  [][\A r \in Reloads, s \in Sectors :
       RemoveStale(r) /\ profile[s] # Absent /\ profile'[s] = Absent
         => reload[r].parsed[s] = Absent]_vars
=============================================================================

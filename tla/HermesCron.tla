------------------------------ MODULE HermesCron ------------------------------
(***************************************************************************)
(* The part of Hermes' cron package that JL Agent drives, known from how   *)
(* the code calls it and from docs/PHASE6_UPSTREAM.patch: the job store of *)
(* one profile and the profile's config.yaml.  A job's version stands for  *)
(* all the fields semantic_fingerprint digests; "scheduled" is enabled.    *)
(***************************************************************************)
CONSTANTS Jobs, JobVersions, Configs

ASSUME CronAssumption == JobVersions # {}

VARIABLES jobs, config

JobStates == {"unborn", "paused", "scheduled", "removed"}

JobRecords == [state : JobStates, version : JobVersions]

CronTypeOK ==
    /\ jobs \in [Jobs -> JobRecords]
    /\ config \in Configs

CronInit ==
    /\ jobs = [j \in Jobs |-> [state |-> "unborn", version |-> CHOOSE v \in JobVersions : TRUE]]
    /\ config \in Configs

Exists(j) == jobs[j].state \in {"paused", "scheduled"}

Enabled(j) == jobs[j].state = "scheduled"

\* create_job with paused=True, under an identifier never used before.
CreateJob(j, v) ==
    /\ jobs[j].state = "unborn"
    /\ jobs' = [jobs EXCEPT ![j] = [state |-> "paused", version |-> v]]

\* pause_job, resume_job and remove_job return None for a job that is gone.
SetJob(j, s) == jobs' = IF Exists(j) THEN [jobs EXCEPT ![j].state = s] ELSE jobs

PauseJob(j) == SetJob(j, "paused")

ResumeJob(j) == SetJob(j, "scheduled")

RemoveJob(j) == SetJob(j, "removed")

\* Edits made in Hermes itself or in an editor, at any time.
EditJob ==
    /\ \E j \in Jobs, v \in JobVersions : Exists(j) /\ jobs' = [jobs EXCEPT ![j].version = v]
    /\ UNCHANGED config

EditConfig == config' \in Configs /\ UNCHANGED jobs

=============================================================================

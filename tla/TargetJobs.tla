------------------------------ MODULE TargetJobs ------------------------------
(***************************************************************************)
(* The PostgreSQL rows that record what is deployed where, and the         *)
(* triggers and unique indexes that guard them:                            *)
(*   releases          only the status column, which the triggers on       *)
(*                     release_jobs keep in step with the job,             *)
(*   release_jobs      one row per DEPLOY or ROLLBACK attempt,             *)
(*   deployment_heads  one row per target (application, environment): the  *)
(*                     DEPLOY job that supplied what is verified there.    *)
(* The definitions below are what the database admits, whichever process   *)
(* (API server or runner) issues the statement.  RunnerLease adds the      *)
(* runners, ReleaseWorkflow the API.                                       *)
(***************************************************************************)
CONSTANTS Job,        \* identities of release_jobs rows
          Release,    \* identities of releases rows
          Target,     \* (application, environment) pairs
          TargetOf,   \* the target of each release, fixed when it is created
          NoJob, NoRelease, NoTarget

ASSUME TargetJobsAssumption ==
    /\ NoJob \notin Job
    /\ NoRelease \notin Release
    /\ NoTarget \notin Target
    /\ TargetOf \in [Release -> Target]

VARIABLES
    relStatus,  \* releases.status
    jobs,       \* release_jobs
    latest,     \* per target, the row ORDER BY created_at DESC LIMIT 1 returns
    heads       \* deployment_heads.current_job_id

rowVars == <<relStatus, jobs, latest, heads>>

Terminal == {"SUCCESS", "FAILED", "ROLLED_BACK"}

\* The statuses a runner gives a claimed job, one per pipeline step.
Running == {"VALIDATING", "PRE_CHECK", "EXTRACTING", "IMAGE_INSPECT",
            "IMAGE_LOAD", "IMAGE_TAG", "IMAGE_PUSH", "DEPLOYING",
            "ROLLBACK", "VERIFYING"}

\* Before a release's first job, and while a request is being approved.
Requested == {"DRAFT", "UPLOADED", "PENDING_REVIEW", "UNDER_REVIEW",
              "APPROVED", "REJECTED"}

ReleaseStatus == {"ABSENT", "QUEUED"} \cup Requested \cup Running \cup Terminal

\* source is rollback_source_job_id: for a DEPLOY the head it was queued on,
\* for a ROLLBACK the DEPLOY whose images it restores.  The release columns
\* beside it always name that job's release and are not kept twice.
JobRow == [status  : {"ABSENT", "QUEUED"} \cup Running \cup Terminal,
           release : Release \cup {NoRelease},
           target  : Target \cup {NoTarget},
           op      : {"DEPLOY", "ROLLBACK"},
           source  : Job \cup {NoJob}]

NoRow == [status |-> "ABSENT", release |-> NoRelease, target |-> NoTarget,
          op |-> "DEPLOY", source |-> NoJob]

RowsTypeOK ==
    /\ relStatus \in [Release -> ReleaseStatus]
    /\ jobs \in [Job -> JobRow]
    /\ latest \in [Target -> Job \cup {NoJob}]
    /\ heads \in [Target -> Job \cup {NoJob}]

NoJobsInit ==
    /\ jobs = [j \in Job |-> NoRow]
    /\ latest = [t \in Target |-> NoJob]
    /\ heads = [t \in Target |-> NoJob]

Present(j) == jobs[j].status # "ABSENT"

InFlight(j) == jobs[j].status \in Running

Active(j) == jobs[j].status \in Running \cup {"QUEUED"}

\* A DEPLOY that was verified: the only thing a head or a rollback may name.
Verified(j) == j \in Job /\ jobs[j].op = "DEPLOY" /\ jobs[j].status = "SUCCESS"

\* Mutant: the release_job_status_sync trigger missing.
SetJobStatusOnly(j, s) ==
    /\ jobs' = [jobs EXCEPT ![j].status = s]
    /\ UNCHANGED relStatus

\* UPDATE release_jobs SET status, with release_job_status_sync behind it.
SetStatus(j, s) ==
    /\ jobs' = [jobs EXCEPT ![j].status = s]
    /\ relStatus' = [relStatus EXCEPT ![jobs[j].release] = s]

-------------------------------------------------------------------------------
(***************************************************************************)
(* Admission of a new job (BEFORE INSERT triggers and unique indexes).     *)
(***************************************************************************)

\* Mutant: a claimed job no longer counts as occupying its target.
TargetFreeOfQueued(t) ==
    \A j \in Job : jobs[j].target = t => jobs[j].status # "QUEUED"

\* release_jobs_active_target_idx and the release_job_00_target_lock trigger:
\* one non-terminal job per target.
TargetFree(t) == \A j \in Job : jobs[j].target = t => ~Active(j)

IsHeadRelease(r, t) == heads[t] # NoJob /\ jobs[heads[t]].release = r

\* What a rollback of release r must restore: the predecessor frozen in the
\* head's own row when r is deployed, the head itself when r is a failed attempt.
ExpectedSource(r, t) ==
    IF IsHeadRelease(r, t) THEN jobs[heads[t]].source ELSE heads[t]

\* Nothing was attempted since the head was reached.
SettledOnHead(t) ==
    \/ latest[t] = heads[t]
    \/ /\ latest[t] # NoJob
       /\ jobs[latest[t]].op = "ROLLBACK"
       /\ jobs[latest[t]].status = "ROLLED_BACK"
       /\ jobs[latest[t]].source = heads[t]

LatestFailed(r, t, op) ==
    /\ latest[t] # NoJob
    /\ jobs[latest[t]].release = r
    /\ jobs[latest[t]].op = op
    /\ jobs[latest[t]].status = "FAILED"

LatestFailedRollback(r, t) ==
    /\ LatestFailed(r, t, "ROLLBACK")
    /\ jobs[latest[t]].source = ExpectedSource(r, t)

RollbackAdmitted(r, t) ==
    /\ heads[t] # NoJob
    /\ Verified(ExpectedSource(r, t))
    /\ \/ LatestFailedRollback(r, t)
       \/ IsHeadRelease(r, t) /\ SettledOnHead(t)
       \/ ~IsHeadRelease(r, t) /\ LatestFailed(r, t, "DEPLOY")

\* Mutant: a DEPLOY whose row does not record the head it replaces.
SourceNotFrozen(r, op) ==
    IF op = "DEPLOY" THEN NoJob ELSE ExpectedSource(r, TargetOf[r])

\* Mutant: the release column copied where the basis job belongs.
SourceIsRelease(r, op) ==
    IF heads[TargetOf[r]] = NoJob THEN NoJob ELSE jobs[heads[TargetOf[r]]].release

FrozenSource(r, op) ==
    IF op = "DEPLOY" THEN heads[TargetOf[r]] ELSE ExpectedSource(r, TargetOf[r])

\* created_at defaults to now(), the time the inserting transaction began.  A
\* quick release keeps its transaction open while its artifact is stored, and
\* enqueueRelease while it waits for an upload to the release, so their jobs may
\* sort before jobs of other releases that ran meanwhile.
MaySortBefore(r, t) == latest[t] # NoJob /\ jobs[latest[t]].release # r

\* The rollback handler overwrites the QUEUED the trigger gives the release.
InsertJob(j, r, op) ==
    LET t == TargetOf[r] IN
    /\ ~Present(j)
    /\ TargetFree(t)
    /\ op = "ROLLBACK" => RollbackAdmitted(r, t)
    /\ jobs' = [jobs EXCEPT ![j] =
                  [status |-> "QUEUED", release |-> r, target |-> t,
                   op |-> op, source |-> FrozenSource(r, op)]]
    /\ relStatus' = [relStatus EXCEPT ![r] =
                       IF op = "DEPLOY" THEN "QUEUED" ELSE "ROLLBACK"]
    /\ \/ latest' = [latest EXCEPT ![t] = j]
       \/ op = "DEPLOY" /\ MaySortBefore(r, t) /\ UNCHANGED latest
    /\ UNCHANGED heads

-------------------------------------------------------------------------------
(***************************************************************************)
(* Terminal status and the head (verified_deployment_head_status_sync and  *)
(* the runner's own syncDeploymentHeadSQL, in the same transaction).       *)
(***************************************************************************)

\* Otherwise the trigger raises and the whole transaction is rolled back.
HeadSyncAccepted(j) ==
    LET t == jobs[j].target
        s == jobs[j].source IN
    \/ jobs[j].op = "DEPLOY"
    \/ /\ Verified(s)
       /\ heads[t] # NoJob
       /\ jobs[heads[t]].release \in {jobs[j].release, jobs[s].release}

\* The status that means "verified on the target" for the job's operation.
SuccessStatus(j) == IF jobs[j].op = "DEPLOY" THEN "SUCCESS" ELSE "ROLLED_BACK"

\* Mutant: a rollback leaving the head on the release it just replaced.
HeadNeverReturned(j) == IF jobs[j].op = "DEPLOY" THEN j ELSE heads[jobs[j].target]

SyncedHead(j) == IF jobs[j].op = "DEPLOY" THEN j ELSE jobs[j].source

\* Mutant: the predecessor read back from the head after it has moved.
FinishReadingBack(j) ==
    /\ HeadSyncAccepted(j)
    /\ jobs' = [jobs EXCEPT ![j].status = SuccessStatus(j), ![j].source = SyncedHead(j)]
    /\ relStatus' = [relStatus EXCEPT ![jobs[j].release] = SuccessStatus(j)]
    /\ heads' = [heads EXCEPT ![jobs[j].target] = SyncedHead(j)]
    /\ UNCHANGED latest

FinishSucceeded(j) ==
    /\ HeadSyncAccepted(j)
    /\ SetStatus(j, SuccessStatus(j))
    /\ heads' = [heads EXCEPT ![jobs[j].target] = SyncedHead(j)]
    /\ UNCHANGED latest

\* Mutant: the head synchronised for every terminal status.
FinishFailedMovingHead(js) ==
    /\ jobs' = [j \in Job |-> IF j \in js THEN [jobs[j] EXCEPT !.status = "FAILED"]
                                           ELSE jobs[j]]
    /\ relStatus' = [r \in Release |-> IF \E j \in js : jobs[j].release = r
                                         THEN "FAILED" ELSE relStatus[r]]
    /\ heads' = [t \in Target |->
                   IF \E j \in js : jobs[j].target = t
                     THEN CHOOSE j \in js : jobs[j].target = t ELSE heads[t]]
    /\ UNCHANGED latest

FinishFailed(js) ==
    /\ jobs' = [j \in Job |-> IF j \in js THEN [jobs[j] EXCEPT !.status = "FAILED"]
                                           ELSE jobs[j]]
    /\ relStatus' = [r \in Release |-> IF \E j \in js : jobs[j].release = r
                                         THEN "FAILED" ELSE relStatus[r]]
    /\ UNCHANGED <<latest, heads>>

-------------------------------------------------------------------------------
(***************************************************************************)
(* What the rows say, whoever writes them                                  *)
(***************************************************************************)

\* Whatever runners crash, stall or recover each other's work, a target never
\* has two unfinished jobs (release_jobs_active_target_idx, the advisory lock
\* and the trigger behind every INSERT INTO release_jobs).
OneActivePerTarget ==
    \A i, j \in Job :
        Active(i) /\ Active(j) /\ jobs[i].target = jobs[j].target => i = j

\* A deployment head names a DEPLOY of its own target that was verified, and
\* so does every source a job was frozen with; recovery, rejected claims and
\* late workers never move a head.
HeadIsVerified ==
    /\ \A t \in Target : heads[t] # NoJob =>
          Verified(heads[t]) /\ jobs[heads[t]].target = t
    /\ \A j \in Job : jobs[j].source # NoJob =>
          Verified(jobs[j].source) /\ jobs[jobs[j].source].target = jobs[j].target

\* What an unfinished job was queued on is still true when it finishes: a
\* DEPLOY replaces the head it recorded, a ROLLBACK restores what the current
\* head prescribes, so sync_verified_deployment_head never refuses a result.
FrozenBasisStaysCurrent ==
    \A j \in Job : Active(j) =>
        /\ jobs[j].source = FrozenSource(jobs[j].release, jobs[j].op)
        /\ HeadSyncAccepted(j)

\* A queued ROLLBACK already shows as ROLLBACK.
FollowsJob(j) ==
    relStatus[jobs[j].release] =
        IF jobs[j].op = "ROLLBACK" /\ jobs[j].status = "QUEUED"
        THEN "ROLLBACK" ELSE jobs[j].status

\* The releases row tells the truth about the job in flight: its status is the
\* job's.
ReleaseFollowsJob == \A j \in Job : Active(j) => FollowsJob(j)

-------------------------------------------------------------------------------
(***************************************************************************)
(* What the rows amount to                                                 *)
(***************************************************************************)

\* The deployments that were verified, and what each of them replaced.
VerifiedJobs == {j \in Job : Verified(j)}
Replaced == [j \in Job |-> IF Verified(j) THEN jobs[j].source ELSE NoJob]

\* The detailed system implements the history: a head moves only to the DEPLOY
\* that was just verified on top of it, or back to what its own row recorded.
History == INSTANCE DeploymentHistory WITH
    Deployment <- Job, None <- NoJob, head <- heads,
    verified <- VerifiedJobs, prior <- Replaced

ImplementsHistory == History!Spec

\* Rolling a target back again and again comes to an end, whatever retries,
\* recoveries and rollbacks led to its present deployment: the predecessors
\* that sync_verified_deployment_head follows form no cycle.
HistoryStaysAcyclic == History!HistoryHasNoCycle

===============================================================================

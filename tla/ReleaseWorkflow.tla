--------------------------- MODULE ReleaseWorkflow ---------------------------
(***************************************************************************)
(* The API server's side of a release: creation, upload, review, approval, *)
(* deployment, retry, rollback and deletion, and the quick release that    *)
(* does the first half of it in one long transaction.  Every handler runs  *)
(* in one database transaction that locks the release row, so a handler is *)
(* one action, with three exceptions: a quick release stores its artifact  *)
(* inside its transaction while others go on, enqueueRelease chooses       *)
(* between deploying and rolling back by a read made before it locks, and  *)
(* it reads the artifact before it waits for the lock an upload holds.     *)
(* A refused request changes nothing and is not an action.  The runners    *)
(* are reduced to the verdicts RunnerLease shows they deliver.             *)
(***************************************************************************)
EXTENDS TargetJobs, Naturals

CONSTANTS User, NoUser,
          AllowSelfApproval,  \* approval_config.allowSelfApproval
          MaxRev              \* bound on edits of one release

ASSUME ReleaseWorkflowAssumption ==
    /\ NoUser \notin User
    /\ AllowSelfApproval \in BOOLEAN
    /\ MaxRev \in Nat \ {0}

VARIABLES
    req,        \* per release: the other columns of its row
    older,      \* per job: those of its target whose transactions began earlier
    bound,      \* per job: the content and the failed job it is bound to
    required,   \* does the approval policy apply?
    uploads,    \* per release: the quick release still storing its artifact, or
                \* the deployment request that waits for an upload to end
    routed,     \* releases some enqueue has read as requesting a DEPLOY
    submitted,  \* per release: what the reviewers were last asked to approve
    astray      \* releases a DEPLOY was queued for while a ROLLBACK was requested

workVars == <<req, older, bound, required, uploads, routed, submitted, astray>>

vars == <<relStatus, jobs, latest, heads, req, older, bound,
          required, uploads, routed, submitted, astray>>

-------------------------------------------------------------------------------

Editable == {"DRAFT", "UPLOADED", "REJECTED"}

InReview == {"PENDING_REVIEW", "UNDER_REVIEW"}

UnderApproval == InReview \cup {"APPROVED"}

\* op .. base are requested_operation, rollback_source_job_id,
\* retry_source_job_id and operation_base_status; by is operation_requested_by.
\* rev stands for what a deployment executes: artifact, version and profile,
\* numbered anew at each change, 0 while no artifact was uploaded.  A job is
\* bound to the revision it finds, unless it is stale: it carries an artifact
\* that an upload had replaced by then.
Request == [op : {"DEPLOY", "ROLLBACK"}, source : Job \cup {NoJob},
            retry : Job \cup {NoJob}, base : {"NONE", "SUCCESS", "FAILED"},
            by : User \cup {NoUser}, creator : User \cup {NoUser},
            approver : User \cup {NoUser}, quick : BOOLEAN, auto : BOOLEAN,
            quickBase : Job \cup {NoJob}, rev : 0 .. MaxRev]

NewRequest(u) ==
    [op |-> "DEPLOY", source |-> NoJob, retry |-> NoJob, base |-> "NONE",
     by |-> NoUser, creator |-> u, approver |-> NoUser,
     quick |-> FALSE, auto |-> FALSE, quickBase |-> NoJob, rev |-> 0]

Binding == [rev : 0 .. MaxRev, retryOf : Job \cup {NoJob}, stale : BOOLEAN]

Unbound == [rev |-> 0, retryOf |-> NoJob, stale |-> FALSE]

\* policy: the approval policy that the transaction has read; stale: the
\* artifact it has read was replaced since.
Upload == [job : Job \cup {NoJob}, by : User \cup {NoUser}, auto : BOOLEAN,
           base : Job \cup {NoJob}, policy : BOOLEAN, stale : BOOLEAN]

NoUpload == [job |-> NoJob, by |-> NoUser, auto |-> FALSE, base |-> NoJob,
             policy |-> FALSE, stale |-> FALSE]

Review == [op : {"NONE", "DEPLOY", "ROLLBACK"}, source : Job \cup {NoJob},
           retry : Job \cup {NoJob}, rev : 0 .. MaxRev]

NoReview == [op |-> "NONE", source |-> NoJob, retry |-> NoJob, rev |-> 0]

TypeOK ==
    /\ RowsTypeOK
    /\ req \in [Release -> Request]
    /\ older \in [Job -> SUBSET Job]
    /\ bound \in [Job -> Binding]
    /\ required \in BOOLEAN
    /\ uploads \in [Release -> Upload]
    /\ routed \subseteq Release
    /\ submitted \in [Release -> Review]
    /\ astray \subseteq Release

Init ==
    /\ NoJobsInit
    /\ relStatus = [r \in Release |-> "ABSENT"]
    /\ req = [r \in Release |-> NewRequest(NoUser)]
    /\ older = [j \in Job |-> {}]
    /\ bound = [j \in Job |-> Unbound]
    /\ required \in BOOLEAN
    /\ uploads = [r \in Release |-> NoUpload]
    /\ routed = {}
    /\ submitted = [r \in Release |-> NoReview]
    /\ astray = {}

-------------------------------------------------------------------------------
(***************************************************************************)
(* Which job is the newest.  A job's created_at is the time its            *)
(* transaction began.  A quick release's, and that of a request that waits *)
(* for an upload, begins long before the job is inserted, and reserves its *)
(* place in the order from the start.                                      *)
(***************************************************************************)

Reserved(j) == \E r \in Release : uploads[r].job = j

JobsOn(t) == {j \in Job : jobs[j].target = t}

Begun(t) == JobsOn(t) \cup {j \in Job : \E r \in Release : uploads[r].job = j /\ TargetOf[r] = t}

\* ORDER BY created_at DESC LIMIT 1.
Newest(order, S) ==
    IF S = {} THEN NoJob ELSE CHOOSE j \in S : S \ {j} \subseteq order[j]

Begin(j, t) == older' = [older EXCEPT ![j] = Begun(t)]

Forget(S) == older' = [j \in Job |-> IF j \in S THEN {} ELSE older[j] \ S]

\* INSERT INTO release_jobs with created_at at j's place in the order.
Queue(j, r, op, rev, retryOf) ==
    LET t == TargetOf[r] IN
    /\ InsertJob(j, r, op)
    /\ IF Reserved(j) THEN UNCHANGED older ELSE Begin(j, t)
    /\ latest' = [latest EXCEPT ![t] = Newest(older', JobsOn(t) \cup {j})]
    /\ bound' = [bound EXCEPT ![j] =
                  [rev |-> rev, retryOf |-> retryOf, stale |-> uploads[r].stale]]

SetRelease(r, s) == relStatus' = [relStatus EXCEPT ![r] = s]

Submit(r, op, source, retry) ==
    submitted' = [submitted EXCEPT ![r] =
        [op |-> op, source |-> source, retry |-> retry, rev |-> req[r].rev]]

-------------------------------------------------------------------------------
(***************************************************************************)
(* Preparing a release                                                     *)
(***************************************************************************)

CreateRelease(u, r) ==
    /\ relStatus[r] = "ABSENT" /\ uploads[r] = NoUpload
    /\ SetRelease(r, "DRAFT")
    /\ req' = [req EXCEPT ![r] = NewRequest(u)]
    /\ UNCHANGED <<jobs, latest, heads, older, bound, required,
                   uploads, routed, submitted, astray>>

\* Mutant: an upload accepted whatever the state of the release.
UploadAnytime(r) ==
    /\ relStatus[r] # "ABSENT"
    /\ ~req[r].quick
    /\ req[r].rev < MaxRev
    /\ SetRelease(r, IF relStatus[r] \in Editable THEN "UPLOADED" ELSE relStatus[r])
    /\ req' = [req EXCEPT ![r].rev = @ + 1]
    /\ UNCHANGED <<jobs, latest, heads, older, bound, required,
                   uploads, routed, submitted, astray>>

UploadArtifact(r) ==
    /\ relStatus[r] \in Editable
    /\ ~req[r].quick
    /\ req[r].rev < MaxRev
    /\ SetRelease(r, "UPLOADED")
    /\ req' = [req EXCEPT ![r].rev = @ + 1]
    /\ uploads' = IF uploads[r] = NoUpload THEN uploads ELSE [uploads EXCEPT ![r].stale = TRUE]
    /\ UNCHANGED <<jobs, latest, heads, older, bound, required,
                   routed, submitted, astray>>

\* Version or profile; quick_release_binding_guard refuses it for a quick one.
UpdateRelease(r) ==
    /\ relStatus[r] \in Editable
    /\ ~req[r].quick
    /\ req[r].rev \in 1 .. MaxRev - 1
    /\ req' = [req EXCEPT ![r].rev = @ + 1]
    /\ UNCHANGED <<rowVars, older, bound, required, uploads, routed,
                   submitted, astray>>

JobsOf(r) == {j \in Job : jobs[j].release = r}

\* A foreign key of another row names the release or one of its jobs.
Referenced(r) ==
    \/ \E t \in Target : heads[t] \in JobsOf(r)
    \/ \E i \in Job \ JobsOf(r) : jobs[i].source \in JobsOf(r)
    \/ \E q \in Release \ {r} :
          req[q].source \in JobsOf(r) \/ req[q].quickBase \in JobsOf(r)

\* The jobs, steps and logs go with the release (ON DELETE CASCADE).
DeleteRelease(r) ==
    LET gone == JobsOf(r)
        t == TargetOf[r] IN
    /\ relStatus[r] \in Editable /\ uploads[r] = NoUpload
    /\ ~Referenced(r)
    /\ SetRelease(r, "ABSENT")
    /\ jobs' = [j \in Job |-> IF j \in gone THEN NoRow ELSE jobs[j]]
    /\ bound' = [j \in Job |-> IF j \in gone THEN Unbound ELSE bound[j]]
    /\ Forget(gone)
    /\ latest' = [latest EXCEPT ![t] = Newest(older, JobsOn(t) \ gone)]
    /\ req' = [req EXCEPT ![r] = NewRequest(NoUser)]
    /\ submitted' = [submitted EXCEPT ![r] = NoReview]
    /\ routed' = routed \ {r}
    /\ astray' = astray \ {r}
    /\ UNCHANGED <<heads, required, uploads>>

\* The open transaction of a quick release holds app_settings FOR SHARE.
ChangePolicy ==
    /\ \A r \in Release : relStatus[r] = "ABSENT" => uploads[r] = NoUpload
    /\ required' = ~required
    /\ UNCHANGED <<rowVars, req, older, bound, uploads, routed, submitted, astray>>

-------------------------------------------------------------------------------
(***************************************************************************)
(* Deploying: enqueueRelease, with or without the retry flag               *)
(***************************************************************************)

\* SELECT requested_operation, outside the transaction.
RouteEnqueue(r) ==
    /\ relStatus[r] # "ABSENT" /\ req[r].op = "DEPLOY"
    /\ r \notin routed
    /\ routed' = routed \cup {r}
    /\ UNCHANGED <<rowVars, req, older, bound, required, uploads, submitted, astray>>

RoutedToDeploy(r) == r \in routed

IsRetry(r, retry) == retry \/ req[r].retry # NoJob

RetryIsCurrent(r, retry) ==
    IsRetry(r, retry) =>
        /\ LatestFailed(r, TargetOf[r], "DEPLOY")
        /\ req[r].retry \in {NoJob, latest[TargetOf[r]]}

\* Mutant: the release pinned instead of its failed job.
RetryPinsRelease(r, retry) == IF IsRetry(r, retry) THEN r ELSE NoJob

RetryBasis(r, retry) == IF IsRetry(r, retry) THEN latest[TargetOf[r]] ELSE NoJob

\* DRAFT means that no artifact content was uploaded; a request that waits for
\* the row is served before the ones behind it.
DeployAsked(r, retry) ==
    /\ relStatus[r] \notin {"ABSENT", "DRAFT"}
    /\ uploads[r] = NoUpload
    /\ RoutedToDeploy(r)
    /\ retry <=> relStatus[r] = "FAILED"

InvalidateRetry(r) ==
    /\ RoutedToDeploy(r)
    /\ req[r].retry # NoJob
    /\ ~RetryIsCurrent(r, FALSE)
    /\ SetRelease(r, "FAILED")
    /\ req' = [req EXCEPT ![r].retry = NoJob, ![r].by = NoUser,
                          ![r].approver = NoUser]
    /\ UNCHANGED <<jobs, latest, heads, older, bound, required,
                   uploads, routed, submitted, astray>>

SubmitDeploy(u, r, retry) ==
    LET basis == RetryBasis(r, retry) IN
    /\ DeployAsked(r, retry) /\ RetryIsCurrent(r, retry)
    /\ required
    /\ relStatus[r] \in {"UPLOADED", "REJECTED", "FAILED"}
    /\ SetRelease(r, "PENDING_REVIEW")
    /\ req' = [req EXCEPT ![r].retry = basis, ![r].approver = NoUser,
                          ![r].by = IF basis # NoJob THEN u ELSE @]
    /\ Submit(r, "DEPLOY", NoJob, basis)
    /\ UNCHANGED <<jobs, latest, heads, older, bound, required,
                   uploads, routed, astray>>

\* Mutant: the approval policy looked at only when a release is submitted.
CanQueueUnapproved(r) ==
    relStatus[r] \in {"UPLOADED", "APPROVED", "FAILED", "REJECTED"} \cup InReview

releaseCanQueue(r) ==
    \/ relStatus[r] = "APPROVED"
    \/ ~required /\ relStatus[r] \in {"UPLOADED", "REJECTED", "FAILED"} \cup InReview

\* Mutant: a quick release queued on whatever is deployed now.
AnyBase(r) == TRUE

QuickBaseHolds(r) == req[r].quick => req[r].quickBase = heads[TargetOf[r]]

QueueDeploy(j, r, retry) ==
    /\ DeployAsked(r, retry) /\ RetryIsCurrent(r, retry)
    /\ releaseCanQueue(r)
    /\ QuickBaseHolds(r)
    /\ ~Reserved(j)
    /\ Queue(j, r, "DEPLOY", req[r].rev, RetryBasis(r, retry))
    /\ req' = [req EXCEPT ![r].retry = NoJob]
    /\ astray' = IF req[r].op = "DEPLOY" THEN astray ELSE astray \cup {r}
    /\ UNCHANGED <<required, uploads, routed, submitted>>

-------------------------------------------------------------------------------
(***************************************************************************)
(* Deploying while an upload holds the row of the release: the statement   *)
(* that waits for the row has read the artifact and the policy as they     *)
(* were before, and after the wait only the row itself is read again, with *)
(* its version and profile.  Uploads and edits ahead of it go first.       *)
(***************************************************************************)

DeployWaits(j, r) ==
    /\ RoutedToDeploy(r)
    /\ relStatus[r] \in {"UPLOADED", "REJECTED"} /\ ~req[r].quick
    /\ uploads[r] = NoUpload
    /\ ~Present(j) /\ ~Reserved(j)
    /\ uploads' = [uploads EXCEPT ![r] =
                     [NoUpload EXCEPT !.job = j, !.policy = required]]
    /\ Begin(j, TargetOf[r])
    /\ UNCHANGED <<rowVars, req, bound, required, routed, submitted, astray>>

\* Uploaded or rejected still, and no retry.
Waited(r) == uploads[r] # NoUpload /\ relStatus[r] # "ABSENT"

WaitedSubmit(r) ==
    /\ Waited(r) /\ uploads[r].policy
    /\ SetRelease(r, "PENDING_REVIEW")
    /\ req' = [req EXCEPT ![r].approver = NoUser]
    /\ Submit(r, "DEPLOY", NoJob, NoJob)
    /\ uploads' = [uploads EXCEPT ![r] = NoUpload]
    /\ Forget({uploads[r].job})
    /\ UNCHANGED <<jobs, latest, heads, bound, required, routed, astray>>

WaitedQueue(r) ==
    /\ Waited(r) /\ ~uploads[r].policy
    /\ Queue(uploads[r].job, r, "DEPLOY", req[r].rev, NoJob)
    /\ uploads' = [uploads EXCEPT ![r] = NoUpload]
    /\ UNCHANGED <<req, required, routed, submitted, astray>>

-------------------------------------------------------------------------------
(***************************************************************************)
(* Reviewing                                                               *)
(***************************************************************************)

StartReview(r) ==
    /\ relStatus[r] = "PENDING_REVIEW"
    /\ SetRelease(r, "UNDER_REVIEW")
    /\ UNCHANGED <<jobs, latest, heads, workVars>>

Requester(r) == IF req[r].by # NoUser THEN req[r].by ELSE req[r].creator

MayApprove(u, r) == AllowSelfApproval \/ u # Requester(r)

\* resolveRollbackPlan: the head must not be shadowed by a newer attempt.
RollbackPlanned(r, retry) ==
    LET t == TargetOf[r] IN
    /\ heads[t] # NoJob
    /\ ExpectedSource(r, t) # NoJob
    /\ \/ IsHeadRelease(r, t) /\ SettledOnHead(t)
       \/ ~IsHeadRelease(r, t) /\ LatestFailed(r, t, "DEPLOY")
       \/ retry /\ LatestFailedRollback(r, t)

StillCurrent(r) ==
    /\ req[r].retry # NoJob => RetryIsCurrent(r, FALSE)
    /\ req[r].op = "ROLLBACK" =>
          RollbackPlanned(r, TRUE) /\ req[r].source = ExpectedSource(r, TargetOf[r])

DeploysOnApproval(r) ==
    req[r].quick /\ req[r].auto /\ req[r].op = "DEPLOY" /\ req[r].retry = NoJob

Approve(u, r) ==
    /\ relStatus[r] \in InReview
    /\ MayApprove(u, r) /\ StillCurrent(r)
    /\ ~DeploysOnApproval(r)
    /\ SetRelease(r, "APPROVED")
    /\ req' = [req EXCEPT ![r].approver = u]
    /\ UNCHANGED <<jobs, latest, heads, older, bound, required,
                   uploads, routed, submitted, astray>>

\* Mutant: the approval of an automatic release committed without its job.
ApproveThenQueue(u, j, r) ==
    /\ relStatus[r] \in InReview
    /\ MayApprove(u, r)
    /\ DeploysOnApproval(r)
    /\ SetRelease(r, "APPROVED")
    /\ req' = [req EXCEPT ![r].approver = u]
    /\ UNCHANGED <<jobs, latest, heads, older, bound, required,
                   uploads, routed, submitted, astray>>

\* Approval and job in one transaction.
ApproveAndQueue(u, j, r) ==
    /\ relStatus[r] \in InReview
    /\ MayApprove(u, r)
    /\ DeploysOnApproval(r)
    /\ QuickBaseHolds(r)
    /\ ~Reserved(j)
    /\ Queue(j, r, "DEPLOY", req[r].rev, NoJob)
    /\ req' = [req EXCEPT ![r].approver = u]
    /\ UNCHANGED <<required, uploads, routed, submitted, astray>>

\* Mutant: a rejected rollback treated like a rejected deployment.
RejectToEditable(r) ==
    /\ relStatus[r] \in InReview
    /\ SetRelease(r, "REJECTED")
    /\ req' = [req EXCEPT ![r].op = "DEPLOY", ![r].source = NoJob,
                          ![r].retry = NoJob, ![r].by = NoUser, ![r].base = "NONE"]
    /\ UNCHANGED <<jobs, latest, heads, older, bound, required,
                   uploads, routed, submitted, astray>>

Reject(r) ==
    LET rollback == req[r].op = "ROLLBACK"
        clears == rollback \/ req[r].retry # NoJob IN
    /\ relStatus[r] \in InReview
    /\ rollback => req[r].base # "NONE"
    /\ SetRelease(r, IF rollback THEN req[r].base ELSE "REJECTED")
    /\ req' = [req EXCEPT ![r].op = "DEPLOY", ![r].source = NoJob, ![r].retry = NoJob,
                          ![r].by = IF clears THEN NoUser ELSE @,
                          ![r].base = IF clears THEN "NONE" ELSE @]
    /\ UNCHANGED <<jobs, latest, heads, older, bound, required,
                   uploads, routed, submitted, astray>>

-------------------------------------------------------------------------------
(***************************************************************************)
(* Rolling back: rollbackRelease, with or without the retry flag           *)
(***************************************************************************)

RollbackOpen(r) == req[r].op = "ROLLBACK" /\ relStatus[r] \in UnderApproval

RollbackAsked(r, retry) ==
    /\ \/ relStatus[r] \in {"SUCCESS", "FAILED"}
       \/ RollbackOpen(r)
    /\ retry => relStatus[r] = "FAILED"
    /\ relStatus[r] = "FAILED" /\ req[r].op = "ROLLBACK" => retry
    /\ TargetFree(TargetOf[r])

\* The source frozen by the request must still be the one to restore.
SourceHolds(r, retry) ==
    RollbackOpen(r) \/ (retry /\ req[r].source # NoJob) =>
        req[r].source = ExpectedSource(r, TargetOf[r])

RollbackReady(r, retry) ==
    /\ RollbackAsked(r, retry)
    /\ RollbackPlanned(r, retry \/ RollbackOpen(r))
    /\ SourceHolds(r, retry)

InvalidateRollback(r) ==
    /\ RollbackAsked(r, FALSE) /\ RollbackOpen(r)
    /\ ~RollbackPlanned(r, TRUE)
    /\ req[r].base # "NONE"
    /\ SetRelease(r, req[r].base)
    /\ req' = [req EXCEPT ![r].op = "DEPLOY", ![r].source = NoJob, ![r].by = NoUser,
                          ![r].base = "NONE", ![r].approver = NoUser]
    /\ UNCHANGED <<jobs, latest, heads, older, bound, required,
                   uploads, routed, submitted, astray>>

\* Mutant: the status to return to is never recorded.
BaseForgotten(r) == req[r].base

RecordedBase(r) == IF req[r].base # "NONE" THEN req[r].base ELSE relStatus[r]

SubmitRollback(u, r, retry) ==
    LET source == ExpectedSource(r, TargetOf[r]) IN
    /\ RollbackReady(r, retry)
    /\ required /\ ~RollbackOpen(r)
    /\ SetRelease(r, "PENDING_REVIEW")
    /\ req' = [req EXCEPT ![r].op = "ROLLBACK", ![r].source = source, ![r].by = u,
                          ![r].base = RecordedBase(r), ![r].approver = NoUser]
    /\ submitted' = [submitted EXCEPT ![r] =
           [op |-> "ROLLBACK", source |-> source, retry |-> NoJob,
            rev |-> req[jobs[source].release].rev]]
    /\ UNCHANGED <<jobs, latest, heads, older, bound, required,
                   uploads, routed, astray>>

\* The job is bound to the newest artifact of the release it restores.
QueueRollback(u, j, r, retry) ==
    LET source == ExpectedSource(r, TargetOf[r]) IN
    /\ RollbackReady(r, retry)
    /\ ~required \/ relStatus[r] = "APPROVED"
    /\ RecordedBase(r) \in {"SUCCESS", "FAILED"}
    /\ ~Reserved(j)
    /\ Queue(j, r, "ROLLBACK", req[jobs[source].release].rev, NoJob)
    /\ req' = [req EXCEPT ![r].op = "ROLLBACK", ![r].source = source,
                          ![r].by = IF @ = NoUser THEN u ELSE @,
                          ![r].base = RecordedBase(r)]
    /\ UNCHANGED <<required, uploads, routed, submitted, astray>>

-------------------------------------------------------------------------------
(***************************************************************************)
(* Quick release: begin, store the artifact, then queue or submit          *)
(***************************************************************************)

\* The head is read but not locked; the release row is not visible yet.
QuickBegin(u, j, r, auto) ==
    LET t == TargetOf[r] IN
    /\ relStatus[r] = "ABSENT" /\ uploads[r] = NoUpload
    /\ ~Present(j) /\ ~Reserved(j)
    /\ TargetFree(t)
    /\ uploads' = [uploads EXCEPT ![r] =
                     [job |-> j, by |-> u, auto |-> auto, base |-> heads[t],
                      policy |-> required, stale |-> FALSE]]
    /\ Begin(j, t)
    /\ UNCHANGED <<rowVars, req, bound, required, routed, submitted, astray>>

\* lockReleaseTargetForJob and validateAndLockQuickHead.
QuickReady(r) ==
    /\ uploads[r] # NoUpload /\ relStatus[r] = "ABSENT"
    /\ TargetFree(TargetOf[r])
    /\ uploads[r].base = heads[TargetOf[r]]

QuickRow(r) == [NewRequest(uploads[r].by) EXCEPT !.quick = TRUE, !.rev = 1,
                   !.auto = uploads[r].auto, !.quickBase = uploads[r].base]

QuickSubmit(r) ==
    /\ QuickReady(r)
    /\ required
    /\ SetRelease(r, "PENDING_REVIEW")
    /\ req' = [req EXCEPT ![r] = QuickRow(r)]
    /\ submitted' = [submitted EXCEPT ![r] =
           [op |-> "DEPLOY", source |-> NoJob, retry |-> NoJob, rev |-> 1]]
    /\ uploads' = [uploads EXCEPT ![r] = NoUpload]
    /\ Forget({uploads[r].job})
    /\ UNCHANGED <<jobs, latest, heads, bound, required, routed, astray>>

QuickQueue(r) ==
    /\ QuickReady(r)
    /\ ~required
    /\ Queue(uploads[r].job, r, "DEPLOY", 1, NoJob)
    /\ req' = [req EXCEPT ![r] = QuickRow(r)]
    /\ uploads' = [uploads EXCEPT ![r] = NoUpload]
    /\ UNCHANGED <<required, routed, submitted, astray>>

\* Any failure on the way, the checks of QuickReady included; or a request that
\* waited is refused.
Abandon(r) ==
    /\ uploads[r] # NoUpload
    /\ uploads' = [uploads EXCEPT ![r] = NoUpload]
    /\ Forget({uploads[r].job})
    /\ UNCHANGED <<rowVars, req, bound, required, routed, submitted, astray>>

-------------------------------------------------------------------------------
(***************************************************************************)
(* The runners                                                             *)
(***************************************************************************)

RunnerStarts(j) ==
    /\ jobs[j].status = "QUEUED"
    /\ SetStatus(j, "VALIDATING")
    /\ UNCHANGED <<latest, heads, workVars>>

RunnerFinishes(j) ==
    /\ \/ InFlight(j) /\ FinishSucceeded(j)
       \/ Active(j) /\ FinishFailed({j})
    /\ UNCHANGED workVars

-------------------------------------------------------------------------------

Prepare(r) ==
    \/ \E u \in User : CreateRelease(u, r)
    \/ UploadArtifact(r)
    \/ UpdateRelease(r)
    \/ DeleteRelease(r)

Decide(r) ==
    \/ StartReview(r)
    \/ \E u \in User : Approve(u, r)
    \/ \E u \in User, j \in Job : ApproveAndQueue(u, j, r)
    \/ Reject(r)

Deploy(r) ==
    \/ RouteEnqueue(r)
    \/ InvalidateRetry(r)
    \/ \E u \in User, retry \in BOOLEAN : SubmitDeploy(u, r, retry)
    \/ \E j \in Job, retry \in BOOLEAN : QueueDeploy(j, r, retry)
    \/ \E j \in Job : DeployWaits(j, r)
    \/ WaitedSubmit(r)
    \/ WaitedQueue(r)

Rollback(r) ==
    \/ InvalidateRollback(r)
    \/ \E u \in User, retry \in BOOLEAN : SubmitRollback(u, r, retry)
    \/ \E u \in User, j \in Job, retry \in BOOLEAN : QueueRollback(u, j, r, retry)

Quick(r) ==
    \/ \E u \in User, j \in Job, auto \in BOOLEAN : QuickBegin(u, j, r, auto)
    \/ QuickSubmit(r)
    \/ QuickQueue(r)
    \/ Abandon(r)

Next ==
    \/ \E r \in Release : Prepare(r) \/ Decide(r) \/ Deploy(r) \/ Rollback(r) \/ Quick(r)
    \/ \E j \in Job : RunnerStarts(j) \/ RunnerFinishes(j)
    \/ ChangePolicy

Spec == Init /\ [][Next]_vars

-------------------------------------------------------------------------------
(***************************************************************************)
(* Properties                                                              *)
(***************************************************************************)

\* Properties of what is requested, reviewed or bound leave out releases led
\* astray (see OperationIsAsRequested): a DEPLOY queued under an open ROLLBACK
\* request leaves columns of two requests in one row.

\* The approval policy as the request that inserts a job for r has read it.
PolicyRead(r) == IF uploads[r] # NoUpload THEN uploads[r].policy ELSE required

\* The new job j does what was submitted (operation, source or failed attempt,
\* content), and a second person approved it.
QueuedAsReviewed(j) ==
    LET r == jobs'[j].release
        op == jobs'[j].op
        source == IF op = "ROLLBACK" THEN jobs'[j].source ELSE NoJob IN
    r \notin astray' /\ (op = "ROLLBACK" => jobs[source].release \notin astray) =>
        /\ submitted[r] = [op |-> op, retry |-> bound'[j].retryOf,
                           source |-> source, rev |-> bound'[j].rev]
        /\ ~bound'[j].stale
        /\ req'[r].approver # NoUser
        /\ AllowSelfApproval \/ req'[r].approver # Requester(r)

\* While the approval policy applies, a job is queued only as it was reviewed:
\* decision(), the freeze of reviewed releases and the checks repeated by
\* enqueueRelease and rollbackRelease.  The policy is the one the request has
\* read, which a change may have replaced while it waited for an upload.
NothingRunsUnreviewed ==
    [][\A j \in Job : ~Present(j) /\ Present(j)' /\ PolicyRead(jobs'[j].release) =>
          QueuedAsReviewed(j)]_vars

\* A release that was ever verified on a target can no longer be edited or
\* deleted, whatever sequence of rollback, retry and rejection it goes
\* through: its row and artifact are what a later rollback restores.
VerifiedReleaseIsFrozen ==
    \A j \in Job : Verified(j) /\ jobs[j].release \notin astray =>
        relStatus[jobs[j].release] \notin Editable \cup {"ABSENT"}

\* A ROLLBACK job carries the very content that its source DEPLOY job
\* verified, and a retry the content of the attempt it repeats, although both
\* are looked up again through the release when the job is queued.  Left out
\* are stale originals: their request waited for an upload and bound the
\* artifact from before it, a retry or rollback binds the one uploaded then.
RepeatsContent(i, j) ==
    ~bound[j].stale => bound[i].rev = bound[j].rev /\ ~bound[i].stale

BoundContentIsTheSame ==
    \A j \in Job :
        /\ jobs[j].op = "ROLLBACK" /\ jobs[jobs[j].source].release \notin astray =>
              RepeatsContent(j, jobs[j].source)
        /\ bound[j].retryOf # NoJob =>
              /\ jobs[bound[j].retryOf].release = jobs[j].release
              /\ RepeatsContent(j, bound[j].retryOf)

\* A quick release only ever replaces the deployment its upgrade check was
\* made against, through approval, rejection, resubmission and retry.
QuickReplacesItsBase ==
    \A j \in Job : Present(j) /\ jobs[j].op = "DEPLOY" /\ req[jobs[j].release].quick =>
        jobs[j].source = req[jobs[j].release].quickBase

\* A request under review can always be turned down, and an open rollback
\* names a verified source and the status to return to.
OpenRequestIsWhole ==
    \A r \in Release :
        /\ RollbackOpen(r) => req[r].base # "NONE" /\ Verified(req[r].source)
        /\ req[r].op = "DEPLOY" => req[r].base = "NONE"

\* A quick release set to deploy on approval never rests in APPROVED before
\* its first job.
AutoDeployNeverRests ==
    \A r \in Release : relStatus[r] = "APPROVED" => ~DeploysOnApproval(r)

\* ReleaseFollowsJob, but for releases led astray.
RequestFollowsJob ==
    \A j \in Job : Active(j) /\ jobs[j].release \notin astray => FollowsJob(j)

\* An unfinished job runs the operation its release requests.
OperationIsAsRequested ==
    \A j \in Job : Active(j) => jobs[j].op = req[jobs[j].release].op

===============================================================================

----------------------------- MODULE RunnerLease -----------------------------
(***************************************************************************)
(* Runners executing release jobs.  A runner process claims a queued job   *)
(* by a lease (locked_by, heartbeat_at on the job row and one row of       *)
(* release_locks per target), walks the pipeline step by step while a      *)
(* goroutine renews the lease, and closes the job.  Every write is fenced  *)
(* by the lease; between jobs a runner fails the jobs whose lease went     *)
(* stale.  A worker id is drawn anew by each process and never reused.     *)
(***************************************************************************)
EXTENDS TargetJobs

CONSTANTS Worker,     \* worker ids, one per runner process
          NoWorker    \* locked_by IS NULL

ASSUME RunnerLeaseAssumption == NoWorker \notin Worker

VARIABLES
    lease,   \* per job: locked_by, and whether heartbeat_at is recent enough
    locks,   \* release_locks, keyed by target: the job and worker of the row
    proc     \* per worker: where its process is

vars == <<relStatus, jobs, latest, heads, lease, locks, proc>>

NoLock == [job |-> NoJob, by |-> NoWorker]

\* between jobs | about to begin `step` | executing it | about to close the
\* job with outcome `ok` | gone
At(pc, j) == [pc |-> pc, job |-> j, step |-> "VALIDATING",
              cancelled |-> FALSE, ok |-> FALSE]

Idle == At("idle", NoJob)

ProcState == [pc : {"idle", "begin", "work", "finish", "dead"},
              job : Job \cup {NoJob}, step : Running,
              cancelled : BOOLEAN, ok : BOOLEAN]

TypeOK ==
    /\ RowsTypeOK
    /\ lease \in [Job -> [by : Worker \cup {NoWorker}, fresh : BOOLEAN]]
    /\ locks \in [Target -> [job : Job \cup {NoJob}, by : Worker \cup {NoWorker}]]
    /\ proc \in [Worker -> ProcState]

Init ==
    /\ NoJobsInit
    /\ relStatus = [r \in Release |-> "APPROVED"]
    /\ lease = [j \in Job |-> [by |-> NoWorker, fresh |-> FALSE]]
    /\ locks = [t \in Target |-> NoLock]
    /\ proc = [w \in Worker |-> Idle]

-------------------------------------------------------------------------------
(***************************************************************************)
(* The pipeline                                                            *)
(***************************************************************************)

\* PRE_CHECK exists only for a profile with PRE_DEPLOY scripts.
DeployOrder == {<<"VALIDATING", "PRE_CHECK">>, <<"VALIDATING", "EXTRACTING">>,
                <<"PRE_CHECK", "EXTRACTING">>,
                <<"EXTRACTING", "IMAGE_INSPECT">>,
                <<"IMAGE_INSPECT", "IMAGE_LOAD">>, <<"IMAGE_LOAD", "IMAGE_TAG">>,
                <<"IMAGE_TAG", "IMAGE_PUSH">>, <<"IMAGE_PUSH", "DEPLOYING">>,
                <<"DEPLOYING", "VERIFYING">>}

RollbackOrder == {<<"VALIDATING", "ROLLBACK">>, <<"ROLLBACK", "VERIFYING">>}

StepOrder(op) == IF op = "DEPLOY" THEN DeployOrder ELSE RollbackOrder

\* The steps whose scripts change what runs on the target.
TouchesTarget == {"DEPLOYING", "ROLLBACK"}

-------------------------------------------------------------------------------
(***************************************************************************)
(* The lease, as the WHERE clauses test it                                 *)
(***************************************************************************)

\* locked_by = $worker AND status NOT IN (terminal)
Owns(w, j) == lease[j].by = w /\ jobs[j].status \notin Terminal

HasLockRow(w, j) == locks[jobs[j].target] = [job |-> j, by |-> w]

\* DELETE FROM release_locks for the jobs in js.
UnlockAll(js) ==
    locks' = [t \in Target |-> IF locks[t].job \in js THEN NoLock ELSE locks[t]]

-------------------------------------------------------------------------------
(***************************************************************************)
(* Requests.  ReleaseWorkflow says how a release becomes ready; here it is *)
(* approved from the start, and retried or rolled back as the API allows.  *)
(***************************************************************************)

MayRequest(r, op) ==
    \/ op = "DEPLOY" /\ relStatus[r] = "APPROVED"
    \/ /\ op = "DEPLOY"
       /\ relStatus[r] = "FAILED"
       /\ LatestFailed(r, TargetOf[r], "DEPLOY")
    \/ op = "ROLLBACK" /\ relStatus[r] \in {"SUCCESS", "FAILED"}

Enqueue(j, r, op) ==
    /\ MayRequest(r, op)
    /\ InsertJob(j, r, op)
    /\ UNCHANGED <<lease, locks, proc>>

-------------------------------------------------------------------------------
(***************************************************************************)
(* Claiming                                                                *)
(***************************************************************************)

\* The job row and its lock row, in one transaction.  ON CONFLICT DO NOTHING:
\* when the lock is held the job only has its available_at pushed back.
TakeLease(w, j) ==
    /\ jobs[j].status = "QUEUED"
    /\ locks[jobs[j].target] = NoLock
    /\ SetStatus(j, "VALIDATING")
    /\ lease' = [lease EXCEPT ![j] = [by |-> w, fresh |-> TRUE]]
    /\ locks' = [locks EXCEPT ![jobs[j].target] = [job |-> j, by |-> w]]
    /\ UNCHANGED <<latest, heads>>

ClaimJob(w, j) ==
    /\ proc[w].pc = "idle"
    /\ TakeLease(w, j)
    /\ proc' = [proc EXCEPT ![w] = At("begin", j)]

\* The commit took effect but its acknowledgement was lost: the worker sees an
\* error and goes on polling, the job belongs to nobody who works on it.
ClaimUnacknowledged(w, j) ==
    /\ proc[w].pc = "idle"
    /\ TakeLease(w, j)
    /\ UNCHANGED proc

\* A revoked profile, credential or script, or a missing rollback digest.
ClaimRejected(w, j) ==
    /\ proc[w].pc = "idle"
    /\ jobs[j].status = "QUEUED"
    /\ locks[jobs[j].target] = NoLock
    /\ FinishFailed({j})
    /\ UNCHANGED <<lease, locks, proc>>

-------------------------------------------------------------------------------
(***************************************************************************)
(* Processing                                                              *)
(***************************************************************************)

Processing(w) == proc[w].pc \in {"begin", "work", "finish"}

Heartbeat(w) ==
    LET j == proc[w].job IN
    /\ Processing(w)
    /\ ~proc[w].cancelled
    /\ Owns(w, j) /\ HasLockRow(w, j)
    /\ lease' = [lease EXCEPT ![j].fresh = TRUE]
    /\ UNCHANGED <<rowVars, locks, proc>>

\* The heartbeat failed, for a lost lease or any database error, or the
\* process is asked to stop: the job's context is cancelled.
Cancel(w) ==
    /\ Processing(w)
    /\ ~proc[w].cancelled
    /\ proc' = [proc EXCEPT ![w].cancelled = TRUE]
    /\ UNCHANGED <<rowVars, lease, locks>>

\* Mutant: a step begun by a worker that no longer holds the lease.
BeginStepUnfenced(w) ==
    LET j == proc[w].job IN
    /\ proc[w].pc = "begin"
    /\ SetStatus(j, proc[w].step)
    /\ proc' = [proc EXCEPT ![w].pc = "work"]
    /\ UNCHANGED <<latest, heads, lease, locks>>

BeginStep(w) ==
    LET j == proc[w].job IN
    /\ proc[w].pc = "begin"
    /\ ~proc[w].cancelled
    /\ Owns(w, j)
    /\ SetStatus(j, proc[w].step)
    /\ proc' = [proc EXCEPT ![w].pc = "work"]
    /\ UNCHANGED <<latest, heads, lease, locks>>

\* Anything that goes wrong before, during or after a step: workspace, lost
\* lease, cancelled context, failing script, unwritable log, FinishStep
\* refused, credential clean-up.  The run ends and the job is to be failed.
StepFails(w) ==
    /\ proc[w].pc \in {"begin", "work"}
    /\ proc' = [proc EXCEPT ![w].pc = "finish", ![w].ok = FALSE]
    /\ UNCHANGED <<rowVars, lease, locks>>

\* FinishStep is not bound to the job's context: a cancelled worker whose
\* script returned in time records success, and stops at the next BeginStep.
StepSucceeds(w) ==
    LET j == proc[w].job IN
    /\ proc[w].pc = "work"
    /\ Owns(w, j) /\ HasLockRow(w, j)
    /\ \/ \E s \in Running :
            /\ <<proc[w].step, s>> \in StepOrder(jobs[j].op)
            /\ proc' = [proc EXCEPT ![w].pc = "begin", ![w].step = s]
       \/ /\ proc[w].step = "VERIFYING"
          /\ proc' = [proc EXCEPT ![w].pc = "finish", ![w].ok = TRUE]
    /\ UNCHANGED <<rowVars, lease, locks>>

-------------------------------------------------------------------------------
(***************************************************************************)
(* Closing a job                                                           *)
(***************************************************************************)

\* Mutant: FinishJob matching the job by id only.
CloseJobUnfenced(w) ==
    LET j == proc[w].job IN
    /\ proc[w].pc = "finish"
    /\ IF proc[w].ok THEN FinishSucceeded(j) ELSE FinishFailed({j})
    /\ UnlockAll({j})
    /\ UNCHANGED lease

\* The transaction of FinishJob.  locked_by stays on the row.
CloseJob(w) ==
    LET j == proc[w].job IN
    /\ proc[w].pc = "finish"
    /\ Owns(w, j) /\ HasLockRow(w, j)
    /\ IF proc[w].ok THEN FinishSucceeded(j) ELSE FinishFailed({j})
    /\ UnlockAll({j})
    /\ UNCHANGED lease

\* The reply of the commit may be lost; the worker goes idle either way.
FinishJob(w) ==
    /\ CloseJob(w)
    /\ proc' = [proc EXCEPT ![w] = Idle]

\* Lost lease, timeout or database error: nothing is written and the job, if
\* it is still this worker's, waits for its lease to go stale.
FinishJobRefused(w) ==
    /\ proc[w].pc = "finish"
    /\ proc' = [proc EXCEPT ![w] = Idle]
    /\ UNCHANGED <<rowVars, lease, locks>>

-------------------------------------------------------------------------------
(***************************************************************************)
(* Staleness, recovery and crashes                                         *)
(***************************************************************************)

\* More than stale_job_after_ms since heartbeat_at.
LeaseExpires(j) ==
    /\ InFlight(j)
    /\ lease[j].fresh
    /\ lease' = [lease EXCEPT ![j].fresh = FALSE]
    /\ UNCHANGED <<rowVars, locks, proc>>

Stale(j) == InFlight(j) /\ ~lease[j].fresh

\* Mutant: recovery that forgets DELETE FROM release_locks.
RecoverLeavingLocks(w, js) ==
    /\ proc[w].pc = "idle"
    /\ js # {} /\ \A j \in js : Stale(j)
    /\ FinishFailed(js)
    /\ lease' = [j \in Job |-> IF j \in js THEN [lease[j] EXCEPT !.by = NoWorker]
                                            ELSE lease[j]]
    /\ UNCHANGED <<locks, proc>>

\* Mutant: a worker recovers only the jobs it had claimed itself.
RecoverOwnJobs(w, js) ==
    /\ proc[w].pc = "idle"
    /\ js # {} /\ \A j \in js : Stale(j) /\ lease[j].by = w
    /\ FinishFailed(js)
    /\ lease' = [j \in Job |-> IF j \in js THEN [lease[j] EXCEPT !.by = NoWorker]
                                            ELSE lease[j]]
    /\ UnlockAll(js)
    /\ UNCHANGED proc

\* FOR UPDATE SKIP LOCKED: any non-empty set of the stale jobs, in one
\* transaction.  They are failed, never queued again.
RecoverStaleJobs(w, js) ==
    /\ proc[w].pc = "idle"
    /\ js # {} /\ \A j \in js : Stale(j)
    /\ FinishFailed(js)
    /\ lease' = [j \in Job |-> IF j \in js THEN [lease[j] EXCEPT !.by = NoWorker]
                                            ELSE lease[j]]
    /\ UnlockAll(js)
    /\ UNCHANGED proc

\* A supervised runner comes back under a new worker id, so the last worker
\* of the model stands for all the restarts and does not crash.
Crash(w) ==
    /\ proc[w].pc # "dead"
    /\ \E v \in Worker \ {w} : proc[v].pc # "dead"
    /\ proc' = [proc EXCEPT ![w] = At("dead", NoJob)]
    /\ UNCHANGED <<rowVars, lease, locks>>

-------------------------------------------------------------------------------

WorkerStep(w) ==
    \/ Heartbeat(w)
    \/ Cancel(w)
    \/ BeginStep(w)
    \/ StepFails(w)
    \/ StepSucceeds(w)
    \/ FinishJob(w)
    \/ FinishJobRefused(w)
    \/ \E j \in Job : ClaimJob(w, j)
    \/ \E j \in Job : ClaimUnacknowledged(w, j)
    \/ \E j \in Job : ClaimRejected(w, j)
    \/ \E js \in SUBSET Job : RecoverStaleJobs(w, js)

Next ==
    \/ \E j \in Job, r \in Release, op \in {"DEPLOY", "ROLLBACK"} : Enqueue(j, r, op)
    \/ \E w \in Worker : WorkerStep(w)
    \/ \E j \in Job : LeaseExpires(j)
    \/ \E w \in Worker : Crash(w)

Spec == Init /\ [][Next]_vars

-------------------------------------------------------------------------------
(***************************************************************************)
(* Safety                                                                  *)
(***************************************************************************)

\* A row of release_locks exists exactly while a job of its target is in
\* flight, and names the worker on the job row: the WHERE clauses that test
\* one and those that test both agree, no lock outlives its job, and the
\* lock-busy branch of ClaimJob is never taken.
LockMatchesLease ==
    /\ \A j \in Job : InFlight(j) =>
          /\ lease[j].by # NoWorker
          /\ locks[jobs[j].target] = [job |-> j, by |-> lease[j].by]
    /\ \A t \in Target : locks[t] # NoLock =>
          /\ locks[t].job \in Job
          /\ InFlight(locks[t].job)
          /\ jobs[locks[t].job].target = t

\* A verdict is final: no late, recovered or restarted worker writes to a job
\* that already ended (the fences of BeginStep, FinishJob and recovery).
VerdictIsFinal ==
    [][\A j \in Job : jobs[j].status \in Terminal => jobs'[j] = jobs[j]]_vars

\* A job is recorded as deployed or rolled back only by the worker that holds
\* its lease, and only out of the VERIFYING step that the same lease began.
SuccessIsVerified ==
    [][\A j \in Job :
         jobs'[j].status # jobs[j].status /\ jobs'[j].status = SuccessStatus(j) =>
            /\ jobs[j].status = "VERIFYING"
            /\ \E w \in Worker : proc[w].job = j /\ proc[w].ok /\ lease[j].by = w]_vars

\* The release that is live is never shown as rolled back, and is never offered
\* for a first deployment again, however many rollbacks led back to it.
LiveReleaseKeepsItsPlace ==
    \A t \in Target : heads[t] # NoJob =>
        relStatus[jobs[heads[t]].release] \notin {"ROLLED_BACK", "APPROVED", "QUEUED"}

\* Two runners never execute target-changing scripts for one target at once.
OneDeployerPerTarget ==
    \A v, w \in Worker :
        /\ proc[v].pc = "work" /\ proc[v].step \in TouchesTarget
        /\ proc[w].pc = "work" /\ proc[w].step \in TouchesTarget
        /\ jobs[proc[v].job].target = jobs[proc[w].job].target
        => v = w

-------------------------------------------------------------------------------
(***************************************************************************)
(* Liveness                                                                *)
(***************************************************************************)

Progress(w) ==
    BeginStep(w) \/ StepFails(w) \/ StepSucceeds(w) \/ FinishJob(w) \/ FinishJobRefused(w)

\* Nobody renews the lease of such a job any more.
Abandoned(j) == \A w \in Worker : proc[w].job # j

\* Scripts run under timeouts, an idle runner polls and recovers in its loop,
\* and without heartbeats the clock passes stale_job_after_ms.
Fairness ==
    /\ \A w \in Worker :
          /\ WF_vars(Progress(w))
          /\ WF_vars(\E j \in Job : ClaimJob(w, j) \/ ClaimRejected(w, j))
          /\ WF_vars(\E js \in SUBSET Job : RecoverStaleJobs(w, js))
    /\ \A j \in Job : WF_vars(Abandoned(j) /\ LeaseExpires(j))

FairSpec == Spec /\ Fairness

\* Every job ends, and so frees its target, although claims and verdicts get
\* lost and runners crash at any step.
EveryJobEnds == \A j \in Job : Active(j) ~> jobs[j].status \in Terminal

===============================================================================

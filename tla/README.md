# ReleaseDock: TLA+ models and proofs

ReleaseDock deploys container packages. An API server (`src/backend`) keeps
releases, approvals and jobs in PostgreSQL; runners (`src/runner`) claim jobs and
execute them; a web portal (`src/web`) drives both. A second, smaller way to deploy,
*simple mode*, runs one command inside the API server for every uploaded package.

This directory holds models of the parts that decide **what is deployed where, who
may decide it and what is known about it afterwards**, the TLC configurations that
check them, and TLAPS proofs of the most important invariants.

## 1. Inventory

| Component | State | Operations | What is hard about it |
| --- | --- | --- | --- |
| Job and head rows (`001`, `012`, `014`–`016` migrations) | `releases.status`, `release_jobs`, `deployment_heads` | insert a job, change its status, finish it | written by two programs; guards are spread over triggers, unique indexes and SQL in Go; a job uses at its end what was recorded at its start |
| Runner store and loop (`runner/internal/store`, `cmd/runner`) | `locked_by`, `heartbeat_at`, `release_locks`, the process | claim, heartbeat, begin/finish step, finish job, recover stale jobs | crashes, lost acknowledgements, leases that expire under a live worker |
| Pipeline (`runner/internal/pipeline`) | current step, cancellation | the step sequence of DEPLOY and ROLLBACK | the heartbeat goroutine runs beside the steps |
| Privileged executor (`runner/internal/executor`, `cmd/executor`) | host lock, credential directories of both sides, socket, one process per request | hand a secret over, call, accept, validate, copy, run, answer, exit | two processes with separate files; either dies at any step; the socket's backlog outlives both |
| Release API (`releases.go`) | the request columns of `releases`, artifacts | create, upload, edit, delete, submit, review, approve, reject, deploy, retry, rollback | long sequences of requests; policy changes; what was reviewed must be what runs |
| Quick release (`presets.go`) | one long transaction | preflight, store, submit or queue | the transaction outlives other jobs, and `created_at` is its beginning |
| Artifact storage (`releases.go`, `admin.go`) | files and directories below the storage root, `release_artifacts`, the configured root | store, commit, clean up, delete, change the root | COMMITs of unknown outcome, loss of power, clean-up without a lock |
| Accounts and roles (`admin.go`, `rbac_policy.go`, `oidc.go`, `store.go`) | `users`, `roles`, `role_permissions`, `user_roles`, the OIDC default role | create, edit, deactivate and delete accounts and roles, sign in, bootstrap | a request is authenticated before, and carried out after, others change its sender |
| Simple mode (`simple.go`, `simple_config.go`, `localexec`, `admin_simple.go`, `SimpleDeployPage.tsx`) | `simple_runs`, slots, staged and published files, targets, the browser's queue | upload, claim, publish, run, stages, recover, move, revoke | files and rows are changed by different steps; statements fail one by one; crash and restart |
| Log storage and streams (`simple.go`, `releases.go`, `server.go`, the pages) | `simple_run_logs`, the byte budget, cursors, stream counters | append, page, stream, end, reconnect | reads and writes in two statements; streams break and are limited; a line may not fit |
| Runner registry, presets, authentication itself, other administration, portal | see `PROJECT.json` | | without shared state that changes in an order that matters, or not modelled yet |

How they interact: the API server inserts jobs; runners take them by updating the
same rows; triggers copy a job's status to its release and its success to the head
of its target. Server and runner also share the files of artifacts, which only the
server writes. The runner hands scripts to the executor over a socket and secrets over
a directory. Simple mode shares nothing with either: its rows, directories and slots
belong to the server process.

## 2. Modules

| Module | Models | Extends |
| --- | --- | --- |
| `TargetJobs` | the three tables, their guards and the row invariants; no actors | |
| `RunnerLease` | runners: claim, lease, pipeline, closing, recovery, crash | `TargetJobs` |
| `ReleaseWorkflow` | the API's handlers; runners reduced to verdicts | `TargetJobs` |
| `DeploymentHistory` | abstract: a head that moves to a new deployment or back to the recorded one; records nothing refers to may go | |
| `ArtifactStore` | files, rows and transactions of uploaded packages | |
| `Delegation` | accounts, roles, permissions and the requests that change them | |
| `HostExecutor` | one host: runner processes, socket, executor, secrets | |
| `SimpleRun` | simple mode: browser, handler, executor, restart, administrators | |
| `LogStream` | the log of one simple run, its streams and the pages that show it | |
| `MC*` | finite instances | |
| `TargetJobsProofs` | lemmas about the rows and the history they implement, for both modules that extend `TargetJobs` | `TargetJobs` |
| `RunnerLeaseProofs`, `ReleaseWorkflowProofs`, `DelegationProofs`, `SimpleRunProofs`, `LogStreamProofs`, `HostExecutorProofs`, `ArtifactStoreProofs` | theorems | the module they are about |

`PROJECT.json` maps every definition to the lines it stands for. An
operator commented `Mutant`, just before the definition it varies, is a plausible fault
of the code; each property is violated when one of them takes the definition's place.

### TargetJobs
`jobs`, `relStatus` and `heads` are the tables; `latest` is the row that
`ORDER BY created_at DESC LIMIT 1` returns. `InsertJob` is `INSERT INTO release_jobs`
with all its triggers: one unfinished job per target, and for a rollback the basis
that the current head prescribes. `FinishSucceeded` and `FinishFailed` are the two
ways a job ends, with the status and head synchronisation of the same transaction.
Release columns that always name the release of a stored job are not kept twice.
`History` instantiates `DeploymentHistory` with the verified jobs, what each replaced
and the heads: the mapping is the same for the runners and for the API.

### RunnerLease
One action per statement of the runner's store. `Enqueue` is the API reduced to the
guards of the database. A claim may commit and not be acknowledged
(`ClaimUnacknowledged`) or fail on a dependency (`ClaimRejected`). `Heartbeat`,
`BeginStep`, `StepSucceeds` and `FinishJob` carry the lease test of their `WHERE`
clauses. `LeaseExpires` is the passing of `stale_job_after_ms`; it may strike a live
worker. `RecoverStaleJobs` takes any non-empty set of stale jobs
(`FOR UPDATE SKIP LOCKED`). Labels and claimability are an arbitrary choice of who
claims, which admits more behaviours than the code.

### ReleaseWorkflow
A handler runs in one transaction that locks its release row, so it is one action;
a refused request is none. Three things are split. `quickRelease`'s transaction stays
open while the package is stored (`QuickBegin`, then `QuickSubmit`, `QuickQueue` or
`Abandon`). `enqueueRelease` reads the requested operation before it locks
(`RouteEnqueue`, always a step of its own). And its locking statement may wait for an
upload, which holds the row while it stores a file (`DeployWaits`, then `WaitedSubmit`,
`WaitedQueue` or `Abandon`): after the wait PostgreSQL reads the locked row again, but the
artifact and the approval policy stay as the statement first saw them. `stale` marks a
request, and the job it queues, whose artifact was replaced meanwhile. The content of a
release (artifact, version, profile) is a revision number. `submitted` is a history
variable: what the reviewers were last asked to approve. `older[j]` are the jobs of j's
target whose transactions began before j's: the order of `created_at`, which
`Newest` reads and in which a quick release, or a request that waits, has its place from
the start. Timing assumption: only a transaction that stores a package lasts long enough
for other jobs to be queued inside it or for a request to wait for it. One request at a
time waits for the row of a release, and retries and rollbacks, whose releases accept no
upload, do not. A request whose profile was edited while it waited finds no row any more
and is refused (`Abandon`).

`astray` is a history variable too: the releases for which a DEPLOY was queued while
their row requested a ROLLBACK (run `workflow_routing`). Their row holds columns of two
requests, so the properties about what is requested, reviewed or restored leave them out;
the others (`FrozenBasisStaysCurrent`, `QuickReplacesItsBase`, `OpenRequestIsWhole`,
`AutoDeployNeverRests`, what a retry repeats) hold of them as well.

### ArtifactStore
`up` follows one request through its steps: lock the row and the settings, make and
sync the release's directory, write and sync a partial file, rename it, sync the
directory, insert the row, COMMIT. The three callers (`upload`, `multipart`, `quick`)
differ in what they do when a step fails. A COMMIT may be answered, rolled back, or go
unanswered while it took effect or not (`tx = "sent"`); the code then asks the database
and may still not learn the outcome. `Crash(power)` ends every request; with `power`
it also undoes what was not synced. `ensureArtifactStorageChange` is the guard of
`updateSettings`. `excused` is a history variable that names the only files allowed to
stay without a row: those of a crash, of a COMMIT that stayed unknown, and of a multipart
release that was deleted after a failed upload.

Assumed: `os.Remove` succeeds, a removed file does not reappear after a loss of power, and
the storage roots themselves are durable.

### Delegation
`Authenticate` is `withPermission`: it records who sent a request and what it was
granted at arrival. The handlers run later, each as one serializable transaction under
`lockAdminDelegation`, and read the sender's authority again. A sign-in loads the default
role in one step and provisions the account in a later one. `Restart` is a start of the
server with `BootstrapAdmin`, which gives the Administrator role to the account of the
bootstrap name and loses all requests. Permissions that guard no write of this component
are one model value.

### HostExecutor
`runner` is each process from start through host lock and sweep to its jobs; a job runs
its scripts one after the other, each over a connection of its own. `call` holds the
client's end of a connection with the frame in the socket, `exec` the one executor
process that systemd starts for the socket, from accept to exit. Either side may be
killed between any two steps; `alive` are the calls that still have processes, which an
abandoned script may leave behind and which the unit's `KillMode=control-group` ends.
Malformed requests, refused peers and failed validations are one outcome: a failure
answer. Assumed: removals of the runner's own directory (on tmpfs) succeed, and systemd's
removal of the `RuntimeDirectory` is not modelled, which leaves more to the code's own
sweep.

### SimpleRun
`pc` follows one upload from handler to executor. Every statement may fail where the
code goes on or gives up: the insert may take effect unacknowledged, the rename may
fail before or after it is visible, and the updates at start and end may fail. The
settings read when the stages begin are arbitrary. Administrators move and revoke targets
at any moment their handlers allow. A crash ends handlers and executors together with
their commands, as comments in the code say of the process group and as the service
manager does for the unit; rows and files stay. `wide` records that a run executed a stage
that acts on its whole upload.

The browser's request may fail at any moment after it was sent (`ReplyLost`), and the page
then sends the next package whatever becomes of the first in the server. A package given
up before its row is inserted is `left`: the next one can overtake it. If its request was
cut off behind the file, `readSimpleUploadFields` leaves `batchLast`, or `batchId` as well,
unset, and its run is its own last package (`alone`, `ungrouped`). Assumed: `os.Remove` of
a staged file succeeds, where `discard` only warns (`simple.go:603-605`).

### LogStream
The writer counts bytes against two budgets (`CommandBytes`, `SystemBytes`) as
`logBudget.take` does: a line is stored (`Stored`), cut (`Whole`) or dropped, and
charged (`Charge`); the one that uses up the command's budget makes the notice that
output is missing owed (`Exhausted`, `WriteNotice`). The server's own lines (the command
line, those of the stages, the outcome) come out of the reserve. Output arrives in chunks
and is flushed at its end. An `INSERT` may fail
(`logger.failed`). The handler reads a page of rows, then the status, in two steps, and
sends frames with identifiers; it may stop early, because it reaches its maximum duration,
its query or its rows fail, or the server restarts, and it keeps the status it knew when
that cannot be read. A stream is refused at the limit per user, or when the run cannot be
read. The browser reconnects with `Last-Event-ID`, the user by hand. A handler notices late
that its browser has gone and keeps its place under the limit until then.

The two pages differ. The deploy page streams at once into a buffer it shares with the
earlier packages of the upload, which keeps the newest `MaxShown` entries and says when it
dropped older ones (`appendDeployLogLine`, `truncated`); entries of other runs are `Other`.
The detail page collects stored pages (`loads`) and streams from where they end. Its
refresh button reads the run and its log again at any time, also while an earlier
`loadStoredLogs` is under way, and nothing tells the later answer from the current one:
`late` marks a page whose lines an answer replaced under an open stream, `silent` one whose
notice of a lost stream an answer took back.

## 3. Runs

| Run | Question | Instance | Result |
| --- | --- | --- | --- |
| `runner_safety` | rows, locks, verdicts under crashes and recovery | 3 jobs, 2 releases, 1 target, 2 runners | holds |
| `runner_liveness` | does every job end? | 2 jobs, 2 runners, fairness | holds |
| `runner_fence` | two runners at work on one target? | 2 jobs, 2 runners | **violated** |
| `runner_history` | refinement of `DeploymentHistory`, long chains, no cycle, the live release keeps its place | 5 jobs, 3 releases, 1 runner, at most two failures | holds |
| `workflow` | only reviewed content runs, with the row invariants under the real handlers | 3 jobs, 2 releases, 2 users, 2 revisions | holds |
| `workflow_routing` | does a job run the requested operation? | the same with 1 revision | **violated** |
| `simple_run` | one command, intact package, slots, staged files, stages | 3 uploads (two of one batch), 1 target, 2 directories, 2 slots | holds |
| `simple_upload` | do deferred stages wait for every package? | 1 upload of two packages | **violated** |
| `delegation` | does an administrator remain, and is only held authority handed out? | 3 users, 2 requests in flight, 2 roles, 2 permissions | holds |
| `host_executor` | one script at a time, secrets, order, abandoned scripts end | 2 runner processes, 2 jobs of 2 scripts, one job with a secret, one malformed call, fairness | holds |
| `log_stream` | unbroken log, recorded outcome, following ends | 1 page, 1 handler, budget 1 + 4, lines of 0 to 2, pages of 2 lines, 2 shown on the deploy page, 2 loads, 2 faults or refreshes, fairness | holds |
| `artifact_store` | rows have their files, nothing is left behind | 2 releases, 3 artifacts, 2 roots, 1 crash | holds |

Why the bounds are enough.

* Every guard of the rows concerns one target, so one target suffices. Two runners are
  the lost worker and the one that recovers. Three jobs are a failed attempt, its retry
  and a competitor; five give A, B, C and two rollbacks. `AtMostTwoFailures` keeps the
  chains of `runner_history` long; failures in any number are covered by
  `runner_safety`. `MaxRev` bounds edits.
* In simple mode three uploads are two packages of one upload and one competitor, and
  two slots make the limit reachable. `EditsWithTwoUploads` leaves out the second
  package of the batch once the target was moved or revoked: what an edit can harm is
  one run and one competitor. `LeftWithOneUpload` leaves out the competitor and the edits
  once a package was given up before its row: what that can harm is its own upload. The one
  target keeps the reuse of a directory by a second target out of this run.
* In `delegation` two requests race and the third user is the one they act on or the one a
  sign-in creates. One permission guards every write, so a sender can have it and lack
  the other. `OneOfEach` allows one sign-in and one API key at a time and, once all three
  accounts exist, only sessions and sign-ins, with the bootstrap name taken; the theorems
  of section 4 hold without these bounds.
* In `host_executor` two processes contend for the host lock, and two jobs of two
  scripts give a connection left in the backlog by a dead runner together with the next
  job's. Deadlock is checked here, and in `delegation`.
* In `log_stream` one line exceeds the command's budget of 1, so output is stored whole,
  cut and dropped; the reserve of 4 holds the command line, the notice, a stage's line
  and the outcome, and is gone after one more. Three rows exceed one page of either kind;
  one page and `PerUser = 1` make its own abandoned stream the one that blocks it. Two
  loads are enough to overlap. `MaxBreaks` counts whatever goes wrong (failed statements
  and requests, breaks, the maximum duration, restarts) and every refresh; two of them
  give a refresh with an overlapping load, and a break with a refused reconnection. The
  theorems of section 4 hold for any of these numbers.
* In `workflow` one deployment request at a time waits behind uploads to its release;
  further ones, and what they would read, are outside the bound.
* In `artifact_store` three artifacts are an upload, its competitor for the same directory
  and one that is already stored; two roots are the old and the new one; one crash
  suffices because after it no request is left to be interrupted a second time except new
  ones, which start from stored states again.

Symmetry is used over model values that no property tells apart, in runs without
liveness. Where deadlock is not checked, the system rightly rests when all identities
are used and all work is done.

### Fairness
* `runner_liveness` assumes that a live runner goes on (scripts run under timeouts),
  that an idle one keeps claiming and recovering (both are in its polling loop), and
  that the lease of an abandoned job expires (time passes). Nothing is assumed of
  heartbeats, acknowledgements or crashes, except that one worker stays: a supervised
  runner comes back under a new identity.
* `host_executor` assumes only that the executor's side moves: its read has a deadline
  of 5 s, the command its timeout, a frame 30 s, the last wait 1 s, and systemd
  kills what is left after `TimeoutStopSec`. Nothing is assumed of runners.
* `log_stream` assumes that handlers go on (they poll every second) and that browsers do
  (`EventSource` reconnects by itself, requests are answered or fail). Nothing is assumed
  of the command, of broken connections, of the server's restarts or of a reader who
  reconnects by hand.

### What the violated runs show
* `runner_fence`: recovery frees a target by the clock. A runner cut off from the
  database finds out late, and its script overlaps with its successor's. The rows
  stay correct (`SuccessIsVerified`), the target does not have to.
* `workflow_routing`: a deploy request that read `DEPLOY` before a rollback was
  requested and approved queues a deployment instead of the approved rollback. The damage
  lasts longer than that job: when it fails, its retry is submitted while
  `requested_operation` still says ROLLBACK; a fourth job then allows a stale retry to be
  invalidated, which sets the release FAILED under a running rollback, or two rejections
  that leave a verified release REJECTED, that is, open for editing. The attempt to prove
  `ReleaseFollowsJob` and `VerifiedReleaseIsFrozen` without `astray` led there; three jobs
  are too few to see it.
* `simple_upload`: a refused upload leaves no row, so the deferred stages of its batch
  run without it.

Each is quoted with the line that says otherwise under `findings` in `PROJECT.json`.

Other behaviours the models admit, or that were met while reading, without a run of their
own:

* the newest failed job is chosen by `created_at`, the beginning of the inserting
  transaction, so a quick release inserted late, or a deployment that waited for an upload,
  may sort early and an older failure be retried after it;
* a deployment that waited for an upload to its release is queued with the artifact from
  before the upload (`releases.go:957`), where no review is asked for; a retry of that job,
  or a rollback to it, looks the artifact up again and binds the newer one.
  `BoundContentIsTheSame` leaves such originals out (`stale`), `NothingRunsUnreviewed` says
  that none is queued where the policy that the request read asks for a review;
* a package of an upload given up by the browser before its row was inserted is overtaken:
  the last package counts no row of it (`simple.go:754`) and runs the stages of the whole
  upload, and the first one's run comes afterwards, although the comment at
  `simple.go:744-747` says that by then "every other package of the batch has finished". A
  package cut off behind its file runs those stages for itself. `StagesFollowEveryRun`
  leaves both out;
* overlapping loads of the run detail page (`SimpleRunDetailPage.tsx:217-236`) can leave a gap
  in the lines it shows under a live stream until it is refreshed, and can withdraw the notice
  of a lost stream that will not come back;
* a quick release approved without automatic deployment stays APPROVED once the head it was
  compared with has moved;
* a release that ran and failed and whose retry was rejected may be deleted with its jobs
  and logs, and a multipart creation that fails deletes its release whatever became of it
  meanwhile;
* a failed status update of a simple run (`simple.go:614`) leaves a run nobody closes
  until the server restarts;
* a target found idle may be revoked while an upload resolved earlier becomes a run, and a
  target moved during its run leaves its directory to another target, whose upload may
  then replace the package the command works on (`Untouched` in section 4 says when it
  cannot); a file staged in
  a directory a target has left is not swept after a crash;
* the log stream reads lines, then the status (`simple.go:1225`): lines written between the
  two with the final status are shown only after a reload;
* a release's log identifiers come from a sequence before commit, and a runner writes two
  streams at once, so a cursor may pass a line that commits later.

## 4. Proofs

Proved with TLAPS for any sets of jobs, releases, targets and workers, from
`TargetJobsAssumption` and `RunnerLeaseAssumption` (the "none" values are outside their
sets and every release has a target):

* `RunnerLeaseProofs`: every invariant of `runner_safety` (type correctness,
  exclusive targets, locks matching leases, verified heads, current bases, releases
  following jobs), both action properties (verdicts are final, successes are
  verified), the refinement `Spec => History!Spec`, through it
  `HistoriesStayAcyclic`, and `LiveReleasesKeepTheirPlace`: every safety property the
  passing runs check of `RunnerLease`.
* `TargetJobsProofs`: the history is acyclic (`HistoryIsAcyclic`), i.e. in a behaviour of
  `History!Spec` no set of deployments is closed under "what this one replaced". Who
  shows that it implements the history gets this result with it: the runners
  and the API do.

Proved for any finite set of users and any roles, permissions and requests, from
`DelegationAssumption` (the finite set is what counting administrators needs):

* `DelegationProofs`: types, an active administrator remains, whoever gains a
  permission gains it from a sender that holds it at that moment, and administrators are
  made only by administrators in a session, by the default role one of them set or by
  `BootstrapAdmin`.

Proved for any sets of jobs, releases, targets and users and any bound on edits of at
least one, from `TargetJobsAssumption` and `ReleaseWorkflowAssumption`:

* `ReleaseWorkflowProofs`: every property of the run `workflow`. `ReviewedOnly` is the
  action property `NothingRunsUnreviewed`; the others are invariants: types, verified
  releases are frozen, a rollback or retry carries the content it names (unless what it
  names was queued with a replaced artifact), a quick release
  replaces only its base, open requests are whole, automatic releases never rest, a
  release shows its unfinished job, and frozen bases stay current under the API's own
  inserts and deletions. Also the refinement of `DeploymentHistory`, with
  `HistoriesStayAcyclic`, for every release, those led astray included.

Proved for any uploads, targets, directories, names and slots, from
`SimpleRunAssumption` (the packages of an upload form one queue, `Before` its order;
registered directories differ, as `simple_targets_active_dir_idx` demands):

* `SimpleRunProofs`: every invariant of the run `simple_run`, and `Untouched`: under
  the extra hypothesis that targets are moved only while neither the target nor the new
  directory has an upload or command (`MovedWhenIdle`), no upload of any target replaces
  the package of a command. The code does not enforce that hypothesis; it is what an
  administrator has to observe.

Proved for any number of runner processes, jobs and scripts, from `HostAssumption` (the
none value is outside its sets; which jobs have secrets and which calls are malformed is
arbitrary):

* `HostExecutorProofs`: types, scripts do not overlap, secrets stay with their job,
  scripts run in order.

Proved for any releases, uploads, roots and number of crashes, from `StoreAssumption`:

* `ArtifactStoreProofs`: types, rows have their content, nothing is left behind.

Proved for any budgets, line lengths, page sizes, display limits, pages, loads, handlers,
limits and number of faults and refreshes, from `LogAssumption` (sizes are naturals;
pages, the deploy page's window and the command's budget are not empty):

* `LogStreamProofs`: what a page shows are stored lines without repetition, without a gap
  and from the first one on unless it says that it dropped older ones, except that a page
  whose lines were replaced under its stream shows them in order only
  (`ShownLogsAreUnbroken`); and the log of a run that recorded its
  outcome says how the command ended and whether output is missing
  (`LogsTellTheOutcome`). The second is said of runs whose inserts all worked and whose
  reserve is not used up. That the real reserve of 64 KiB suffices is not proved: a
  comment in `simple.go` calls the server's own lines "few and short", but the
  length of a command line is not limited, only its number of arguments.

What the violated properties depend on. Three theorems say under which condition the
property of a violated run holds after all. None of the conditions is enforced by the
code, each is satisfied by ordinary behaviours, and each names the one thing that is
missing:

* `DeployersExclude` (`runner_fence`): if a job is recovered only when its runner has
  stopped executing it (`RecoveryFindsItStopped`), two runners never execute scripts for
  one target, under any crashes and lost answers. Nothing else can make them overlap;
  `stale_job_after_ms` is what the code puts in the place of the condition.
* `OperationsAreRequested` (`workflow_routing`): if `enqueueRelease` queues a deployment
  only while one is requested (`RoutingIsFresh`), every job runs the requested operation
  and no release is led astray, so a release shows its unfinished job without exception.
* `StagesFollowRecorded` (`simple_upload`): if every upload that ended or was given up for
  the browser has left a row by then (`EveryUploadIsRecorded`), the stages of a whole upload
  run only when all its packages were deployed, for queues of any length.

The argument for the rows. `RowCore` (in `TargetJobsProofs`) collects what the tables
guarantee whoever writes them, and `RowInv` adds that a release follows its job; the
lemmas show them preserved by inserting a job, by moving an unfinished job's status and
by both ways to end one. They are stronger than the properties checked: a row's target
must be its release's and an unused identity must be empty (`RowsOK`), and the row
invariants need each other: that a result is never refused rests on the single
unfinished job of the target, that a head stays verified rests on the frozen sources.
For the runners, `IInv` adds that locks match leases, that a lease is only on a claimed
job (`LeaseIsClaim`), and that a worker which still owns its job knows the status in its
row (`WorkerKnowsStatus`). The last is what makes "success only out of VERIFYING"
provable: the closing statement does not test for VERIFYING, the lease does it in its
place. The step lemma has one case per action. The acyclicity proof needs no induction
over the history: `HInv` says that heads and records name only verified deployments, so a
deployment just verified is nobody's predecessor, and a set closed under `prior` that
contained it would be closed without it too. Deleting a release is `Forget`: the foreign
keys leave no head and no other job that names what is deleted. It matters only for
releases led astray, which can be verified and open for editing at once.

That deployers exclude each other rests on `ExecutorOwns`: whoever executes a job has
its lease. Only `RecoverStaleJobs` takes a lease from a worker that does not give it
up, and then `OneActivePerTarget` makes two executors of one target executors of one job.

That the live release keeps its place (`LiveReleaseKeepsItsPlace`) is inductive only with
`PlaceInv`, which says where each deployment stands. A deployment *stands* when it was
verified and its release was not rolled back. A release is verified at most once
(`OnceInv`): `MayRequest` and the triggers admit a second deployment only after a failed
one. An attempt that is rolled back to the head itself never succeeded (`AttemptInv`), so
closing that rollback marks no standing deployment. And the standing deployments form a
chain (`ChainInv`): the head stands, what a standing deployment replaced stands, and
nothing that stands replaced the head. So when a rollback of the head marks its release,
what it returns to belongs to another release and stands. `NewestInv` says which job
`latest` names: the unfinished one, except for the first job of a release, whose
transaction, and so its `created_at`, may have begun before others were inserted.

The argument for the workflow. `WInv` has three layers. The order of `created_at`
(`OrderInv`, `LatestInv`, `UploadInv`): whatever jobs have begun on a target, one of any
non-empty set of them is the newest, `latest` names the newest that was inserted, and
places reserved by open quick releases and waiting requests belong to nobody else, come
after all jobs of their release, and are held only while that release can still be
uploaded to. The life of a row
(`LifeOK`, `RollbackOK`, `RevOK`): which columns a status allows, and that the content
of a release is that of its newest own deployment wherever a retry or a rollback will
read it; edits happen only between a rejection and the next submission. And, for
releases not led astray, what was asked (`OrderlyOK`, `ReviewOK`): an unfinished job is
the one requested, a verified release is SUCCESS or has SUCCESS to return to, and what
is under review is what was submitted, approved by another person. The unobvious part is
`RevOK`: the code looks content up through the release again when it queues a job, and
nothing compares it with what the earlier job ran; that it is the same follows only from
the statuses a failed or verified release can reach.

The argument for simple mode. `IInv` ties each row to the place of its handler or
executor (`RowInv`), counts slots by a finite set of holders (`SlotInv`), and states the
browser's discipline (`QueueInv`): a package is sent when the one before it is closed.
`StagesFollowEveryRun` needs the queue: when the last package has been sent, all others
are closed, so no run of the upload can appear behind a stage of the whole upload, except
that of a package `left` behind; and only such a package can lose its mark (`AloneInv`). This is
shown for queues of any length by taking the set of closed packages in the definition of
`Earlier`, without an induction. `OneRunPerTarget` is the partial unique index, with
the inserts that took effect unacknowledged.

The argument for the host. In `HInv` only the holder of the host lock has a job
(`RunnerInv`), the hand-over directory is that job's (`HandoffInv`), the executor's phase
says which processes and which private secrets exist (`ExecInv`), a call is accepted at
most once (`QueueInv`, `UnusedInv`), and no end of a connection shows a success the
executor did not see (`SuccessInv`). The order of scripts follows: a call is made only
when all earlier ones of its job succeeded, and what waits in the backlog of a dead
runner was made under the same rule.

The argument for storage. In `AInv` a transaction holds its release and its root to the
end (`RequestInv`, `LockInv`), a file is on disk as far as its request has come
(`FileInv`), and the directory of a named file is synced (`DirInv`), which is what a loss
of power cannot undo. Clean-up without a lock is harmless because only an empty directory
is removed and a request makes and syncs its directory again before it relies on it.

The argument for authority. `AnAdminRemains` is inductive together with the types. A
step that takes the Administrator role or the account from somebody passed
`protectLastActiveAdmin`, which counts at least two active administrators or finds that the
account is none of them (`AnotherAdmin`, `LockoutLeavesAdmin`); every other step keeps
the administrators it finds (`KeepsAdmin`). The two action properties follow case by case
from `AuthorityIsHeld`: what a handler lets through is included in what its sender holds
when the transaction runs, not in what it held on arrival.

The argument for the log. The writer's part (`WriterInv`) is about two numbers. Output is
missing only when the command's budget is 0; then the notice is owed, or was told whole,
or an insert failed, or the reserve is used up. A reserve that is not used up at the end
has stored every earlier line of the server whole, the notice and the outcome among
them. This is where two budgets are needed: with one, the output that exceeds it takes the
outcome along. For the streams (`StreamInv`) what a page holds (`Shown`) is a list of
entries each of which may follow the one before it. While the page follows a run
(`Follows`), its cursor is its last line of that run and the place a new connection
resumes from, unless a late load moved it; frames on the wire continue it one by one, and
only the last may be an end (`WireInv`); at most one handler serves a page, and its cursor
is the last line the page received plus what is on the wire (`HandlerInv`). A handler whose
page has gone sends to nobody. What a load collects is 1..n (`UpTo`), and dropping the head
of a list keeps its order; that is why the deploy page's window needs no more than its
notice.

Only model-checked: liveness (`EveryJobEnds`, `AbandonedScriptEnds`, `FollowingEnds`),
which is out of the prover's reach. Every other property of a passing run is a theorem.

## 5. Not modelled

The work inside a step (images, archives, what scripts do, health checks), runner labels
and inventories, preset administration and version parsing, the runner's own log writer,
passwords, session expiry, the OIDC login state and token checks, CRUD of environments,
profiles, scripts and credentials beyond their effect on jobs in flight, read-only
adapters (Harbor, MCP, AI, guides), the portal's screens and the installation scripts.
`PROJECT.json` gives the reason for each.

## 6. Plan

1. *Done*: `TargetJobs`, `RunnerLease`, `DeploymentHistory`, `ReleaseWorkflow`,
   `SimpleRun`, `LogStream`, `ArtifactStore`, `HostExecutor`, `Delegation`, and the proofs
   of all their safety properties.
2. Next models: sessions and password changes (a login that checked the old password may
   insert its session after the others were ended), the runner's log writer with two
   streams, runner registration and claimability.

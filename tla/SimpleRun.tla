------------------------------ MODULE SimpleRun ------------------------------
(***************************************************************************)
(* Simple mode: the API server stores an uploaded package in its target's  *)
(* directory and runs one command on it inside its own process, then the   *)
(* post-deployment stages.  A handler goroutine stages the upload, claims  *)
(* the target with a row of simple_runs, publishes the package and starts  *)
(* an executor.  The browser sends the packages of one upload one after    *)
(* the other and marks the last, which carries the stages that are to run  *)
(* once per upload.  Uploads and commands are cut off by a crash, their    *)
(* rows and files are not.                                                 *)
(***************************************************************************)
EXTENDS Naturals, FiniteSets

CONSTANTS Run,         \* upload requests; each becomes at most one run
          NoRun,
          Target, Dir, Name,
          TargetFor,   \* the target a request names
          NameOf,      \* the file name of its package
          UploadOf,    \* the upload (batch) it belongs to
          Before,      \* the package sent before it in the same upload
          HomeDir,     \* the directory each target is registered with
          MaxRuns      \* maxSimpleConcurrentRuns

\* q was put into the queue of r's upload before r: it is in every set that
\* holds the package before r and, with a package, the one before that.
Earlier(q, r) ==
    /\ Before[r] # NoRun
    /\ \A S \in SUBSET Run :
          /\ Before[r] \in S
          /\ \A p \in S : Before[p] # NoRun => Before[p] \in S
          => q \in S

\* One queue per upload, and no two targets registered with one directory.
ASSUME SimpleRunAssumption ==
    /\ NoRun \notin Run
    /\ TargetFor \in [Run -> Target]
    /\ NameOf \in [Run -> Name]
    /\ Before \in [Run -> Run \cup {NoRun}]
    /\ \A r \in Run : Before[r] # NoRun => UploadOf[Before[r]] = UploadOf[r]
    /\ \A q, r \in Run : UploadOf[q] = UploadOf[r] => q = r \/ Earlier(q, r) \/ Earlier(r, q)
    /\ HomeDir \in [Target -> Dir]
    /\ \A s, t \in Target : HomeDir[s] = HomeDir[t] => s = t
    /\ MaxRuns \in Nat

VARIABLES
    rows,      \* simple_runs: status and stage results
    pc,        \* per request: where its handler or executor is
    pathDir,   \* per request: upload_dir as its handler resolved it
    outcome,   \* per request: what its executor will record
    client,    \* per request: what the browser knows of it
    alone,     \* runs whose request ended before its batchLast field
    ungrouped, \* those of them that lack the batchId field too
    partials,  \* staged files, by the request that wrote them
    files,     \* published packages, by directory and file name
    slots,     \* simpleActive
    up,        \* is the server process running?
    dirOf,     \* simple_targets.upload_dir
    revoked,   \* simple_targets.revoked_at IS NOT NULL
    revoking   \* targets a revocation has found idle

vars == <<rows, pc, pathDir, outcome, client, alone, ungrouped, partials, files, slots, up,
          dirOf, revoked, revoking>>

adminVars == <<dirOf, revoked, revoking>>

-------------------------------------------------------------------------------

Ended == {"SUCCESS", "FAILED", "TIMEOUT"}

StageStatus == {"NONE", "SKIPPED"} \cup Ended

\* wide: a stage scoped to the whole upload was executed by this run.
RunRow == [status : {"ABSENT", "PENDING", "RUNNING"} \cup Ended,
           repl : StageStatus, app : StageStatus, wide : BOOLEAN]

Result(status, repl, app, wide) ==
    [status |-> status, repl |-> repl, app |-> app, wide |-> wide]

NoResult == Result("ABSENT", "NONE", "NONE", FALSE)

Executing == {"start", "command", "stages", "closing"}

\* Between acquireSimpleRun and releaseSimpleRun.
Holding == {"uploading", "claimed"} \cup Executing

TypeOK ==
    /\ rows \in [Run -> RunRow]
    /\ pc \in [Run -> {"none", "done", "lost"} \cup Holding]
    /\ pathDir \in [Run -> Dir]
    /\ outcome \in [Run -> RunRow]
    /\ client \in [Run -> {"waiting", "sent", "failed", "left", "seen", "unknown"}]
    /\ alone \subseteq Run /\ ungrouped \subseteq alone
    /\ partials \subseteq Run
    /\ files \in [Dir \X Name -> Run \cup {NoRun}]
    /\ slots \in 0 .. MaxRuns
    /\ up \in BOOLEAN
    /\ dirOf \in [Target -> Dir]
    /\ revoked \subseteq Target
    /\ revoking \subseteq Target

Init ==
    /\ rows = [r \in Run |-> NoResult]
    /\ pc = [r \in Run |-> "none"]
    /\ pathDir = [r \in Run |-> HomeDir[TargetFor[r]]]
    /\ outcome = [r \in Run |-> NoResult]
    /\ client = [r \in Run |-> "waiting"]
    /\ alone = {} /\ ungrouped = {}
    /\ partials = {}
    /\ files = [x \in Dir \X Name |-> NoRun]
    /\ slots = 0
    /\ up = TRUE
    /\ dirOf = HomeDir
    /\ revoked = {}
    /\ revoking = {}

Busy(t) == \E r \in Run : TargetFor[r] = t /\ rows[r].status \in {"PENDING", "RUNNING"}

Path(r) == <<pathDir[r], NameOf[r]>>

SetRow(r, s) == rows' = [rows EXCEPT ![r].status = s]

SetClient(r, s) == client' = [client EXCEPT ![r] = s]

-------------------------------------------------------------------------------
(***************************************************************************)
(* The browser's queue                                                     *)
(***************************************************************************)

\* The next package goes out once the one before it failed to start or ended.
MaySend(r) ==
    /\ client[r] = "waiting"
    /\ Before[r] # NoRun => client[Before[r]] \in {"failed", "left", "seen"}

\* No connection, an unknown target, an invalid file or all slots taken.
SendRefused(r) ==
    /\ MaySend(r)
    /\ SetClient(r, "failed")
    /\ UNCHANGED <<rows, pc, pathDir, outcome, alone, ungrouped, partials, files, slots, up, adminVars>>

\* The row holds its terminal status and the poll reads it.
SeeTerminal(r) ==
    /\ client[r] = "sent"
    /\ rows[r].status \in Ended
    /\ SetClient(r, "seen")
    /\ UNCHANGED <<rows, pc, pathDir, outcome, alone, ungrouped, partials, files, slots, up, adminVars>>

\* The request fails for the browser, which takes it for a failure to start
\* whatever becomes of it in the server; left: its run is not yet recorded.
ReplyLost(r) ==
    /\ client[r] = "sent"
    /\ SetClient(r, IF pc[r] = "uploading" THEN "left" ELSE "failed")
    /\ UNCHANGED <<rows, pc, pathDir, outcome, alone, ungrouped, partials, files, slots, up, adminVars>>

\* pollAbandonReason: the queue stops, the packages behind are never sent.
StopPolling(r) ==
    /\ client[r] = "sent"
    /\ pc[r] \in Executing \cup {"done", "lost"}
    /\ SetClient(r, "unknown")
    /\ UNCHANGED <<rows, pc, pathDir, outcome, alone, ungrouped, partials, files, slots, up, adminVars>>

-------------------------------------------------------------------------------
(***************************************************************************)
(* The handler: createSimpleRun                                            *)
(***************************************************************************)

\* Mutant: the limit compared the wrong way round.
AcquireOneMore == slots <= MaxRuns

acquireSimpleRun == slots < MaxRuns

\* resolveSimpleTarget, acquireSimpleRun and the first bytes of the package.
AcceptUpload(r) ==
    /\ up
    /\ MaySend(r)
    /\ TargetFor[r] \notin revoked
    /\ acquireSimpleRun
    /\ slots' = slots + 1
    /\ pc' = [pc EXCEPT ![r] = "uploading"]
    /\ pathDir' = [pathDir EXCEPT ![r] = dirOf[TargetFor[r]]]
    /\ partials' = partials \cup {r}
    /\ SetClient(r, "sent")
    /\ UNCHANGED <<rows, outcome, alone, ungrouped, files, up, adminVars>>

\* Mutant: the early return of a failed insert leaves the staged file behind.
EndHandlerKeeping(r) ==
    /\ pc' = [pc EXCEPT ![r] = "done"]
    /\ slots' = slots - 1
    /\ UNCHANGED partials

\* What every return of the handler defers: discard and releaseSimpleRun.
EndHandler(r) ==
    /\ pc' = [pc EXCEPT ![r] = "done"]
    /\ slots' = slots - 1
    /\ partials' = partials \ {r}

\* The error answer of a handler, to a browser that still waits for one.
AnswerError(r) == SetClient(r, IF client[r] = "sent" THEN "failed" ELSE client[r])

\* Too large, unwritable, connection lost, the target busy, or the INSERT
\* failing for another reason.
UploadRefused(r) ==
    /\ pc[r] = "uploading"
    /\ EndHandler(r)
    /\ AnswerError(r)
    /\ UNCHANGED <<rows, pathDir, outcome, alone, ungrouped, files, up, adminVars>>

\* Mutant: simple_runs_active_target_idx missing.
MayClaimAlways(r) == pc[r] = "uploading"

MayClaim(r) == pc[r] = "uploading" /\ ~Busy(TargetFor[r])

\* readSimpleUploadFields: a request cut off behind its package leaves batchLast
\* unset, or batchId as well, and its run is then marked as its own last.
readSimpleUploadFields(r) ==
    \/ UNCHANGED <<alone, ungrouped>>
    \/ /\ client[r] = "left"
       /\ alone' = alone \cup {r}
       /\ ungrouped' \in {ungrouped, ungrouped \cup {r}}

InsertRun(r) ==
    /\ MayClaim(r)
    /\ readSimpleUploadFields(r)
    /\ SetRow(r, "PENDING")
    /\ pc' = [pc EXCEPT ![r] = "claimed"]
    /\ UNCHANGED <<pathDir, outcome, client, partials, files, slots, up, adminVars>>

\* The INSERT took effect but the handler saw an error and gave up.
InsertUnacknowledged(r) ==
    /\ MayClaim(r)
    /\ readSimpleUploadFields(r)
    /\ SetRow(r, "PENDING")
    /\ EndHandler(r)
    /\ AnswerError(r)
    /\ UNCHANGED <<pathDir, outcome, files, up, adminVars>>

\* Mutant: the handler gives its slot back although an executor took it over.
PublishReleasing(r) ==
    /\ pc[r] = "claimed"
    /\ files' = [files EXCEPT ![Path(r)] = r]
    /\ partials' = partials \ {r}
    /\ pc' = [pc EXCEPT ![r] = "start"]
    /\ slots' = slots - 1
    /\ UNCHANGED <<rows, pathDir, outcome, client, alone, ungrouped, up, adminVars>>

\* Rename to the package's own name and start the executor.
PublishPackage(r) ==
    /\ pc[r] = "claimed"
    /\ files' = [files EXCEPT ![Path(r)] = r]
    /\ partials' = partials \ {r}
    /\ pc' = [pc EXCEPT ![r] = "start"]
    /\ UNCHANGED <<rows, pathDir, outcome, client, alone, ungrouped, slots, up, adminVars>>

\* The rename or the directory sync behind it failed; failSimpleRun closes the
\* row unless that statement fails too.
PublishFails(r) ==
    /\ pc[r] = "claimed"
    /\ \/ UNCHANGED files
       \/ files' = [files EXCEPT ![Path(r)] = r]
    /\ SetRow(r, "FAILED") \/ UNCHANGED rows
    /\ EndHandler(r)
    /\ AnswerError(r)
    /\ UNCHANGED <<pathDir, outcome, alone, ungrouped, up, adminVars>>

-------------------------------------------------------------------------------
(***************************************************************************)
(* The executor: executeSimpleRun                                          *)
(***************************************************************************)

EndExecutor(r) ==
    /\ pc' = [pc EXCEPT ![r] = "done"]
    /\ slots' = slots - 1
    /\ outcome' = [outcome EXCEPT ![r] = NoResult]
    /\ UNCHANGED <<pathDir, client, alone, ungrouped, partials, files, up, adminVars>>

StartCommand(r) ==
    /\ pc[r] = "start"
    /\ SetRow(r, "RUNNING")
    /\ pc' = [pc EXCEPT ![r] = "command"]
    /\ UNCHANGED <<pathDir, outcome, client, alone, ungrouped, partials, files, slots, up, adminVars>>

\* The UPDATE failed: the executor returns and the row stays PENDING.
StartFails(r) ==
    /\ pc[r] = "start"
    /\ EndExecutor(r)
    /\ UNCHANGED rows

\* localexec.Run returns.
CommandEnds(r) ==
    /\ pc[r] = "command"
    /\ \E s \in Ended : outcome' = [outcome EXCEPT ![r] = Result(s, "NONE", "NONE", FALSE)]
    /\ pc' = [pc EXCEPT ![r] = "stages"]
    /\ UNCHANGED <<rows, pathDir, client, alone, ungrouped, partials, files, slots, up, adminVars>>

\* The browser marks the last package; a run without a mark is its own last.
Marked(r) == \A q \in Run : Before[q] # r

batchLast(r) == Marked(r) \/ r \in alone

\* Mutant: only the packages still in progress are counted.
FailedPackagesInProgress(r) ==
    \E q \in Run \ ({r} \cup ungrouped) :
        UploadOf[q] = UploadOf[r] /\ rows[q].status \in {"PENDING", "RUNNING"}

uploadHasFailedPackages(r) ==
    \E q \in Run \ ({r} \cup ungrouped) :
        UploadOf[q] = UploadOf[r] /\ rows[q].status \notin {"ABSENT", "SUCCESS"}

stageRuns(scope, last) == scope # "ONCE" \/ last

appDeployStageRuns(scope, last, repl) == repl # "SKIPPED" /\ stageRuns(scope, last)

stageHeldForIncompleteUpload(scope, incomplete) == scope = "ONCE" /\ incomplete

stageFailed(s) == s \notin {"NONE", "SKIPPED", "SUCCESS"}

\* Mutant: a run that held the stages of its upload reported as it is.
HeldIgnored(status, held) == status

outcomeWithHeldStages(status, held) ==
    IF held /\ status = "SUCCESS" THEN "FAILED" ELSE status

Replication(scope, last, incomplete) ==
    CASE scope = "OFF" -> {"NONE"}
      [] scope # "OFF" /\ (~stageRuns(scope, last)
                             \/ stageHeldForIncompleteUpload(scope, incomplete)) -> {"SKIPPED"}
      [] OTHER -> Ended

AppDeployment(scope, last, incomplete, repl) ==
    CASE scope = "OFF" \/ stageFailed(repl) -> {"NONE"}
      [] scope # "OFF" /\ ~stageFailed(repl)
           /\ (stageHeldForIncompleteUpload(scope, incomplete)
                 \/ ~appDeployStageRuns(scope, last, repl)) -> {"SKIPPED"}
      [] OTHER -> Ended

\* What a run whose command succeeded records, given the settings it reads at
\* that moment and the answer it got about the rest of its upload.
StageResult(replScope, appScope, incomplete, repl, app) ==
    LET held == incomplete /\ (\/ replScope = "ONCE"
                               \/ appScope = "ONCE" /\ ~stageFailed(repl))
        status == IF stageFailed(repl) \/ stageFailed(app) THEN "FAILED" ELSE "SUCCESS"
    IN  Result(outcomeWithHeldStages(status, held), repl, app,
               \/ replScope = "ONCE" /\ repl \in Ended
               \/ appScope = "ONCE" /\ app \in Ended)

\* Asked for the last package of a batch; a failed query answers yes.
UploadIncomplete(r) ==
    IF batchLast(r) /\ r \notin ungrouped THEN {uploadHasFailedPackages(r), TRUE} ELSE {FALSE}

\* The stages, after a clean command only; unreadable settings fail the run.
RunStages(r) ==
    /\ pc[r] = "stages"
    /\ \/ outcome[r].status # "SUCCESS" /\ UNCHANGED outcome
       \/ /\ outcome[r].status = "SUCCESS"
          /\ \/ outcome' = [outcome EXCEPT ![r].status = "FAILED"]
             \/ \E replScope, appScope \in {"OFF", "EACH", "ONCE"} :
                \E incomplete \in UploadIncomplete(r) :
                \E repl \in Replication(replScope, batchLast(r), incomplete) :
                \E app \in AppDeployment(appScope, batchLast(r), incomplete, repl) :
                   outcome' = [outcome EXCEPT ![r] =
                                 StageResult(replScope, appScope, incomplete, repl, app)]
    /\ pc' = [pc EXCEPT ![r] = "closing"]
    /\ UNCHANGED <<rows, pathDir, client, alone, ungrouped, partials, files, slots, up, adminVars>>

\* The final UPDATE; when it fails the row stays RUNNING.
RecordOutcome(r) ==
    /\ pc[r] = "closing"
    /\ rows' = [rows EXCEPT ![r] = outcome[r]] \/ UNCHANGED rows
    /\ EndExecutor(r)

-------------------------------------------------------------------------------
(***************************************************************************)
(* The process and the administrators                                      *)
(***************************************************************************)

\* The service manager kills the commands with the server's control group.
Crash ==
    /\ up
    /\ up' = FALSE
    /\ pc' = [r \in Run |-> IF pc[r] \in Holding THEN "lost" ELSE pc[r]]
    /\ slots' = 0
    /\ outcome' = [r \in Run |-> NoResult]
    /\ client' = [r \in Run |-> IF pc[r] \in {"uploading", "claimed"} /\ client[r] = "sent"
                                  THEN "failed" ELSE client[r]]
    /\ revoking' = {}
    /\ UNCHANGED <<rows, pathDir, alone, ungrouped, partials, files, dirOf, revoked>>

RecoverSimpleRuns ==
    [r \in Run |-> IF rows[r].status \in {"PENDING", "RUNNING"}
                     THEN [rows[r] EXCEPT !.status = "FAILED"] ELSE rows[r]]

\* What the sweep leaves: it covers the directories the targets have now.
RemoveStagedSimpleUploads ==
    {r \in partials : \A t \in Target : dirOf[t] # pathDir[r]}

\* Each of the two only warns when it fails.
Restart ==
    /\ ~up
    /\ up' = TRUE
    /\ rows' = RecoverSimpleRuns \/ UNCHANGED rows
    /\ partials' = RemoveStagedSimpleUploads \/ UNCHANGED partials
    /\ UNCHANGED <<pc, pathDir, outcome, client, alone, ungrouped, files, slots, adminVars>>

\* updateSimpleTarget; simple_targets_active_dir_idx keeps directories apart.
MoveTarget(t, d) ==
    /\ up
    /\ t \notin revoked
    /\ dirOf[t] # d
    /\ \A s \in Target \ revoked : dirOf[s] # d
    /\ dirOf' = [dirOf EXCEPT ![t] = d]
    /\ UNCHANGED <<rows, pc, pathDir, outcome, client, alone, ungrouped, partials, files, slots, up,
                   revoked, revoking>>

\* revokeSimpleTarget reads whether work is in flight, then writes.
RevokeCheck(t) ==
    /\ up
    /\ t \notin revoked \cup revoking
    /\ ~Busy(t)
    /\ revoking' = revoking \cup {t}
    /\ UNCHANGED <<rows, pc, pathDir, outcome, client, alone, ungrouped, partials, files, slots, up,
                   dirOf, revoked>>

RevokeWrite(t) ==
    /\ t \in revoking
    /\ revoked' = revoked \cup {t}
    /\ revoking' = revoking \ {t}
    /\ UNCHANGED <<rows, pc, pathDir, outcome, client, alone, ungrouped, partials, files, slots, up, dirOf>>

-------------------------------------------------------------------------------

Browser(r) == SendRefused(r) \/ SeeTerminal(r) \/ ReplyLost(r) \/ StopPolling(r)

Handler(r) ==
    \/ UploadRefused(r)
    \/ InsertRun(r)
    \/ InsertUnacknowledged(r)
    \/ PublishPackage(r)
    \/ PublishFails(r)

Executor(r) ==
    \/ StartCommand(r)
    \/ StartFails(r)
    \/ CommandEnds(r)
    \/ RunStages(r)
    \/ RecordOutcome(r)

Admin(t) == RevokeCheck(t) \/ RevokeWrite(t) \/ \E d \in Dir : MoveTarget(t, d)

Next ==
    \/ \E r \in Run : AcceptUpload(r) \/ Browser(r) \/ Handler(r) \/ Executor(r)
    \/ \E t \in Target : Admin(t)
    \/ Crash
    \/ Restart

Spec == Init /\ [][Next]_vars

-------------------------------------------------------------------------------
(***************************************************************************)
(* Properties                                                              *)
(***************************************************************************)

\* At most one command works on a target, whatever crashes, failed statements
\* and recoveries came before (simple_runs_active_target_idx and the order in
\* which createSimpleRun claims, publishes and starts).
OneCommandPerTarget ==
    \A p, q \in Run :
        pc[p] \in Executing /\ pc[q] \in Executing /\ TargetFor[p] = TargetFor[q] => p = q

\* simpleActive counts exactly the uploads and commands in progress, so no
\* slot leaks on an early return and none is given back twice.
SlotsAreExact == slots = Cardinality({r \in Run : pc[r] \in Holding})

\* Until a command and its stages are done, the package it was handed is there
\* and no other upload to its target has taken the name; only a target given
\* the directory meanwhile could (updateSimpleTarget does not look for runs).
PackageIsNotSwapped ==
    \A r \in Run : pc[r] \in Executing =>
        LET q == files[Path(r)] IN q # NoRun /\ (TargetFor[q] = TargetFor[r] => q = r)

\* An upload that ended leaves no staged file, and one that never became a run
\* has replaced nothing in the target's directory.
RefusedUploadLeavesNothing ==
    /\ \A r \in Run : pc[r] = "done" => r \notin partials
    /\ \A x \in Dir \X Name : files[x] # NoRun => rows[files[x]].status # "ABSENT"

\* A green run that carried the once-per-upload stages left none of them out,
\* and no application was rolled over ahead of its replication.
GreenRunIsComplete ==
    \A r \in Run :
        /\ rows[r].status = "SUCCESS" /\ batchLast(r) => "SKIPPED" \notin {rows[r].repl, rows[r].app}
        /\ rows[r].app \in Ended => rows[r].repl \in {"NONE", "SUCCESS"}

\* A stage that acts on a whole upload ran only when every other run of that
\* upload had deployed, and none of them is reopened afterwards.  Left out are
\* packages the browser gave up while their handler had not yet inserted its
\* row, which the last package can overtake, and a package that lost its
\* mark, which acts for itself ("every other package of the batch has
\* finished" does not hold of either).
StagesFollowEveryRun ==
    \A r, q \in Run :
        /\ rows[r].wide /\ q # r /\ UploadOf[q] = UploadOf[r]
        /\ r \notin alone /\ client[q] # "left"
        => rows[q].status \in {"ABSENT", "SUCCESS"}

\* A stage that acts on a whole upload runs only when every package of that
\* upload was deployed; a package that lost its mark acts for itself.
StagesFollowEveryPackage ==
    \A r, q \in Run :
        rows[r].wide /\ r \notin alone /\ UploadOf[q] = UploadOf[r] /\ q # r
        => rows[q].status = "SUCCESS"

===============================================================================

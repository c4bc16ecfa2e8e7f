----------------------------- MODULE HostExecutor -----------------------------
(***************************************************************************)
(* One host: runner processes, of which the host lock lets one work, and   *)
(* the executor that runs approved scripts for it.  The runner hands a     *)
(* target credential over in a directory of the job; the executor makes    *)
(* its own copy, answers one request and exits, and systemd kills what is  *)
(* left of the script before it starts the executor again.                 *)
(***************************************************************************)
EXTENDS Naturals, Sequences, FiniteSets

CONSTANTS Runner, Job, MaxScripts,
          WithSecret,   \* jobs that have a target credential
          Malformed,    \* calls beyond the limits of the wire protocol
          None

ASSUME HostAssumption ==
    /\ None \notin Runner \cup Job \cup (Job \X (1..MaxScripts))
    /\ MaxScripts \in Nat
    /\ WithSecret \subseteq Job
    /\ Malformed \subseteq Job \X (1..MaxScripts)

VARIABLES
    runner,    \* state, job and number of finished scripts of each process
    lock,      \* the process that holds the flock on .runner.lock
    todo,      \* jobs nobody has claimed
    handoff,   \* /run/releasedock-credentials/job-<id>: nothing, directory, with file
    call,      \* the client's end of each connection
    backlog,   \* connections the executor has not accepted
    exec,      \* the executor process
    private,   \* jobs whose secret is in the executor's private directory
    alive,     \* calls that have processes, the script or what it left
    ran        \* history: how the script of each call went

clientVars == <<runner, lock, todo, handoff>>
serverVars == <<backlog, exec, private, alive, ran>>
vars == <<clientVars, call, serverVars>>

Call == Job \X (1..MaxScripts)
JobOf(c) == c[1]
Secret(c) == JobOf(c) \in WithSecret

Down == [at |-> "down", job |-> None, done |-> 0]

\* "open" until Client.Run returns or, "orphan", its process dies.
\* frame: what the socket holds for the client, shut: the executor closed it.
Connection == [client : {"unused", "open", "success", "failure", "orphan"},
               frame : {"none", "ok", "failed"}, shut : BOOLEAN]

Off == [at |-> "off", conn |-> None, ok |-> FALSE, dirty |-> FALSE]

TypeOK ==
    /\ runner \in [Runner -> [at : {"down", "started", "locked", "polling", "working",
                                    "calling", "waiting", "returned"},
                              job : Job \cup {None}, done : 0..MaxScripts]]
    /\ lock \in Runner \cup {None}
    /\ todo \subseteq Job
    /\ handoff \in [Job -> {"none", "dir", "file"}]
    /\ call \in [Call -> Connection]
    /\ exec \in [at : {"off", "starting", "accepting", "reading", "validated", "prepared",
                       "running", "ended", "cleaned", "answered", "exited"},
                 conn : Call \cup {None}, ok : BOOLEAN, dirty : BOOLEAN]
    /\ private \subseteq Job
    /\ alive \subseteq Call
    /\ ran \in [Call -> {"no", "started", "ok", "failed"}]

Init ==
    /\ runner = [p \in Runner |-> Down]
    /\ lock = None
    /\ todo = Job
    /\ handoff = [j \in Job |-> "none"]
    /\ call = [c \in Call |-> [client |-> "unused", frame |-> "none", shut |-> FALSE]]
    /\ backlog = <<>>
    /\ exec = Off
    /\ private = {}
    /\ alive = {}
    /\ ran = [c \in Call |-> "no"]

-------------------------------------------------------------------------------
(***************************************************************************)
(* The runner process                                                      *)
(***************************************************************************)

Goto(p, at) == runner' = [runner EXCEPT ![p].at = at]

\* The call the process makes next or is making.
Current(p) == <<runner[p].job, runner[p].done + 1>>

Start(p) ==
    /\ runner[p].at = "down"
    /\ Goto(p, "started")
    /\ UNCHANGED <<lock, todo, handoff, call, serverVars>>

AcquireRunnerHostLock(p) ==
    /\ runner[p].at = "started"
    /\ lock = None
    /\ lock' = p
    /\ Goto(p, "locked")
    /\ UNCHANGED <<todo, handoff, call, serverVars>>

\* Another process holds the lock: this one ends without touching anything.
HostLockRefused(p) ==
    /\ runner[p].at = "started"
    /\ lock # None
    /\ Goto(p, "down")
    /\ UNCHANGED <<lock, todo, handoff, call, serverVars>>

\* Mutant: remnants are swept before the lock is held.
SweepBeforeLock(p) ==
    /\ runner[p].at \in {"started", "locked"}
    /\ handoff' = [j \in Job |-> "none"]
    /\ Goto(p, IF runner[p].at = "locked" THEN "polling" ELSE "started")
    /\ UNCHANGED <<lock, todo, call, serverVars>>

\* PrepareRunnerCredentialRoot: what a killed process left is removed.
PrepareRunnerCredentialRoot(p) ==
    /\ runner[p].at = "locked"
    /\ handoff' = [j \in Job |-> "none"]
    /\ Goto(p, "polling")
    /\ UNCHANGED <<lock, todo, call, serverVars>>

\* A job is claimed once (RunnerLease).  Mkdir fails where a directory is.
CreateCredentialJobDirectory(p, j) ==
    /\ runner[p].at = "polling"
    /\ j \in todo
    /\ todo' = todo \ {j}
    /\ IF handoff[j] = "none"
         THEN /\ handoff' = [handoff EXCEPT ![j] = "dir"]
              /\ runner' = [runner EXCEPT ![p] = [at |-> "working", job |-> j, done |-> 0]]
         ELSE UNCHANGED <<handoff, runner>>
    /\ UNCHANGED <<lock, call, serverVars>>

\* runApprovedScript: O_EXCL, so an old file would fail the script.
writeTargetCredential(p) ==
    /\ runner[p].at = "working"
    /\ runner[p].done < MaxScripts
    /\ IF Secret(Current(p))
         THEN /\ handoff[runner[p].job] = "dir"
              /\ handoff' = [handoff EXCEPT ![runner[p].job] = "file"]
         ELSE UNCHANGED handoff
    /\ Goto(p, "calling")
    /\ UNCHANGED <<lock, todo, call, serverVars>>

\* validateRequestShape, the same on both ends.
validateRequestShape(c) == c \notin Malformed

\* Client.Run up to the request it sends.
Dial(p) ==
    /\ runner[p].at = "calling"
    /\ validateRequestShape(Current(p))
    /\ call' = [call EXCEPT ![Current(p)].client = "open"]
    /\ backlog' = Append(backlog, Current(p))
    /\ Goto(p, "waiting")
    /\ UNCHANGED <<lock, todo, handoff, exec, private, alive, ran>>

\* requestFromSpec, the dial, the peer check or the write fails.
DialFails(p) ==
    /\ runner[p].at = "calling"
    /\ call' = [call EXCEPT ![Current(p)].client = "failure"]
    /\ Goto(p, "returned")
    /\ UNCHANGED <<lock, todo, handoff, serverVars>>

ClientReturns(p, result) ==
    /\ call' = [call EXCEPT ![Current(p)].client = result]
    /\ Goto(p, "returned")
    /\ UNCHANGED <<lock, todo, handoff, serverVars>>

\* The result or error frame.
ReceiveFrame(p) ==
    /\ runner[p].at = "waiting"
    /\ call[Current(p)].frame # "none"
    /\ ClientReturns(p, IF call[Current(p)].frame = "ok" THEN "success" ELSE "failure")

\* Mutant: the end of the stream is taken for the end of the script.
EndOfStreamIsSuccess(p) ==
    /\ runner[p].at = "waiting"
    /\ ClientReturns(p, IF call[Current(p)].shut THEN "success" ELSE "failure")

\* The stream ends without a frame, the deadline passes, or the job is
\* cancelled, which closes the connection.
GiveUp(p) ==
    /\ runner[p].at = "waiting"
    /\ ClientReturns(p, "failure")

\* The handoff and the script's file are removed; a failure ends the job.
ScriptReturned(p) ==
    /\ runner[p].at = "returned"
    /\ handoff' = [handoff EXCEPT ![runner[p].job] = "dir"]
    /\ runner' = [runner EXCEPT ![p].at = "working",
                    ![p].done = IF call[Current(p)].client = "success" THEN @ + 1 ELSE MaxScripts]
    /\ UNCHANGED <<lock, todo, call, serverVars>>

\* Process ends, after its last script or before it.
RemoveCredentialJobDirectory(p) ==
    /\ runner[p].at = "working"
    /\ handoff' = [handoff EXCEPT ![runner[p].job] = "none"]
    /\ runner' = [runner EXCEPT ![p] = [Down EXCEPT !.at = "polling"]]
    /\ UNCHANGED <<lock, todo, call, serverVars>>

\* SIGKILL, or any exit: the kernel drops the lock and closes the connection.
RunnerDies(p) ==
    /\ runner[p].at # "down"
    /\ runner' = [runner EXCEPT ![p] = Down]
    /\ lock' = IF lock = p THEN None ELSE lock
    /\ call' = IF runner[p].at = "waiting"
               THEN [call EXCEPT ![Current(p)].client = "orphan"] ELSE call
    /\ UNCHANGED <<todo, handoff, serverVars>>

-------------------------------------------------------------------------------
(***************************************************************************)
(* The executor process, socket-activated by systemd                       *)
(***************************************************************************)

Phase(at) == exec' = [exec EXCEPT !.at = at]

\* The executor's end of the accepted connection is closed when it exits.
Shut == IF exec.conn = None THEN call ELSE [call EXCEPT ![exec.conn].shut = TRUE]

Answer(frame) ==
    call' = [call EXCEPT ![exec.conn].frame = frame, ![exec.conn].shut = TRUE]

\* systemd: a pending connection starts the service.
Activate ==
    /\ exec.at = "off"
    /\ backlog # <<>>
    /\ Phase("starting")
    /\ UNCHANGED <<clientVars, call, backlog, private, alive, ran>>

PrepareExecutorCredentialRoot ==
    /\ exec.at = "starting"
    /\ private' = {}
    /\ Phase("accepting")
    /\ UNCHANGED <<clientVars, call, backlog, alive, ran>>

\* Serve accepts one connection, whether or not its client still waits.
Accept ==
    /\ exec.at = "accepting"
    /\ backlog # <<>>
    /\ exec' = [exec EXCEPT !.at = "reading", !.conn = Head(backlog)]
    /\ backlog' = Tail(backlog)
    /\ UNCHANGED <<clientVars, call, private, alive, ran>>

\* The runner removes the script when its call returns, the credential with it.
validateTargetCredential(c) == Secret(c) => handoff[JobOf(c)] = "file"

validateRequest(c) ==
    /\ validateRequestShape(c)
    /\ call[c].client \in {"open", "orphan"}
    /\ validateTargetCredential(c)

ReadRequest ==
    /\ exec.at = "reading"
    /\ validateRequest(exec.conn)
    /\ Phase("validated")
    /\ UNCHANGED <<clientVars, call, backlog, private, alive, ran>>

\* prepareExecutorCredential: the handoff may be gone since it was validated.
prepareExecutorCredential ==
    /\ exec.at = "validated"
    /\ IF Secret(exec.conn)
         THEN /\ handoff[JobOf(exec.conn)] = "file"
              /\ private' = {JobOf(exec.conn)}
              /\ exec' = [exec EXCEPT !.at = "prepared", !.dirty = TRUE]
         ELSE /\ Phase("prepared")
              /\ UNCHANGED private
    /\ UNCHANGED <<clientVars, call, backlog, alive, ran>>

\* A bad packet, a refused request or a failed copy, of which something may be
\* left: an error frame and exit.
Reject ==
    /\ exec.at \in {"reading", "validated"}
    /\ Answer("failed")
    /\ Phase("exited")
    /\ private' \in {private} \cup (IF exec.at = "validated" /\ Secret(exec.conn)
                                  THEN {{JobOf(exec.conn)}} ELSE {})
    /\ UNCHANGED <<clientVars, backlog, alive, ran>>

StartCommand ==
    /\ exec.at = "prepared"
    /\ Phase("running")
    /\ alive' = alive \cup {exec.conn}
    /\ ran' = [ran EXCEPT ![exec.conn] = "started"]
    /\ UNCHANGED <<clientVars, call, backlog, private>>

StartFails ==
    /\ exec.at = "prepared"
    /\ Phase("ended")
    /\ UNCHANGED <<clientVars, call, backlog, private, alive, ran>>

\* Mutant: without a client the command blocks on its output.
CommandNeedsClient(ok, left) ==
    /\ exec.at = "running"
    /\ call[exec.conn].client = "open"
    /\ exec' = [exec EXCEPT !.at = "ended", !.ok = ok]
    /\ alive' = IF left THEN alive ELSE alive \ {exec.conn}
    /\ ran' = [ran EXCEPT ![exec.conn] = IF ok THEN "ok" ELSE "failed"]
    /\ UNCHANGED <<clientVars, call, backlog, private>>

\* Runner.Run returns: the script exits, its time is up, or the client has gone
\* and the process group is killed.  Processes of another group may be left.
CommandEnds(ok, left) ==
    /\ exec.at = "running"
    /\ exec' = [exec EXCEPT !.at = "ended", !.ok = ok]
    /\ alive' = IF left THEN alive ELSE alive \ {exec.conn}
    /\ ran' = [ran EXCEPT ![exec.conn] = IF ok THEN "ok" ELSE "failed"]
    /\ UNCHANGED <<clientVars, call, backlog, private>>

\* The copy is removed before the client hears of the result; where that fails
\* the result is an error.
RemoveCredential(removed) ==
    /\ exec.at = "ended"
    /\ removed \/ exec.dirty
    /\ private' = IF removed /\ exec.dirty THEN {} ELSE private
    /\ exec' = [exec EXCEPT !.at = "cleaned", !.dirty = ~removed, !.ok = @ /\ removed]
    /\ UNCHANGED <<clientVars, call, backlog, alive, ran>>

\* frameWriter: after a frame that could not be written there is no other.
WriteResult(written) ==
    /\ exec.at = "cleaned"
    /\ Phase("answered")
    /\ call' = IF written
               THEN [call EXCEPT ![exec.conn].frame = IF exec.ok THEN "ok" ELSE "failed"]
               ELSE call
    /\ UNCHANGED <<clientVars, backlog, private, alive, ran>>

\* Mutant: the executor goes on to serve the next connection.
ServeOn(removed) ==
    /\ exec.at = "answered"
    /\ exec' = [Off EXCEPT !.at = "accepting"]
    /\ private' = IF removed /\ exec.dirty THEN {} ELSE private
    /\ call' = Shut
    /\ UNCHANGED <<clientVars, backlog, alive, ran>>

\* handle returns, with a second try at the copy, and the process exits.
Exit(removed) ==
    /\ exec.at = "answered"
    /\ Phase("exited")
    /\ private' = IF removed /\ exec.dirty THEN {} ELSE private
    /\ call' = Shut
    /\ UNCHANGED <<clientVars, backlog, alive, ran>>

\* SIGKILL, or a refusal to start.
ExecutorDies ==
    /\ exec.at \notin {"off", "exited"}
    /\ Phase("exited")
    /\ call' = Shut
    /\ ran' = IF exec.at = "running" THEN [ran EXCEPT ![exec.conn] = "failed"] ELSE ran
    /\ UNCHANGED <<clientVars, backlog, private, alive>>

\* systemd: KillMode=control-group, and only then may the service start again.
\* It also removes the RuntimeDirectory; the code does not count on that.
ControlGroupKilled ==
    /\ exec.at = "exited"
    /\ exec' = Off
    /\ alive' = {}
    /\ private' \in {private, {}}
    /\ UNCHANGED <<clientVars, call, backlog, ran>>

\* What a script left running writes the secret once more.
LeftoverWrites(c) ==
    /\ c \in alive
    /\ Secret(c)
    /\ ran[c] # "started"
    /\ private' = private \cup {JobOf(c)}
    /\ UNCHANGED <<clientVars, call, backlog, exec, alive, ran>>

-------------------------------------------------------------------------------

RunnerStep(p) ==
    \/ Start(p) \/ AcquireRunnerHostLock(p) \/ HostLockRefused(p)
    \/ PrepareRunnerCredentialRoot(p)
    \/ \E j \in Job : CreateCredentialJobDirectory(p, j)
    \/ writeTargetCredential(p) \/ Dial(p) \/ DialFails(p)
    \/ ReceiveFrame(p) \/ GiveUp(p) \/ ScriptReturned(p)
    \/ RemoveCredentialJobDirectory(p)
    \/ RunnerDies(p)

\* The steps the executor and systemd take by themselves.
ExecutorStep ==
    \/ PrepareExecutorCredentialRoot \/ Accept
    \/ ReadRequest \/ prepareExecutorCredential \/ Reject
    \/ StartCommand \/ StartFails
    \/ \E ok, left \in BOOLEAN : CommandEnds(ok, left)
    \/ \E b \in BOOLEAN : RemoveCredential(b) \/ WriteResult(b) \/ Exit(b)
    \/ Activate \/ ControlGroupKilled

Next ==
    \/ \E p \in Runner : RunnerStep(p)
    \/ ExecutorStep
    \/ ExecutorDies
    \/ \E c \in Call : LeftoverWrites(c)

Spec == Init /\ [][Next]_vars

\* The executor's steps have deadlines: the read 5 s, the command its timeout,
\* a frame 30 s, the last wait 1 s; systemd kills after TimeoutStopSec.
FairSpec == Spec /\ WF_vars(ExecutorStep)

-------------------------------------------------------------------------------
(***************************************************************************)
(* Properties                                                              *)
(***************************************************************************)

\* At most one call has processes on the host, and only while the executor
\* that accepted it has not been cleared away: neither a crashed runner's
\* script nor what a script left behind runs beside the next one (Serve
\* handles exactly one request).
ScriptsDoNotOverlap == \A c \in alive : exec.at # "off" /\ exec.conn = c

\* A working runner's handoff directory is not swept from under it, no other
\* job's is left beside it, and a script finds its own job's secret in the
\* private directory and no other's, whatever died before
\* (AcquireRunnerHostLock, PrepareRunnerCredentialRoot,
\* PrepareExecutorCredentialRoot).
SecretsStayWithTheirJob ==
    /\ \A p \in Runner : runner[p].at \in {"polling", "working", "calling", "waiting", "returned"} =>
          \A j \in Job : handoff[j] # "none" <=> j = runner[p].job
    /\ exec.at = "running" =>
          private = IF Secret(exec.conn) THEN {JobOf(exec.conn)} ELSE {}

\* A later script of a job starts only after the executor really saw every
\* earlier one succeed: no lost connection, timeout, killed executor or failed
\* clean-up is taken for success (Client.Run).
ScriptsRunInOrder ==
    \A c \in Call : ran[c] # "no" =>
        \A k \in 1..(c[2] - 1) : ran[<<JobOf(c), k>>] = "ok"

\* Once the client of a script is gone, by cancellation, deadline or death of
\* the runner, nothing of the script runs for long (the reader goroutine of
\* handle, KillMode=control-group).
AbandonedScriptEnds ==
    \A c \in Call :
        call[c].client \in {"success", "failure", "orphan"} ~> [](c \notin alive)

===============================================================================

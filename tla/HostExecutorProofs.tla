-------------------------- MODULE HostExecutorProofs --------------------------
(***************************************************************************)
(* The invariants of HostExecutor, for any number of runner processes,     *)
(* jobs and scripts.                                                       *)
(***************************************************************************)
EXTENDS HostExecutor, TLAPS

-------------------------------------------------------------------------------
(***************************************************************************)
(* The inductive invariant                                                 *)
(***************************************************************************)

\* Before the host lock, and with a job in hand.
Idle == {"down", "started", "locked", "polling"}
Busy == {"working", "calling", "waiting", "returned"}

\* The calls in the backlog.
Queued == {backlog[i] : i \in 1..Len(backlog)}

BacklogInv ==
    /\ backlog \in Seq(Call)
    /\ \A i, k \in 1..Len(backlog) : backlog[i] = backlog[k] => i = k

\* Only the process with the lock has gone past it, and only it has a job.
RunnerInv ==
    \A p \in Runner :
        /\ lock = p <=> runner[p].at \notin {"down", "started"}
        /\ runner[p].at \in Idle => runner[p].job = None /\ runner[p].done = 0
        /\ runner[p].at \in Busy => runner[p].job \in Job \ todo
        /\ runner[p].at \in {"calling", "waiting", "returned"} => runner[p].done < MaxScripts

HandoffInv ==
    \A p \in Runner : runner[p].at \in {"polling"} \cup Busy =>
        \A j \in Job : handoff[j] # "none" <=> j = runner[p].job

Unaccepted == {"off", "starting", "accepting"}
Unstarted == {"reading", "validated", "prepared"}

OwnSecret(c) == IF Secret(c) THEN {JobOf(c)} ELSE {}

\* What the executor's phase says of its connection, its processes and its
\* private directory.
ExecInv ==
    /\ exec.at \in Unaccepted => exec.conn = None
    /\ exec.at \notin Unaccepted \cup {"exited"} => exec.conn \in Call
    /\ alive \subseteq {exec.conn}
    /\ exec.at \in Unaccepted \cup Unstarted => alive = {}
    /\ exec.at \in {"accepting", "reading", "validated"} => private = {}
    /\ exec.at \in {"prepared", "running"} => private = OwnSecret(exec.conn)
    /\ exec.at \in Unstarted => ran[exec.conn] = "no"
    /\ exec.at = "running" => ran[exec.conn] = "started"
    /\ exec.ok => exec.at \in {"ended", "cleaned", "answered", "exited"} /\ ran[exec.conn] = "ok"

\* A call is accepted once.
QueueInv ==
    /\ exec.conn \notin Queued
    /\ \A c \in Queued : ran[c] = "no"

Unused(c) == call[c].client = "unused"

\* A call that was not made is nowhere, and the later calls of a job were not.
UnusedInv ==
    /\ \A c \in Call : Unused(c) => c \notin Queued /\ c # exec.conn /\ ran[c] = "no"
    /\ \A j \in todo : \A k \in 1..MaxScripts : Unused(<<j, k>>)
    /\ \A p \in Runner : \A k \in 1..MaxScripts :
          /\ runner[p].at \in {"working", "calling"} /\ k > runner[p].done
                => Unused(<<runner[p].job, k>>)
          /\ runner[p].at \in {"waiting", "returned"} /\ k > runner[p].done + 1
                => Unused(<<runner[p].job, k>>)

\* No success without the executor having seen it.
SuccessInv ==
    \A c \in Call : call[c].frame = "ok" \/ call[c].client = "success" => ran[c] = "ok"

Earlier(j, n) == \A k \in 1..(n - 1) : ran[<<j, k>>] = "ok"

\* Scripts are sent, accepted and started in their order.
OrderInv ==
    /\ \A c \in Call : c \in Queued \/ c = exec.conn => Earlier(c[1], c[2])
    /\ \A p \in Runner : runner[p].at \in Busy /\ runner[p].done < MaxScripts
                            => Earlier(runner[p].job, runner[p].done + 1)

HInv ==
    /\ TypeOK /\ BacklogInv
    /\ RunnerInv /\ HandoffInv
    /\ ExecInv /\ QueueInv
    /\ UnusedInv /\ SuccessInv
    /\ OrderInv /\ ScriptsRunInOrder

-------------------------------------------------------------------------------
(***************************************************************************)
(* What the updates of the records do                                      *)
(***************************************************************************)

RunnerAt == {"down", "started"} \cup {"locked", "polling"} \cup Busy

Process == [at : RunnerAt, job : Job \cup {None}, done : 0..MaxScripts]

ExecAt == Unaccepted \cup Unstarted \cup {"running", "ended", "cleaned", "answered", "exited"}

Service == [at : ExecAt, conn : Call \cup {None}, ok : BOOLEAN, dirty : BOOLEAN]

LEMMA Types ==
    ASSUME TypeOK
    PROVE  runner \in [Runner -> Process] /\ exec \in Service
BY DEF TypeOK, Process, RunnerAt, Busy, Service, ExecAt, Unaccepted, Unstarted

LEMMA TypesPrime ==
    ASSUME runner' \in [Runner -> Process], exec' \in Service,
           lock' \in Runner \cup {None}, todo' \subseteq Job,
           handoff' \in [Job -> {"none", "dir", "file"}],
           call' \in [Call -> Connection],
           private' \subseteq Job, alive' \subseteq Call,
           ran' \in [Call -> {"no", "started", "ok", "failed"}]
    PROVE  TypeOK'
BY DEF TypeOK, Process, RunnerAt, Busy, Service, ExecAt, Unaccepted, Unstarted

\* A process goes to another state and keeps its job.
LEMMA ProcessMoved ==
    ASSUME HInv, NEW p \in Runner, NEW a \in RunnerAt, Goto(p, a)
    PROVE  /\ runner' \in [Runner -> Process]
           /\ \A q \in Runner : q # p => runner'[q] = runner[q]
           /\ runner'[p].at = a /\ runner'[p].job = runner[p].job /\ runner'[p].done = runner[p].done
<1>1. runner \in [Runner -> Process]
  BY Types DEF HInv
<1>2. runner'[p] = [runner[p] EXCEPT !.at = a] /\ \A q \in Runner : q # p => runner'[q] = runner[q]
  BY <1>1 DEF Goto
<1>3. runner[p] \in Process
  BY <1>1
<1>4. /\ runner'[p] \in Process /\ runner'[p].at = a
      /\ runner'[p].job = runner[p].job /\ runner'[p].done = runner[p].done
  BY <1>2, <1>3 DEF Process
<1>5. runner' \in [Runner -> Process]
  BY <1>1, <1>4 DEF Goto
<1> QED BY <1>2, <1>4, <1>5

\* The client's end of one connection changes.
LEMMA ClientEnd ==
    ASSUME HInv, NEW c \in Call, NEW s \in {"open", "success", "failure", "orphan"},
           call' = [call EXCEPT ![c].client = s]
    PROVE  /\ call' \in [Call -> Connection]
           /\ \A d \in Call : d # c => call'[d] = call[d]
           /\ call'[c].client = s /\ call'[c].frame = call[c].frame
<1>1. call \in [Call -> Connection] /\ call[c] \in Connection
  BY DEF HInv, TypeOK
<1>2. call'[c] = [call[c] EXCEPT !.client = s] /\ \A d \in Call : d # c => call'[d] = call[d]
  BY <1>1
<1>3. call'[c] \in Connection /\ call'[c].client = s /\ call'[c].frame = call[c].frame
  BY <1>1, <1>2 DEF Connection
<1>4. call' \in [Call -> Connection]
  BY <1>1, <1>3
<1> QED BY <1>2, <1>3, <1>4

\* The executor goes to another phase and keeps its connection and result.
LEMMA ServiceMoved ==
    ASSUME HInv, NEW a \in ExecAt, Phase(a)
    PROVE  /\ exec' \in Service /\ exec'.at = a /\ exec'.conn = exec.conn
           /\ exec'.ok = exec.ok /\ exec'.dirty = exec.dirty
<1>1. exec \in Service
  BY Types DEF HInv
<1> QED BY <1>1 DEF Phase, Service

\* A script of a busy process is a call.
LEMMA CurrentIsCall ==
    ASSUME HInv, NEW p \in Runner, runner[p].at \in Busy, runner[p].done < MaxScripts
    PROVE  /\ Current(p) \in Call /\ Current(p)[1] = runner[p].job
           /\ Current(p)[2] = runner[p].done + 1 /\ runner[p].done \in Nat
<1>1. runner[p].job \in Job /\ runner[p].done \in 0..MaxScripts
  BY Types DEF HInv, RunnerInv, Process
<1> QED BY <1>1, HostAssumption DEF Current, Call

-------------------------------------------------------------------------------
(***************************************************************************)
(* One side of the socket at a time                                        *)
(***************************************************************************)

LEMMA ServerKept ==
    ASSUME HInv, UNCHANGED serverVars
    PROVE  BacklogInv' /\ ExecInv' /\ QueueInv' /\ ScriptsRunInOrder' /\ Queued' = Queued
<1>1. Queued' = Queued
  BY DEF Queued, serverVars
<1> QED BY <1>1 DEF HInv, BacklogInv, ExecInv, QueueInv, ScriptsRunInOrder, serverVars

LEMMA ClientKept ==
    ASSUME HInv, UNCHANGED clientVars
    PROVE  RunnerInv' /\ HandoffInv'
BY DEF HInv, RunnerInv, HandoffInv, clientVars

\* Only the process with the lock is past it.
LEMMA OneBusy ==
    ASSUME HInv, NEW p \in Runner, NEW q \in Runner, q # p,
           runner[p].at \notin {"down", "started"}
    PROVE  runner[q].at \in {"down", "started"}
BY DEF HInv, RunnerInv

-------------------------------------------------------------------------------
(***************************************************************************)
(* The runner process                                                      *)
(***************************************************************************)

LEMMA StartPreserves ==
    ASSUME HInv, NEW p \in Runner,
           Start(p) \/ AcquireRunnerHostLock(p) \/ HostLockRefused(p)
    PROVE  HInv'
<1> USE HostAssumption DEF HInv
<1>1. /\ runner[p].at \in {"down", "started"} /\ UNCHANGED <<todo, handoff, call, serverVars>>
      /\ \/ Goto(p, "started") /\ UNCHANGED lock
         \/ Goto(p, "locked") /\ lock = None /\ lock' = p
         \/ Goto(p, "down") /\ UNCHANGED lock
  BY DEF Start, AcquireRunnerHostLock, HostLockRefused
<1>2. /\ runner' \in [Runner -> Process]
      /\ \A q \in Runner : q # p => runner'[q] = runner[q]
      /\ runner'[p].at \in {"down", "started", "locked"}
      /\ runner'[p].at = "locked" => lock = None
      /\ lock' = IF runner'[p].at = "locked" THEN p ELSE lock
      /\ runner'[p].job = runner[p].job /\ runner'[p].done = runner[p].done
  BY <1>1, ProcessMoved DEF RunnerAt
<1>3. BacklogInv' /\ ExecInv' /\ QueueInv' /\ ScriptsRunInOrder' /\ Queued' = Queued
  BY <1>1, ServerKept
<1>4. TypeOK'
  BY <1>1, <1>2, Types, TypesPrime DEF TypeOK, serverVars
<1>5. RunnerInv'
  BY <1>1, <1>2 DEF RunnerInv, Idle, Busy
<1>6. HandoffInv'
  BY <1>1, <1>2 DEF HandoffInv, Busy
<1>7. UnusedInv'
  BY <1>1, <1>2, <1>3 DEF UnusedInv, Unused, serverVars
<1>8. SuccessInv'
  BY <1>1 DEF SuccessInv, serverVars
<1>9. OrderInv'
  BY <1>1, <1>2, <1>3 DEF OrderInv, Earlier, Busy, serverVars
<1> QED BY <1>3, <1>4, <1>5, <1>6, <1>7, <1>8, <1>9

LEMMA PrepareRunnerPreserves ==
    ASSUME HInv, NEW p \in Runner, PrepareRunnerCredentialRoot(p)
    PROVE  HInv'
<1> USE HostAssumption DEF HInv
<1>1. /\ runner[p].at = "locked" /\ UNCHANGED <<lock, todo, call, serverVars>>
      /\ handoff' = [j \in Job |-> "none"] /\ Goto(p, "polling")
  BY DEF PrepareRunnerCredentialRoot
<1>2. /\ runner' \in [Runner -> Process]
      /\ \A q \in Runner : q # p => runner'[q] = runner[q] /\ runner[q].at \in {"down", "started"}
      /\ runner'[p].at = "polling" /\ runner'[p].job = None /\ runner'[p].done = 0
  BY <1>1, ProcessMoved, OneBusy DEF RunnerAt, RunnerInv, Idle
<1>3. BacklogInv' /\ ExecInv' /\ QueueInv' /\ ScriptsRunInOrder' /\ Queued' = Queued
  BY <1>1, ServerKept
<1>4. TypeOK'
  BY <1>1, <1>2, Types, TypesPrime DEF TypeOK, serverVars
<1>5. RunnerInv'
  BY <1>1, <1>2 DEF RunnerInv, Idle, Busy
<1>6. HandoffInv'
  BY <1>1, <1>2 DEF HandoffInv, Busy
<1>7. UnusedInv'
  BY <1>1, <1>2, <1>3 DEF UnusedInv, Unused, serverVars
<1>8. SuccessInv'
  BY <1>1 DEF SuccessInv, serverVars
<1>9. OrderInv'
  BY <1>1, <1>2, <1>3 DEF OrderInv, Earlier, Busy, serverVars
<1> QED BY <1>3, <1>4, <1>5, <1>6, <1>7, <1>8, <1>9

LEMMA CreatePreserves ==
    ASSUME HInv, NEW p \in Runner, NEW j \in Job, CreateCredentialJobDirectory(p, j)
    PROVE  HInv'
<1> USE HostAssumption DEF HInv
<1>1. /\ runner[p].at = "polling" /\ j \in todo /\ todo' = todo \ {j}
      /\ UNCHANGED <<lock, call, serverVars>>
      /\ handoff' = [handoff EXCEPT ![j] = "dir"]
      /\ runner' = [runner EXCEPT ![p] = [at |-> "working", job |-> j, done |-> 0]]
  BY DEF CreateCredentialJobDirectory, HandoffInv, RunnerInv, Idle
<1>2. /\ runner' \in [Runner -> Process]
      /\ \A q \in Runner : q # p => runner'[q] = runner[q] /\ runner[q].at \in {"down", "started"}
      /\ runner'[p].at = "working" /\ runner'[p].job = j /\ runner'[p].done = 0
  <2>1. runner \in [Runner -> Process]
    BY Types
  <2>2. [at |-> "working", job |-> j, done |-> 0] \in Process
    BY DEF Process, RunnerAt, Busy
  <2> QED BY <1>1, <2>1, <2>2, OneBusy
<1>3. BacklogInv' /\ ExecInv' /\ QueueInv' /\ ScriptsRunInOrder' /\ Queued' = Queued
  BY <1>1, ServerKept
<1>4. handoff' \in [Job -> {"none", "dir", "file"}] /\ todo' \subseteq Job
  BY <1>1 DEF TypeOK
<1>5. TypeOK'
  BY <1>1, <1>2, <1>4, Types, TypesPrime DEF TypeOK, serverVars
<1>6. RunnerInv'
  BY <1>1, <1>2 DEF RunnerInv, Idle, Busy
<1>7. HandoffInv'
  BY <1>1, <1>2 DEF TypeOK, HandoffInv, RunnerInv, Idle, Busy
<1>8. UnusedInv'
  BY <1>1, <1>2, <1>3 DEF UnusedInv, Unused, serverVars
<1>9. SuccessInv'
  BY <1>1 DEF SuccessInv, serverVars
<1>10. OrderInv'
  BY <1>1, <1>2, <1>3 DEF OrderInv, Earlier, Busy, serverVars
<1> QED BY <1>3, <1>5, <1>6, <1>7, <1>8, <1>9, <1>10

LEMMA WriteCredentialPreserves ==
    ASSUME HInv, NEW p \in Runner, writeTargetCredential(p)
    PROVE  HInv'
<1> USE HostAssumption DEF HInv
<1>1. /\ runner[p].at = "working" /\ runner[p].done < MaxScripts /\ runner[p].job \in Job \ todo
      /\ UNCHANGED <<lock, todo, call, serverVars>>
      /\ \/ handoff' = [handoff EXCEPT ![runner[p].job] = "file"]
         \/ UNCHANGED handoff
      /\ Goto(p, "calling")
  BY DEF writeTargetCredential, RunnerInv, Busy
<1>2. /\ runner' \in [Runner -> Process]
      /\ \A q \in Runner : q # p => runner'[q] = runner[q] /\ runner[q].at \in {"down", "started"}
      /\ runner'[p].at = "calling" /\ runner'[p].job = runner[p].job
      /\ runner'[p].done = runner[p].done
  BY <1>1, ProcessMoved, OneBusy DEF RunnerAt, Busy
<1>3. BacklogInv' /\ ExecInv' /\ QueueInv' /\ ScriptsRunInOrder' /\ Queued' = Queued
  BY <1>1, ServerKept
<1>4. handoff' \in [Job -> {"none", "dir", "file"}]
  BY <1>1 DEF TypeOK
<1>5. TypeOK'
  BY <1>1, <1>2, <1>4, Types, TypesPrime DEF TypeOK, serverVars
<1>6. RunnerInv'
  BY <1>1, <1>2 DEF RunnerInv, Idle, Busy
<1>7. HandoffInv'
  BY <1>1, <1>2 DEF TypeOK, HandoffInv, Busy
<1>8. UnusedInv'
  BY <1>1, <1>2, <1>3 DEF UnusedInv, Unused, serverVars
<1>9. SuccessInv'
  BY <1>1 DEF SuccessInv, serverVars
<1>10. OrderInv'
  BY <1>1, <1>2, <1>3 DEF OrderInv, Earlier, Busy, serverVars
<1> QED BY <1>3, <1>5, <1>6, <1>7, <1>8, <1>9, <1>10

\* The backlog gets one more call.
LEMMA BacklogAppend ==
    ASSUME BacklogInv, NEW c \in Call, c \notin Queued, backlog' = Append(backlog, c)
    PROVE  BacklogInv' /\ Queued' = Queued \cup {c}
<1>1. backlog \in Seq(Call)
  BY DEF BacklogInv
<1>2. /\ backlog' \in Seq(Call) /\ Len(backlog') = Len(backlog) + 1 /\ Len(backlog) \in Nat
      /\ \A i \in 1..Len(backlog) : backlog'[i] = backlog[i]
      /\ backlog'[Len(backlog) + 1] = c
  BY <1>1
<1>3. \A i \in 1..(Len(backlog) + 1) : i \in 1..Len(backlog) \/ i = Len(backlog) + 1
  BY <1>2
<1>4. Queued' = Queued \cup {c}
  BY <1>2, <1>3 DEF Queued
<1>5. \A i \in 1..Len(backlog) : backlog'[i] # c
  BY <1>2 DEF Queued
<1> QED BY <1>2, <1>3, <1>4, <1>5 DEF BacklogInv

\* A process makes its next call or has it returned.
LEMMA CallMade ==
    ASSUME HInv, NEW p \in Runner, NEW c \in Call,
           runner[p].at \in {"calling", "waiting"}, runner[p].job \in Job \ todo,
           runner[p].done \in Nat, c = <<runner[p].job, runner[p].done + 1>>,
           \A q \in Runner : q # p => runner'[q] = runner[q] /\ runner[q].at \in {"down", "started"},
           runner'[p].at \in {"waiting", "returned"}, runner'[p].job = runner[p].job,
           runner'[p].done = runner[p].done,
           UNCHANGED <<todo, exec, ran>>, Queued' \subseteq Queued \cup {c},
           \A d \in Call : d # c => call'[d] = call[d],
           call'[c].client # "unused"
    PROVE  UnusedInv'
<1> USE HostAssumption DEF HInv
<1>1. ASSUME NEW d \in Call, call'[d].client = "unused"
      PROVE  d \notin Queued' /\ d # exec'.conn /\ ran'[d] = "no"
  BY <1>1 DEF UnusedInv, Unused
<1>2. ASSUME NEW j \in todo, NEW k \in 1..MaxScripts
      PROVE  call'[<<j, k>>].client = "unused"
  <2>1. <<j, k>> \in Call /\ <<j, k>> # c
    BY DEF Call, TypeOK
  <2> QED BY <2>1 DEF UnusedInv, Unused
<1>3. ASSUME NEW k \in 1..MaxScripts, k > runner[p].done + 1
      PROVE  call'[<<runner[p].job, k>>].client = "unused"
  <2>1. <<runner[p].job, k>> \in Call /\ <<runner[p].job, k>> # c /\ k > runner[p].done
    BY <1>3 DEF Call
  <2>2. Unused(<<runner[p].job, k>>)
    BY <1>3, <2>1 DEF UnusedInv
  <2> QED BY <2>1, <2>2 DEF Unused
<1> QED BY <1>1, <1>2, <1>3 DEF UnusedInv, Unused

LEMMA DialPreserves ==
    ASSUME HInv, NEW p \in Runner, Dial(p)
    PROVE  HInv'
<1> USE HostAssumption DEF HInv
<1> DEFINE c == Current(p)
<1>1. /\ runner[p].at = "calling" /\ runner[p].done < MaxScripts /\ runner[p].job \in Job \ todo
      /\ UNCHANGED <<lock, todo, handoff, exec, private, alive, ran>>
      /\ call' = [call EXCEPT ![c].client = "open"]
      /\ backlog' = Append(backlog, c) /\ Goto(p, "waiting")
  BY DEF Dial, RunnerInv, Busy
<1>2. /\ runner' \in [Runner -> Process]
      /\ \A q \in Runner : q # p => runner'[q] = runner[q] /\ runner[q].at \in {"down", "started"}
      /\ runner'[p].at = "waiting" /\ runner'[p].job = runner[p].job
      /\ runner'[p].done = runner[p].done
  BY <1>1, ProcessMoved, OneBusy DEF RunnerAt, Busy
<1>3. c \in Call /\ c = <<runner[p].job, runner[p].done + 1>> /\ runner[p].done \in Nat
      /\ c[1] = runner[p].job /\ c[2] = runner[p].done + 1
  BY <1>1, CurrentIsCall DEF Current, Busy
<1>4. /\ call' \in [Call -> Connection]
      /\ \A d \in Call : d # c => call'[d] = call[d]
      /\ call'[c].client = "open" /\ call'[c].frame = call[c].frame
  <2> HIDE DEF c
  <2> QED BY <1>1, <1>3, ClientEnd
<1>5. Unused(c)
  <2>1. runner[p].done + 1 \in 1..MaxScripts
    BY <1>1, <1>3
  <2> QED BY <1>1, <1>3, <2>1 DEF UnusedInv
<1> HIDE DEF c
<1>6. c \notin Queued /\ c # exec.conn /\ ran[c] = "no"
  BY <1>3, <1>5 DEF UnusedInv
<1>7. BacklogInv' /\ Queued' = Queued \cup {c}
  BY <1>1, <1>3, <1>6, BacklogAppend
<1>8. TypeOK'
  <2>1. UNCHANGED <<lock, todo, handoff, exec, private, alive, ran>>
    BY <1>1
  <2> QED BY <1>2, <1>4, <2>1, Types, TypesPrime DEF TypeOK
<1>9. RunnerInv'
  BY <1>1, <1>2 DEF RunnerInv, Idle, Busy
<1>10. HandoffInv'
  BY <1>1, <1>2 DEF HandoffInv, Busy
<1>11. ExecInv' /\ ScriptsRunInOrder'
  BY <1>1 DEF ExecInv, ScriptsRunInOrder
<1>12. QueueInv'
  BY <1>1, <1>6, <1>7 DEF QueueInv
<1>13. UnusedInv'
  <2>1. HInv
    OBVIOUS
  <2>2. /\ UNCHANGED <<todo, exec, ran>> /\ Queued' \subseteq Queued \cup {c}
        /\ call'[c].client # "unused"
    BY <1>1, <1>4, <1>7
  <2> HIDE DEF HInv
  <2> QED BY <1>1, <1>2, <1>3, <1>4, <2>1, <2>2, CallMade
<1>14. SuccessInv'
  BY <1>1, <1>4 DEF SuccessInv
<1>15. OrderInv'
  <2>1. Earlier(c[1], c[2])
    BY <1>1, <1>3 DEF OrderInv, Busy
  <2> QED BY <1>1, <1>2, <1>7, <2>1 DEF OrderInv, Earlier, Busy
<1> QED BY <1>7, <1>8, <1>9, <1>10, <1>11, <1>12, <1>13, <1>14, <1>15

\* Client.Run returns, with success only on the executor's word.
LEMMA ReturnPreserves ==
    ASSUME HInv, NEW p \in Runner, DialFails(p) \/ ReceiveFrame(p) \/ GiveUp(p)
    PROVE  HInv'
<1> USE HostAssumption DEF HInv
<1> DEFINE c == Current(p)
<1>1. /\ runner[p].at \in {"calling", "waiting"} /\ runner[p].done < MaxScripts
      /\ runner[p].job \in Job \ todo
      /\ UNCHANGED <<lock, todo, handoff, serverVars>> /\ Goto(p, "returned")
      /\ \/ call' = [call EXCEPT ![c].client = "failure"]
         \/ call' = [call EXCEPT ![c].client = "success"] /\ call[c].frame = "ok"
  BY DEF DialFails, ReceiveFrame, GiveUp, ClientReturns, RunnerInv, Busy
<1>2. /\ runner' \in [Runner -> Process]
      /\ \A q \in Runner : q # p => runner'[q] = runner[q] /\ runner[q].at \in {"down", "started"}
      /\ runner'[p].at = "returned" /\ runner'[p].job = runner[p].job
      /\ runner'[p].done = runner[p].done
  BY <1>1, ProcessMoved, OneBusy DEF RunnerAt, Busy
<1>3. c \in Call /\ c = <<runner[p].job, runner[p].done + 1>> /\ runner[p].done \in Nat
  BY <1>1, CurrentIsCall DEF Current, Busy
<1> HIDE DEF c
<1>4. /\ call' \in [Call -> Connection]
      /\ \A d \in Call : d # c => call'[d] = call[d]
      /\ call'[c].client # "unused" /\ call'[c].frame = call[c].frame
      /\ call'[c].client = "success" => call[c].frame = "ok"
  <2>1. CASE call' = [call EXCEPT ![c].client = "failure"]
    BY <1>3, <2>1, ClientEnd
  <2>2. CASE call' = [call EXCEPT ![c].client = "success"] /\ call[c].frame = "ok"
    BY <1>3, <2>2, ClientEnd
  <2> QED BY <1>1, <2>1, <2>2
<1>5. BacklogInv' /\ ExecInv' /\ QueueInv' /\ ScriptsRunInOrder' /\ Queued' = Queued
  BY <1>1, ServerKept
<1>6. TypeOK'
  BY <1>1, <1>2, <1>4, Types, TypesPrime DEF TypeOK, serverVars
<1>7. RunnerInv'
  BY <1>1, <1>2 DEF RunnerInv, Idle, Busy
<1>8. HandoffInv'
  BY <1>1, <1>2 DEF HandoffInv, Busy
<1>9. UnusedInv'
  BY <1>1, <1>2, <1>3, <1>4, <1>5, CallMade DEF serverVars
<1>10. SuccessInv'
  BY <1>1, <1>4 DEF SuccessInv, serverVars
<1>11. OrderInv'
  BY <1>1, <1>2, <1>5 DEF OrderInv, Earlier, Busy, serverVars
<1> QED BY <1>5, <1>6, <1>7, <1>8, <1>9, <1>10, <1>11

LEMMA ScriptReturnedPreserves ==
    ASSUME HInv, NEW p \in Runner, ScriptReturned(p)
    PROVE  HInv'
<1> USE HostAssumption DEF HInv
<1> DEFINE c == Current(p)
           n == IF call[c].client = "success" THEN runner[p].done + 1 ELSE MaxScripts
<1>1. /\ runner[p].at = "returned" /\ runner[p].done < MaxScripts /\ runner[p].job \in Job \ todo
      /\ UNCHANGED <<lock, todo, call, serverVars>>
      /\ handoff' = [handoff EXCEPT ![runner[p].job] = "dir"]
      /\ runner' = [runner EXCEPT ![p].at = "working", ![p].done = n]
  BY DEF ScriptReturned, RunnerInv, Busy
<1>2. c \in Call /\ c = <<runner[p].job, runner[p].done + 1>> /\ runner[p].done \in Nat
  BY <1>1, CurrentIsCall DEF Current, Busy
<1>3. n \in 0..MaxScripts /\ n > runner[p].done
      /\ (n < MaxScripts => n = runner[p].done + 1 /\ call[c].client = "success")
  BY <1>1, <1>2
<1> HIDE DEF c, n
<1>4. /\ runner' \in [Runner -> Process]
      /\ \A q \in Runner : q # p => runner'[q] = runner[q] /\ runner[q].at \in {"down", "started"}
      /\ runner'[p].at = "working" /\ runner'[p].job = runner[p].job /\ runner'[p].done = n
  <2>1. runner \in [Runner -> Process] /\ runner[p] \in Process
    BY Types
  <2>2. runner'[p] = [runner[p] EXCEPT !.at = "working", !.done = n]
        /\ \A q \in Runner : q # p => runner'[q] = runner[q]
    BY <1>1, <2>1
  <2>3. /\ runner'[p] \in Process /\ runner'[p].at = "working"
        /\ runner'[p].job = runner[p].job /\ runner'[p].done = n
    BY <1>3, <2>1, <2>2 DEF Process, RunnerAt, Busy
  <2>4. runner' \in [Runner -> Process]
    BY <1>1, <2>1, <2>3
  <2> QED BY <1>1, <2>2, <2>3, <2>4, OneBusy
<1>5. BacklogInv' /\ ExecInv' /\ QueueInv' /\ ScriptsRunInOrder' /\ Queued' = Queued
  BY <1>1, ServerKept
<1>6. handoff' \in [Job -> {"none", "dir", "file"}]
  BY <1>1 DEF TypeOK
<1>7. TypeOK'
  BY <1>1, <1>4, <1>6, Types, TypesPrime DEF TypeOK, serverVars
<1>8. RunnerInv'
  BY <1>1, <1>4 DEF RunnerInv, Idle, Busy
<1>9. HandoffInv'
  BY <1>1, <1>4 DEF TypeOK, HandoffInv, Busy
<1>10. UnusedInv'
  <2>1. ASSUME NEW k \in 1..MaxScripts, k > n PROVE Unused(<<runner[p].job, k>>)
    <3>1. k > runner[p].done + 1
      BY <1>2, <1>3, <2>1
    <3> QED BY <1>1, <3>1 DEF UnusedInv
  <2> QED BY <1>1, <1>4, <1>5, <2>1 DEF UnusedInv, Unused, serverVars
<1>11. SuccessInv'
  BY <1>1 DEF SuccessInv, serverVars
<1>12. OrderInv'
  <2>1. n < MaxScripts => Earlier(runner[p].job, n + 1)
    <3> SUFFICES ASSUME n < MaxScripts, NEW k \in 1..n PROVE ran[<<runner[p].job, k>>] = "ok"
      BY <1>3 DEF Earlier
    <3>1. CASE k = n
      BY <1>2, <1>3, <3>1 DEF SuccessInv
    <3>2. CASE k < n
      <4>1. k \in 1..(runner[p].done + 1 - 1)
        BY <1>2, <1>3, <3>2
      <4>2. Earlier(runner[p].job, runner[p].done + 1)
        BY <1>1 DEF OrderInv, Busy
      <4> QED BY <1>2, <4>1, <4>2 DEF Earlier
    <3> QED BY <1>3, <3>1, <3>2
  <2> QED BY <1>1, <1>4, <1>5, <2>1 DEF OrderInv, Earlier, Busy, serverVars
<1> QED BY <1>5, <1>7, <1>8, <1>9, <1>10, <1>11, <1>12

\* The process gives its job up, or its life.
LEMMA LeavePreserves ==
    ASSUME HInv, NEW p \in Runner, RemoveCredentialJobDirectory(p) \/ RunnerDies(p)
    PROVE  HInv'
<1> USE HostAssumption DEF HInv
<1>1. /\ UNCHANGED <<todo, serverVars>>
      /\ \/ /\ runner' = [runner EXCEPT ![p] = [Down EXCEPT !.at = "polling"]]
            /\ runner[p].at = "working" /\ handoff' = [handoff EXCEPT ![runner[p].job] = "none"]
            /\ UNCHANGED <<lock, call>>
         \/ /\ runner' = [runner EXCEPT ![p] = Down]
            /\ UNCHANGED handoff
            /\ lock' = IF lock = p THEN None ELSE lock
            /\ \/ UNCHANGED call
               \/ /\ runner[p].at = "waiting"
                  /\ call' = [call EXCEPT ![Current(p)].client = "orphan"]
  BY DEF RemoveCredentialJobDirectory, RunnerDies
<1>2. /\ runner' \in [Runner -> Process]
      /\ \A q \in Runner : q # p => runner'[q] = runner[q]
      /\ runner'[p].job = None /\ runner'[p].done = 0
      /\ \/ /\ runner'[p].at = "polling" /\ runner[p].at = "working" /\ UNCHANGED <<lock, call>>
            /\ handoff' = [handoff EXCEPT ![runner[p].job] = "none"]
         \/ /\ runner'[p].at = "down" /\ UNCHANGED handoff
            /\ lock' = IF lock = p THEN None ELSE lock
  <2>1. runner \in [Runner -> Process]
    BY Types
  <2>2. Down \in Process /\ [Down EXCEPT !.at = "polling"] \in Process
        /\ Down.at = "down" /\ Down.job = None /\ Down.done = 0
        /\ [Down EXCEPT !.at = "polling"].at = "polling"
        /\ [Down EXCEPT !.at = "polling"].job = None /\ [Down EXCEPT !.at = "polling"].done = 0
    BY DEF Down, Process, RunnerAt
  <2> HIDE DEF HInv
  <2> QED BY <1>1, <2>1, <2>2
<1>3. /\ call' \in [Call -> Connection]
      /\ \A d \in Call : /\ call'[d].client = "unused" => call[d].client = "unused"
                         /\ d[1] \in todo => call'[d] = call[d]
                         /\ call'[d].frame = call[d].frame
                         /\ call'[d].client = "success" => call[d].client = "success"
  <2>1. CASE UNCHANGED call
    BY <2>1 DEF TypeOK, Unused
  <2>2. CASE runner[p].at = "waiting" /\ call' = [call EXCEPT ![Current(p)].client = "orphan"]
    <3>1. Current(p) \in Call
      BY <2>2, CurrentIsCall DEF RunnerInv, Busy
    <3>2. /\ call' \in [Call -> Connection]
          /\ \A d \in Call : d # Current(p) => call'[d] = call[d]
          /\ call'[Current(p)].client = "orphan" /\ call'[Current(p)].frame = call[Current(p)].frame
      BY <2>2, <3>1, ClientEnd
    <3>3. Current(p)[1] \notin todo
      BY <2>2, CurrentIsCall DEF RunnerInv, Busy
    <3> QED BY <3>1, <3>2, <3>3
  <2> QED BY <1>1, <2>1, <2>2
<1>4. BacklogInv' /\ ExecInv' /\ QueueInv' /\ ScriptsRunInOrder' /\ Queued' = Queued
  BY <1>1, ServerKept
<1>5. handoff' \in [Job -> {"none", "dir", "file"}] /\ lock' \in Runner \cup {None}
  BY <1>2 DEF TypeOK
<1>6. TypeOK'
  BY <1>1, <1>2, <1>3, <1>5, Types, TypesPrime DEF TypeOK, serverVars
<1>7. RunnerInv'
  BY <1>1, <1>2 DEF RunnerInv, Idle, Busy
<1>8. HandoffInv'
  BY <1>1, <1>2, OneBusy DEF TypeOK, HandoffInv, Busy
<1>9. UnusedInv'
  <2>1. ASSUME NEW j \in todo, NEW k \in 1..MaxScripts
        PROVE  call'[<<j, k>>].client = "unused"
    <3>1. <<j, k>> \in Call /\ <<j, k>>[1] \in todo
      BY DEF Call, TypeOK
    <3> QED BY <1>3, <3>1 DEF UnusedInv, Unused
  <2>2. \A q \in Runner : runner'[q].at \in {"working", "calling", "waiting", "returned"} =>
          q # p /\ runner'[q] = runner[q] /\ UNCHANGED call
    <3> SUFFICES ASSUME NEW q \in Runner, q # p, runner[q].at \in Busy PROVE UNCHANGED call
      BY <1>2 DEF Busy
    <3>1. runner[p].at \in {"down", "started"}
      BY OneBusy DEF Busy
    <3> QED BY <1>1, <3>1
  <2> QED BY <1>1, <1>3, <1>4, <2>1, <2>2 DEF UnusedInv, Unused, serverVars
<1>10. SuccessInv'
  BY <1>1, <1>3 DEF SuccessInv, serverVars
<1>11. OrderInv'
  BY <1>1, <1>2, <1>4 DEF OrderInv, Earlier, Busy, serverVars
<1> QED BY <1>4, <1>6, <1>7, <1>8, <1>9, <1>10, <1>11

-------------------------------------------------------------------------------
(***************************************************************************)
(* The executor process                                                    *)
(***************************************************************************)

\* What the runners rely on, in any step of the executor or of systemd.
LEMMA ClientsUntouched ==
    ASSUME HInv, UNCHANGED clientVars,
           \A c \in Call : call'[c].client = call[c].client,
           Queued' \subseteq Queued, exec'.conn \in {exec.conn, None} \cup Queued,
           \A c \in Call : ran'[c] = ran[c] \/ (c = exec.conn /\ ran[c] # "ok")
    PROVE  RunnerInv' /\ HandoffInv' /\ UnusedInv' /\ OrderInv'
<1> USE HostAssumption DEF HInv
<1>1. RunnerInv' /\ HandoffInv'
  BY ClientKept
<1>2. None \notin Call
  BY DEF Call
<1>3. \A c \in Call : c = exec'.conn => c = exec.conn \/ c \in Queued
  BY <1>2
<1>4. UnusedInv'
  <2>1. \A c \in Call : call'[c].client = "unused" =>
                          c \notin Queued' /\ c # exec'.conn /\ ran'[c] = "no"
    BY <1>3 DEF UnusedInv, Unused
  <2>2. ASSUME NEW j \in Job, NEW k \in 1..MaxScripts
        PROVE  call'[<<j, k>>].client = call[<<j, k>>].client
    BY DEF Call
  <2>3. \A p \in Runner : runner[p].at \in Busy => runner[p].job \in Job
    BY DEF RunnerInv
  <2>4. \A j \in todo : \A k \in 1..MaxScripts : call'[<<j, k>>].client = "unused"
    <3> SUFFICES ASSUME NEW j \in todo, NEW k \in 1..MaxScripts
                 PROVE  call'[<<j, k>>].client = "unused"
      OBVIOUS
    <3>1. j \in Job /\ call[<<j, k>>].client = "unused"
      BY DEF UnusedInv, Unused, TypeOK
    <3> QED BY <2>2, <3>1
  <2>5. \A p \in Runner : \A k \in 1..MaxScripts :
          /\ runner[p].at \in {"working", "calling"} /\ k > runner[p].done
                => call'[<<runner[p].job, k>>].client = "unused"
          /\ runner[p].at \in {"waiting", "returned"} /\ k > runner[p].done + 1
                => call'[<<runner[p].job, k>>].client = "unused"
    BY <2>2, <2>3 DEF UnusedInv, Unused, Busy
  <2> QED BY <2>1, <2>4, <2>5 DEF UnusedInv, Unused, clientVars
<1>5. OrderInv'
  <2>1. ASSUME NEW j \in Job, NEW n \in 1..MaxScripts, Earlier(j, n) PROVE Earlier(j, n)'
    <3> SUFFICES ASSUME NEW k \in 1..(n - 1) PROVE ran'[<<j, k>>] = "ok"
      BY DEF Earlier
    <3>1. <<j, k>> \in Call
      BY DEF Call
    <3>2. ran[<<j, k>>] = "ok"
      BY <2>1 DEF Earlier
    <3> QED BY <3>1, <3>2
  <2>2. \A c \in Call : c \in Queued' \/ c = exec'.conn => Earlier(c[1], c[2])
    BY <1>3 DEF OrderInv
  <2>3. \A c \in Call : c[1] \in Job /\ c[2] \in 1..MaxScripts
    BY DEF Call
  <2>4. \A p \in Runner : runner[p].at \in Busy /\ runner[p].done < MaxScripts =>
          runner[p].job \in Job /\ runner[p].done + 1 \in 1..MaxScripts
    <3> SUFFICES ASSUME NEW p \in Runner, runner[p].at \in Busy, runner[p].done < MaxScripts
                 PROVE  runner[p].job \in Job /\ runner[p].done + 1 \in 1..MaxScripts
      OBVIOUS
    <3>1. runner[p].done \in 0..MaxScripts
      BY Types DEF Process
    <3> QED BY <3>1 DEF RunnerInv
  <2> QED BY <2>1, <2>2, <2>3, <2>4 DEF OrderInv, clientVars
<1> QED BY <1>1, <1>4, <1>5

\* The executor's end of one connection changes.
LEMMA ServerEnd ==
    ASSUME HInv, NEW c \in Call, NEW f \in {"ok", "failed"},
           \/ call' = [call EXCEPT ![c].frame = f, ![c].shut = TRUE]
           \/ call' = [call EXCEPT ![c].frame = f]
           \/ call' = [call EXCEPT ![c].shut = TRUE]
    PROVE  /\ call' \in [Call -> Connection]
           /\ \A d \in Call : /\ call'[d].client = call[d].client
                              /\ call'[d].frame = call[d].frame \/ (d = c /\ call'[d].frame = f)
<1>1. call \in [Call -> Connection] /\ call[c] \in Connection
  BY DEF HInv, TypeOK
<1>2. /\ \A d \in Call : d # c => call'[d] = call[d]
      /\ \/ call'[c] = [call[c] EXCEPT !.frame = f, !.shut = TRUE]
         \/ call'[c] = [call[c] EXCEPT !.frame = f]
         \/ call'[c] = [call[c] EXCEPT !.shut = TRUE]
  BY <1>1
<1>3. /\ call'[c] \in Connection /\ call'[c].client = call[c].client
      /\ call'[c].frame = call[c].frame \/ call'[c].frame = f
  <2>1. CASE call'[c] = [call[c] EXCEPT !.frame = f, !.shut = TRUE]
    BY <1>1, <2>1 DEF Connection
  <2>2. CASE call'[c] = [call[c] EXCEPT !.frame = f]
    BY <1>1, <2>2 DEF Connection
  <2>3. CASE call'[c] = [call[c] EXCEPT !.shut = TRUE]
    BY <1>1, <2>3 DEF Connection
  <2> QED BY <1>2, <2>1, <2>2, <2>3
<1>4. call' \in [Call -> Connection]
  BY <1>1, <1>3
<1> QED BY <1>2, <1>3, <1>4

LEMMA ConnectionShut ==
    ASSUME HInv, call' = Shut
    PROVE  /\ call' \in [Call -> Connection]
           /\ \A d \in Call : call'[d].client = call[d].client /\ call'[d].frame = call[d].frame
<1>1. CASE exec.conn = None
  BY <1>1 DEF HInv, TypeOK, Shut
<1>2. CASE exec.conn # None
  <2>1. exec.conn \in Call
    BY <1>2, Types DEF HInv, Service
  <2> DEFINE c == exec.conn
  <2>2. call \in [Call -> Connection] /\ call[c] \in Connection
    BY <2>1 DEF HInv, TypeOK
  <2>3. call' = [call EXCEPT ![c].shut = TRUE]
    BY <1>2 DEF Shut
  <2> HIDE DEF c
  <2>4. call'[c] = [call[c] EXCEPT !.shut = TRUE] /\ \A d \in Call : d # c => call'[d] = call[d]
    BY <2>1, <2>2, <2>3 DEF c
  <2>5. call'[c] \in Connection /\ call'[c].client = call[c].client /\ call'[c].frame = call[c].frame
    BY <2>2, <2>4 DEF Connection
  <2>6. call' \in [Call -> Connection]
    BY <2>2, <2>3, <2>5
  <2> QED BY <2>4, <2>5, <2>6
<1> QED BY <1>1, <1>2

\* The service is started, reads a request or fails to start the command.
LEMMA PhasePreserves ==
    ASSUME HInv, Activate \/ ReadRequest \/ StartFails
    PROVE  HInv'
<1> USE HostAssumption DEF HInv
<1>1. /\ UNCHANGED <<clientVars, call, backlog, private, alive, ran>>
      /\ \/ exec.at = "off" /\ Phase("starting")
         \/ exec.at = "reading" /\ Phase("validated")
         \/ exec.at = "prepared" /\ Phase("ended")
  BY DEF Activate, ReadRequest, StartFails
<1>2. /\ exec' \in Service /\ exec'.conn = exec.conn /\ exec'.ok = exec.ok
      /\ \/ exec.at = "off" /\ exec'.at = "starting"
         \/ exec.at = "reading" /\ exec'.at = "validated"
         \/ exec.at = "prepared" /\ exec'.at = "ended"
  BY <1>1, ServiceMoved DEF ExecAt, Unaccepted, Unstarted
<1>3. Queued' = Queued /\ BacklogInv'
  BY <1>1 DEF Queued, BacklogInv
<1>4. TypeOK'
  BY <1>1, <1>2, Types, TypesPrime DEF TypeOK, clientVars
<1>5. RunnerInv' /\ HandoffInv' /\ UnusedInv' /\ OrderInv'
  BY <1>1, <1>2, <1>3, ClientsUntouched
<1>6. ExecInv'
  BY <1>1, <1>2 DEF ExecInv, Unaccepted, Unstarted, OwnSecret
<1>7. QueueInv' /\ SuccessInv' /\ ScriptsRunInOrder'
  BY <1>1, <1>2, <1>3 DEF QueueInv, SuccessInv, ScriptsRunInOrder
<1> QED BY <1>3, <1>4, <1>5, <1>6, <1>7

LEMMA PrepareExecutorPreserves ==
    ASSUME HInv, PrepareExecutorCredentialRoot
    PROVE  HInv'
<1> USE HostAssumption DEF HInv
<1>1. /\ UNCHANGED <<clientVars, call, backlog, alive, ran>>
      /\ exec.at = "starting" /\ Phase("accepting") /\ private' = {}
  BY DEF PrepareExecutorCredentialRoot
<1>2. exec' \in Service /\ exec'.conn = exec.conn /\ exec'.ok = exec.ok /\ exec'.at = "accepting"
  BY <1>1, ServiceMoved DEF ExecAt, Unaccepted
<1>3. Queued' = Queued /\ BacklogInv'
  BY <1>1 DEF Queued, BacklogInv
<1>4. TypeOK'
  BY <1>1, <1>2, Types, TypesPrime DEF TypeOK, clientVars
<1>5. RunnerInv' /\ HandoffInv' /\ UnusedInv' /\ OrderInv'
  BY <1>1, <1>2, <1>3, ClientsUntouched
<1>6. ExecInv'
  BY <1>1, <1>2 DEF ExecInv, Unaccepted, Unstarted
<1>7. QueueInv' /\ SuccessInv' /\ ScriptsRunInOrder'
  BY <1>1, <1>2, <1>3 DEF QueueInv, SuccessInv, ScriptsRunInOrder
<1> QED BY <1>3, <1>4, <1>5, <1>6, <1>7

\* The first call leaves the backlog and is not in it twice.
LEMMA BacklogTail ==
    ASSUME BacklogInv, backlog # <<>>, backlog' = Tail(backlog)
    PROVE  /\ BacklogInv' /\ Head(backlog) \in Queued /\ Head(backlog) \in Call
           /\ Queued' = Queued \ {Head(backlog)}
<1>1. backlog \in Seq(Call)
  BY DEF BacklogInv
<1>2. /\ Len(backlog) \in Nat /\ Len(backlog) >= 1
      /\ backlog' \in Seq(Call) /\ Len(backlog') = Len(backlog) - 1
      /\ \A i \in 1..Len(backlog') : backlog'[i] = backlog[i + 1]
      /\ Head(backlog) = backlog[1] /\ backlog[1] \in Call
  BY <1>1
<1>3. BacklogInv'
  BY <1>2 DEF BacklogInv
<1>4. Head(backlog) \in Queued
  BY <1>2 DEF Queued
<1>5. Queued' \subseteq Queued \ {Head(backlog)}
  BY <1>2 DEF Queued, BacklogInv
<1>6. ASSUME NEW i \in 1..Len(backlog), backlog[i] # Head(backlog)
      PROVE  backlog[i] \in Queued'
  <2>1. i - 1 \in 1..Len(backlog') /\ backlog'[i - 1] = backlog[i]
    BY <1>2, <1>6
  <2> QED BY <2>1 DEF Queued
<1>7. Queued \ {Head(backlog)} \subseteq Queued'
  BY <1>6 DEF Queued
<1> QED BY <1>2, <1>3, <1>4, <1>5, <1>7

LEMMA AcceptPreserves ==
    ASSUME HInv, Accept
    PROVE  HInv'
<1> USE HostAssumption DEF HInv
<1> DEFINE c == Head(backlog)
<1>1. /\ UNCHANGED <<clientVars, call, private, alive, ran>>
      /\ exec.at = "accepting" /\ backlog # <<>> /\ backlog' = Tail(backlog)
      /\ exec' = [exec EXCEPT !.at = "reading", !.conn = c]
  BY DEF Accept
<1>2. BacklogInv' /\ c \in Queued /\ c \in Call /\ Queued' = Queued \ {c}
  BY <1>1, BacklogTail
<1> HIDE DEF c
<1>3. exec' \in Service /\ exec'.conn = c /\ exec'.ok = exec.ok /\ exec'.at = "reading"
  BY <1>1, <1>2, Types DEF Service, ExecAt, Unstarted
<1>4. TypeOK'
  BY <1>1, <1>3, Types, TypesPrime DEF TypeOK, clientVars
<1>5. RunnerInv' /\ HandoffInv' /\ UnusedInv' /\ OrderInv'
  BY <1>1, <1>2, <1>3, ClientsUntouched
<1>6. ExecInv'
  BY <1>1, <1>2, <1>3 DEF ExecInv, QueueInv, Unaccepted, Unstarted
<1>7. QueueInv' /\ SuccessInv' /\ ScriptsRunInOrder'
  BY <1>1, <1>2, <1>3 DEF QueueInv, SuccessInv, ScriptsRunInOrder
<1> QED BY <1>2, <1>4, <1>5, <1>6, <1>7

LEMMA PrepareCredentialPreserves ==
    ASSUME HInv, prepareExecutorCredential
    PROVE  HInv'
<1> USE HostAssumption DEF HInv
<1>1. /\ UNCHANGED <<clientVars, call, backlog, alive, ran>> /\ exec.at = "validated"
      /\ \/ Phase("prepared") \/ exec' = [exec EXCEPT !.at = "prepared", !.dirty = TRUE]
      /\ private' = OwnSecret(exec.conn)
  BY DEF prepareExecutorCredential, OwnSecret, ExecInv
<1>2. exec' \in Service /\ exec'.conn = exec.conn /\ exec'.ok = exec.ok /\ exec'.at = "prepared"
  BY <1>1, Types DEF Service, ExecAt, Unstarted, Phase
<1>3. Queued' = Queued /\ BacklogInv'
  BY <1>1 DEF Queued, BacklogInv
<1>4. exec.conn \in Call /\ private' \subseteq Job
  BY <1>1 DEF ExecInv, Unaccepted, OwnSecret, Call, JobOf
<1>5. TypeOK'
  BY <1>1, <1>2, <1>4, Types, TypesPrime DEF TypeOK, clientVars
<1>6. RunnerInv' /\ HandoffInv' /\ UnusedInv' /\ OrderInv'
  BY <1>1, <1>2, <1>3, ClientsUntouched
<1>7. ExecInv'
  BY <1>1, <1>2 DEF ExecInv, Unaccepted, Unstarted
<1>8. QueueInv' /\ SuccessInv' /\ ScriptsRunInOrder'
  BY <1>1, <1>2, <1>3 DEF QueueInv, SuccessInv, ScriptsRunInOrder
<1> QED BY <1>3, <1>5, <1>6, <1>7, <1>8

LEMMA RejectPreserves ==
    ASSUME HInv, Reject
    PROVE  HInv'
<1> USE HostAssumption DEF HInv
<1> DEFINE c == exec.conn
<1>1. /\ UNCHANGED <<clientVars, backlog, alive, ran>>
      /\ exec.at \in {"reading", "validated"} /\ Phase("exited")
      /\ call' = [call EXCEPT ![c].frame = "failed", ![c].shut = TRUE]
      /\ private' \in {private, {JobOf(c)}}
  BY DEF Reject, Answer
<1>2. exec' \in Service /\ exec'.conn = exec.conn /\ exec'.ok = exec.ok /\ exec'.at = "exited"
  BY <1>1, ServiceMoved DEF ExecAt
<1>3. c \in Call /\ JobOf(c) \in Job
  BY <1>1 DEF ExecInv, Unaccepted, Call, JobOf
<1>4. /\ call' \in [Call -> Connection]
      /\ \A d \in Call : /\ call'[d].client = call[d].client
                         /\ call'[d].frame \in {call[d].frame, "failed"}
  <2> HIDE DEF c
  <2> QED BY <1>1, <1>3, ServerEnd
<1>5. Queued' = Queued /\ BacklogInv'
  BY <1>1 DEF Queued, BacklogInv
<1>6. TypeOK'
  BY <1>1, <1>2, <1>3, <1>4, Types, TypesPrime DEF TypeOK, clientVars
<1>7. RunnerInv' /\ HandoffInv' /\ UnusedInv' /\ OrderInv'
  BY <1>1, <1>2, <1>4, <1>5, ClientsUntouched
<1>8. ExecInv'
  BY <1>1, <1>2 DEF ExecInv, Unaccepted, Unstarted
<1>9. QueueInv' /\ SuccessInv' /\ ScriptsRunInOrder'
  BY <1>1, <1>2, <1>4, <1>5 DEF QueueInv, SuccessInv, ScriptsRunInOrder
<1> QED BY <1>5, <1>6, <1>7, <1>8, <1>9

\* The script of the accepted call moves on; no other call is concerned.
LEMMA ScriptMoves ==
    ASSUME HInv, NEW s \in {"started", "ok", "failed"}, exec.conn \in Call,
           ran[exec.conn] \in {"no", "started"}, ran' = [ran EXCEPT ![exec.conn] = s]
    PROVE  /\ ran' \in [Call -> {"no", "started", "ok", "failed"}]
           /\ ran'[exec.conn] = s
           /\ \A c \in Call : ran'[c] = ran[c] \/ (c = exec.conn /\ ran[c] # "ok")
           /\ \A c \in Queued : ran'[c] = ran[c]
           /\ ScriptsRunInOrder'
<1> USE HostAssumption DEF HInv
<1>1. ran \in [Call -> {"no", "started", "ok", "failed"}]
  BY DEF TypeOK
<1>2. \A c \in Queued : c \in Call /\ c # exec.conn
  BY DEF Queued, BacklogInv, QueueInv
<1>3. ScriptsRunInOrder'
  <2> SUFFICES ASSUME NEW c \in Call, ran'[c] # "no", NEW k \in 1..(c[2] - 1)
               PROVE  ran'[<<c[1], k>>] = "ok"
    BY DEF ScriptsRunInOrder, JobOf
  <2>1. ran[<<c[1], k>>] = "ok"
    <3>1. CASE ran[c] # "no"
      BY <3>1 DEF ScriptsRunInOrder, JobOf
    <3>2. CASE c = exec.conn
      BY <3>2 DEF OrderInv, Earlier
    <3> QED BY <1>1, <3>1, <3>2
  <2>2. <<c[1], k>> \in Call
    BY DEF Call
  <2> QED BY <1>1, <2>1, <2>2
<1> QED BY <1>1, <1>2, <1>3

LEMMA StartCommandPreserves ==
    ASSUME HInv, StartCommand
    PROVE  HInv'
<1> USE HostAssumption DEF HInv
<1>1. /\ UNCHANGED <<clientVars, call, backlog, private>>
      /\ exec.at = "prepared" /\ Phase("running") /\ alive' = alive \cup {exec.conn}
      /\ ran' = [ran EXCEPT ![exec.conn] = "started"]
  BY DEF StartCommand
<1>2. exec' \in Service /\ exec'.conn = exec.conn /\ exec'.ok = exec.ok /\ exec'.at = "running"
  BY <1>1, ServiceMoved DEF ExecAt
<1>3. /\ exec.conn \in Call /\ ran[exec.conn] = "no" /\ alive = {} /\ ~exec.ok
      /\ private = OwnSecret(exec.conn)
  BY <1>1 DEF ExecInv, Unaccepted, Unstarted
<1>4. /\ ran' \in [Call -> {"no", "started", "ok", "failed"}]
      /\ ran'[exec.conn] = "started"
      /\ \A c \in Call : ran'[c] = ran[c] \/ (c = exec.conn /\ ran[c] # "ok")
      /\ \A c \in Queued : ran'[c] = ran[c]
      /\ ScriptsRunInOrder'
  BY <1>1, <1>3, ScriptMoves
<1>5. Queued' = Queued /\ BacklogInv'
  BY <1>1 DEF Queued, BacklogInv
<1>6. TypeOK'
  BY <1>1, <1>2, <1>3, <1>4, Types, TypesPrime DEF TypeOK, clientVars
<1>7. RunnerInv' /\ HandoffInv' /\ UnusedInv' /\ OrderInv'
  BY <1>1, <1>2, <1>4, <1>5, ClientsUntouched
<1>8. ExecInv'
  BY <1>1, <1>2, <1>3, <1>4 DEF ExecInv, Unaccepted, Unstarted, OwnSecret
<1>9. QueueInv' /\ SuccessInv'
  BY <1>1, <1>2, <1>3, <1>4, <1>5 DEF QueueInv, SuccessInv
<1> QED BY <1>4, <1>5, <1>6, <1>7, <1>8, <1>9

LEMMA CommandEndsPreserves ==
    ASSUME HInv, NEW ok \in BOOLEAN, NEW left \in BOOLEAN, CommandEnds(ok, left)
    PROVE  HInv'
<1> USE HostAssumption DEF HInv
<1> DEFINE s == IF ok THEN "ok" ELSE "failed"
<1>1. /\ UNCHANGED <<clientVars, call, backlog, private>>
      /\ exec.at = "running" /\ exec' = [exec EXCEPT !.at = "ended", !.ok = ok]
      /\ alive' \subseteq alive
      /\ ran' = [ran EXCEPT ![exec.conn] = s]
  BY DEF CommandEnds
<1>2. exec' \in Service /\ exec'.conn = exec.conn /\ exec'.ok = ok /\ exec'.at = "ended"
  BY <1>1, Types DEF Service, ExecAt
<1>3. exec.conn \in Call /\ ran[exec.conn] = "started"
  BY <1>1 DEF ExecInv, Unaccepted
<1>4. s \in {"started", "ok", "failed"} /\ (ok => s = "ok")
  OBVIOUS
<1> HIDE DEF s
<1>5. /\ ran' \in [Call -> {"no", "started", "ok", "failed"}]
      /\ ran'[exec.conn] = s
      /\ \A c \in Call : ran'[c] = ran[c] \/ (c = exec.conn /\ ran[c] # "ok")
      /\ \A c \in Queued : ran'[c] = ran[c]
      /\ ScriptsRunInOrder'
  BY <1>1, <1>3, <1>4, ScriptMoves
<1>6. Queued' = Queued /\ BacklogInv'
  BY <1>1 DEF Queued, BacklogInv
<1>7. TypeOK'
  <2>1. alive' \subseteq Call
    BY <1>1 DEF TypeOK
  <2> QED BY <1>1, <1>2, <1>5, <2>1, Types, TypesPrime DEF TypeOK, clientVars
<1>8. RunnerInv' /\ HandoffInv' /\ UnusedInv' /\ OrderInv'
  BY <1>1, <1>2, <1>5, <1>6, ClientsUntouched
<1>9. ExecInv'
  BY <1>1, <1>2, <1>3, <1>4, <1>5 DEF ExecInv, Unaccepted, Unstarted
<1>10. QueueInv' /\ SuccessInv'
  BY <1>1, <1>2, <1>3, <1>5, <1>6 DEF QueueInv, SuccessInv
<1> QED BY <1>5, <1>6, <1>7, <1>8, <1>9, <1>10

LEMMA RemoveCredentialPreserves ==
    ASSUME HInv, NEW removed \in BOOLEAN, RemoveCredential(removed)
    PROVE  HInv'
<1> USE HostAssumption DEF HInv
<1>1. /\ UNCHANGED <<clientVars, call, backlog, alive, ran>>
      /\ exec.at = "ended" /\ private' \subseteq private
      /\ exec' = [exec EXCEPT !.at = "cleaned", !.dirty = ~removed, !.ok = @ /\ removed]
  BY DEF RemoveCredential
<1>2. exec' \in Service /\ exec'.conn = exec.conn /\ (exec'.ok => exec.ok) /\ exec'.at = "cleaned"
  <2>1. exec \in Service
    BY Types
  <2>2. exec'.at = "cleaned" /\ exec'.conn = exec.conn /\ exec'.ok = (exec.ok /\ removed)
        /\ exec'.dirty = ~removed
    BY <1>1, <2>1 DEF Service
  <2>3. exec' \in Service
    BY <1>1, <2>1 DEF Service, ExecAt
  <2> QED BY <2>2, <2>3
<1>3. Queued' = Queued /\ BacklogInv'
  BY <1>1 DEF Queued, BacklogInv
<1>4. TypeOK'
  <2>1. private' \subseteq Job
    BY <1>1 DEF TypeOK
  <2> QED BY <1>1, <1>2, <2>1, Types, TypesPrime DEF TypeOK, clientVars
<1>5. RunnerInv' /\ HandoffInv' /\ UnusedInv' /\ OrderInv'
  BY <1>1, <1>2, <1>3, ClientsUntouched
<1>6. ExecInv'
  BY <1>1, <1>2 DEF ExecInv, Unaccepted, Unstarted
<1>7. QueueInv' /\ SuccessInv' /\ ScriptsRunInOrder'
  BY <1>1, <1>2, <1>3 DEF QueueInv, SuccessInv, ScriptsRunInOrder
<1> QED BY <1>3, <1>4, <1>5, <1>6, <1>7

LEMMA WriteResultPreserves ==
    ASSUME HInv, NEW written \in BOOLEAN, WriteResult(written)
    PROVE  HInv'
<1> USE HostAssumption DEF HInv
<1> DEFINE c == exec.conn
           f == IF exec.ok THEN "ok" ELSE "failed"
<1>1. /\ UNCHANGED <<clientVars, backlog, private, alive, ran>>
      /\ exec.at = "cleaned" /\ Phase("answered")
      /\ UNCHANGED call \/ call' = [call EXCEPT ![c].frame = f]
  BY DEF WriteResult
<1>2. exec' \in Service /\ exec'.conn = exec.conn /\ exec'.ok = exec.ok /\ exec'.at = "answered"
  BY <1>1, ServiceMoved DEF ExecAt
<1>3. c \in Call /\ f \in {"ok", "failed"} /\ (f = "ok" => ran[c] = "ok")
  BY <1>1 DEF ExecInv, Unaccepted
<1>4. /\ call' \in [Call -> Connection]
      /\ \A d \in Call : /\ call'[d].client = call[d].client
                         /\ call'[d].frame = call[d].frame \/ (d = c /\ call'[d].frame = f)
  <2> HIDE DEF c, f
  <2>1. CASE UNCHANGED call
    BY <2>1 DEF TypeOK
  <2>2. CASE call' = [call EXCEPT ![c].frame = f]
    <3>1. CASE f = "ok"
      <4>1. call' = [call EXCEPT ![c].frame = "ok"]
        BY <2>2, <3>1
      <4>2. /\ call' \in [Call -> Connection]
            /\ \A d \in Call : /\ call'[d].client = call[d].client
                               /\ call'[d].frame = call[d].frame \/ (d = c /\ call'[d].frame = "ok")
        <5> HIDE DEF HInv
        <5> QED BY <1>3, <4>1, ServerEnd
      <4> QED BY <3>1, <4>2
    <3>2. CASE f = "failed"
      <4>1. call' = [call EXCEPT ![c].frame = "failed"]
        BY <2>2, <3>2
      <4>2. /\ call' \in [Call -> Connection]
            /\ \A d \in Call : /\ call'[d].client = call[d].client
                               /\ call'[d].frame = call[d].frame \/ (d = c /\ call'[d].frame = "failed")
        <5> HIDE DEF HInv
        <5> QED BY <1>3, <4>1, ServerEnd
      <4> QED BY <3>2, <4>2
    <3> QED BY <1>3, <3>1, <3>2
  <2> QED BY <1>1, <2>1, <2>2
<1> HIDE DEF f
<1>5. Queued' = Queued /\ BacklogInv'
  BY <1>1 DEF Queued, BacklogInv
<1>6. TypeOK'
  BY <1>1, <1>2, <1>3, <1>4, Types, TypesPrime DEF TypeOK, clientVars
<1>7. RunnerInv' /\ HandoffInv' /\ UnusedInv' /\ OrderInv'
  BY <1>1, <1>2, <1>4, <1>5, ClientsUntouched
<1>8. ExecInv'
  BY <1>1, <1>2 DEF ExecInv, Unaccepted, Unstarted
<1>9. QueueInv' /\ ScriptsRunInOrder'
  BY <1>1, <1>2, <1>5 DEF QueueInv, ScriptsRunInOrder
<1>10. SuccessInv'
  BY <1>1, <1>3, <1>4 DEF SuccessInv
<1> QED BY <1>5, <1>6, <1>7, <1>8, <1>9, <1>10

\* The executor exits or is killed.
LEMMA ExitPreserves ==
    ASSUME HInv, ExecutorDies \/ \E removed \in BOOLEAN : Exit(removed)
    PROVE  HInv'
<1> USE HostAssumption DEF HInv
<1>1. /\ UNCHANGED <<clientVars, backlog, alive>> /\ private' \subseteq private
      /\ exec.at # "off" /\ Phase("exited") /\ call' = Shut
      /\ \/ UNCHANGED ran
         \/ exec.at = "running" /\ ran' = [ran EXCEPT ![exec.conn] = "failed"]
  BY DEF ExecutorDies, Exit
<1>2. exec' \in Service /\ exec'.conn = exec.conn /\ exec'.ok = exec.ok /\ exec'.at = "exited"
  BY <1>1, ServiceMoved DEF ExecAt
<1>3. /\ call' \in [Call -> Connection]
      /\ \A d \in Call : call'[d].client = call[d].client /\ call'[d].frame = call[d].frame
  BY <1>1, ConnectionShut
<1>4. /\ ran' \in [Call -> {"no", "started", "ok", "failed"}]
      /\ \A c \in Call : ran'[c] = ran[c] \/ (c = exec.conn /\ ran[c] # "ok")
      /\ \A c \in Queued : ran'[c] = ran[c]
      /\ exec.ok => UNCHANGED ran
      /\ ScriptsRunInOrder'
  <2>1. CASE UNCHANGED ran
    BY <2>1 DEF TypeOK, ScriptsRunInOrder
  <2>2. CASE exec.at = "running" /\ ran' = [ran EXCEPT ![exec.conn] = "failed"]
    <3>1. exec.conn \in Call /\ ran[exec.conn] = "started" /\ ~exec.ok
      BY <2>2 DEF ExecInv, Unaccepted
    <3> QED BY <2>2, <3>1, ScriptMoves
  <2> QED BY <1>1, <2>1, <2>2
<1>5. Queued' = Queued /\ BacklogInv'
  BY <1>1 DEF Queued, BacklogInv
<1>6. TypeOK'
  <2>1. private' \subseteq Job
    BY <1>1 DEF TypeOK
  <2> QED BY <1>1, <1>2, <1>3, <1>4, <2>1, Types, TypesPrime DEF TypeOK, clientVars
<1>7. RunnerInv' /\ HandoffInv' /\ UnusedInv' /\ OrderInv'
  BY <1>1, <1>2, <1>3, <1>4, <1>5, ClientsUntouched
<1>8. ExecInv'
  BY <1>1, <1>2, <1>4 DEF ExecInv, Unaccepted, Unstarted
<1>9. QueueInv' /\ SuccessInv'
  BY <1>1, <1>2, <1>3, <1>4, <1>5 DEF QueueInv, SuccessInv
<1> QED BY <1>4, <1>5, <1>6, <1>7, <1>8, <1>9

\* systemd clears the control group, or a script writes its secret once more.
LEMMA ClearedPreserves ==
    ASSUME HInv, ControlGroupKilled
    PROVE  HInv'
<1> USE HostAssumption DEF HInv
<1>1. /\ UNCHANGED <<clientVars, call, backlog, ran>>
      /\ exec' = Off /\ alive' = {} /\ private' \subseteq private
  BY DEF ControlGroupKilled
<1>2. exec' \in Service /\ exec'.conn = None /\ ~exec'.ok /\ exec'.at = "off"
  BY <1>1 DEF Off, Service, ExecAt, Unaccepted
<1>3. Queued' = Queued /\ BacklogInv'
  BY <1>1 DEF Queued, BacklogInv
<1>4. None \notin Queued
  BY DEF Queued, BacklogInv, Call
<1>5. TypeOK'
  <2>1. private' \subseteq Job /\ alive' \subseteq Call
    BY <1>1 DEF TypeOK
  <2> QED BY <1>1, <1>2, <2>1, Types, TypesPrime DEF TypeOK, clientVars
<1>6. RunnerInv' /\ HandoffInv' /\ UnusedInv' /\ OrderInv'
  BY <1>1, <1>2, <1>3, ClientsUntouched
<1>7. ExecInv'
  BY <1>1, <1>2 DEF ExecInv, Unaccepted, Unstarted
<1>8. QueueInv' /\ SuccessInv' /\ ScriptsRunInOrder'
  BY <1>1, <1>2, <1>3, <1>4 DEF QueueInv, SuccessInv, ScriptsRunInOrder
<1> QED BY <1>3, <1>5, <1>6, <1>7, <1>8

LEMMA LeftoverPreserves ==
    ASSUME HInv, NEW c \in Call, LeftoverWrites(c)
    PROVE  HInv'
<1> USE HostAssumption DEF HInv
<1>1. /\ UNCHANGED <<clientVars, call, backlog, exec, alive, ran>>
      /\ c \in alive /\ ran[c] # "started" /\ private' = private \cup {JobOf(c)}
  BY DEF LeftoverWrites
<1>2. c = exec.conn /\ exec.at \notin Unaccepted \cup Unstarted \cup {"running"}
  BY <1>1 DEF ExecInv
<1>3. Queued' = Queued /\ BacklogInv'
  BY <1>1 DEF Queued, BacklogInv
<1>4. TypeOK'
  <2>1. private' \subseteq Job
    BY <1>1 DEF TypeOK, Call, JobOf
  <2> QED BY <1>1, <2>1 DEF TypeOK, clientVars
<1>5. RunnerInv' /\ HandoffInv' /\ UnusedInv' /\ OrderInv'
  BY <1>1, <1>3, ClientsUntouched
<1>6. ExecInv'
  BY <1>1, <1>2 DEF ExecInv, Unaccepted, Unstarted
<1>7. QueueInv' /\ SuccessInv' /\ ScriptsRunInOrder'
  BY <1>1, <1>3 DEF QueueInv, SuccessInv, ScriptsRunInOrder
<1> QED BY <1>3, <1>4, <1>5, <1>6, <1>7

-------------------------------------------------------------------------------
(***************************************************************************)
(* The theorems                                                            *)
(***************************************************************************)

LEMMA HInvInit == Init => HInv
<1> SUFFICES ASSUME Init PROVE HInv
  OBVIOUS
<1> USE HostAssumption DEF Init
<1>1. None \notin Call
  BY DEF Call
<1>2. TypeOK
  BY DEF TypeOK, Down, Off, Connection
<1>3. backlog \in Seq(Call) /\ Len(backlog) = 0
  OBVIOUS
<1>4. BacklogInv /\ Queued = {}
  BY <1>3 DEF BacklogInv, Queued
<1>5. RunnerInv /\ HandoffInv
  BY DEF RunnerInv, HandoffInv, Down, Idle, Busy
<1>6. ExecInv /\ QueueInv
  BY <1>4 DEF ExecInv, QueueInv, Off, Unaccepted, Unstarted
<1>7. UnusedInv
  <2>1. \A c \in Call : call[c].client = "unused" /\ ran[c] = "no"
    OBVIOUS
  <2>2. \A j \in Job, k \in 1..MaxScripts : <<j, k>> \in Call
    BY DEF Call
  <2> QED BY <1>1, <1>4, <2>1, <2>2 DEF UnusedInv, Unused, Off, Down
<1>8. SuccessInv /\ ScriptsRunInOrder
  BY DEF SuccessInv, ScriptsRunInOrder
<1>9. OrderInv
  BY <1>1, <1>4 DEF OrderInv, Off, Down, Busy
<1> QED BY <1>2, <1>4, <1>5, <1>6, <1>7, <1>8, <1>9 DEF HInv

LEMMA HInvStep == HInv /\ [Next]_vars => HInv'
<1> SUFFICES ASSUME HInv, [Next]_vars PROVE HInv'
  OBVIOUS
<1>1. ASSUME NEW p \in Runner, RunnerStep(p) PROVE HInv'
  BY <1>1, StartPreserves, PrepareRunnerPreserves, CreatePreserves, WriteCredentialPreserves,
     DialPreserves, ReturnPreserves, ScriptReturnedPreserves, LeavePreserves DEF RunnerStep
<1>2. CASE ExecutorStep
  BY <1>2, PhasePreserves, PrepareExecutorPreserves, AcceptPreserves, PrepareCredentialPreserves,
     RejectPreserves, StartCommandPreserves, CommandEndsPreserves, RemoveCredentialPreserves,
     WriteResultPreserves, ExitPreserves, ClearedPreserves DEF ExecutorStep
<1>3. CASE ExecutorDies
  BY <1>3, ExitPreserves
<1>4. ASSUME NEW c \in Call, LeftoverWrites(c) PROVE HInv'
  BY <1>4, LeftoverPreserves
<1>5. CASE UNCHANGED vars
  <2>1. UNCHANGED clientVars /\ UNCHANGED call /\ UNCHANGED serverVars
    BY <1>5 DEF vars
  <2>2. BacklogInv' /\ ExecInv' /\ QueueInv' /\ ScriptsRunInOrder' /\ Queued' = Queued
    BY <2>1, ServerKept
  <2>3. RunnerInv' /\ HandoffInv' /\ UnusedInv' /\ OrderInv'
    BY <2>1, <2>2, ClientsUntouched DEF serverVars
  <2>4. TypeOK' /\ SuccessInv'
    BY <2>1 DEF HInv, TypeOK, SuccessInv, clientVars, serverVars
  <2> QED BY <2>2, <2>3, <2>4 DEF HInv
<1> QED BY <1>1, <1>2, <1>3, <1>4, <1>5 DEF Next

\* The invariant above holds in every reachable state.
THEOREM Invariance == Spec => []HInv
BY HInvInit, HInvStep, PTL DEF Spec

\* Processes, connections and the executor keep their types.
THEOREM TypeCorrect == Spec => []TypeOK
BY Invariance, PTL DEF HInv

\* At most one call has processes on the host, and its executor is there.
THEOREM NoOverlap == Spec => []ScriptsDoNotOverlap
<1>1. HInv => ScriptsDoNotOverlap
  BY DEF HInv, ExecInv, Unaccepted, ScriptsDoNotOverlap
<1> QED BY <1>1, Invariance, PTL

\* The host lock keeps each handoff with its job, and the executor's sweep
\* leaves a script only its own secret, whatever died before.
THEOREM SecretsStay == Spec => []SecretsStayWithTheirJob
<1>1. HInv => SecretsStayWithTheirJob
  BY DEF HInv, HandoffInv, Busy, ExecInv, OwnSecret, SecretsStayWithTheirJob
<1> QED BY <1>1, Invariance, PTL

\* A later script starts only after the executor saw every earlier one succeed.
THEOREM RunInOrder == Spec => []ScriptsRunInOrder
BY Invariance, PTL DEF HInv

===============================================================================

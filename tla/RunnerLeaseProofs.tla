-------------------------- MODULE RunnerLeaseProofs --------------------------
(***************************************************************************)
(* RunnerLease proved for any numbers of runners, jobs, releases and       *)
(* targets.  The row invariant of TargetJobsProofs says nothing about who  *)
(* writes; what makes it inductive here is that every writer holds the     *)
(* lease, and that a lease only ever names a job that was claimed.         *)
(***************************************************************************)
EXTENDS RunnerLease, TargetJobsProofs

\* A lease is on a claimed job; a processing worker has a job.
LeaseIsClaim ==
    /\ \A j \in Job : lease[j].by # NoWorker => jobs[j].status \notin {"ABSENT", "QUEUED"}
    /\ \A w \in Worker : Processing(w) => proc[w].job \in Job

\* While a worker holds the lease, the job's status is the step it is in.
WorkerKnowsStatus ==
    \A w \in Worker :
        Processing(w) /\ Owns(w, proc[w].job) =>
            /\ proc[w].pc = "work" => jobs[proc[w].job].status = proc[w].step
            /\ proc[w].pc = "finish" /\ proc[w].ok =>
                 jobs[proc[w].job].status = "VERIFYING"

IInv ==
    /\ TypeOK
    /\ RowInv
    /\ LockMatchesLease
    /\ LeaseIsClaim
    /\ WorkerKnowsStatus

LEMMA IInvInit == Init => IInv
<1> SUFFICES ASSUME Init PROVE IInv
  OBVIOUS
<1> USE DEF Init, Idle, At, NoLock, Processing
<1>1. RowInv
  BY RowInvInit DEF ReleaseStatus, Requested
<1>2. TypeOK
  BY <1>1 DEF TypeOK, RowInv, ProcState, Running
<1>3. LockMatchesLease /\ LeaseIsClaim /\ WorkerKnowsStatus
  BY RunnerLeaseAssumption
     DEF LockMatchesLease, LeaseIsClaim, WorkerKnowsStatus, NoJobsInit, NoRow, InFlight, Running
<1> QED BY <1>1, <1>2, <1>3 DEF IInv

\* Worker-side steps: no row, lease or lock changes.
LEMMA ProcOnly ==
    ASSUME IInv, UNCHANGED <<rowVars, lease, locks>>,
           proc' \in [Worker -> ProcState]
    PROVE  TypeOK' /\ RowInv' /\ LockMatchesLease'
<1>1. RowInv'
  BY RowInvStutter DEF IInv
<1> QED BY <1>1 DEF IInv, RowInv, TypeOK, LockMatchesLease, InFlight, rowVars

LEMMA ProcTypes ==
    /\ Idle \in ProcState
    /\ At("dead", NoJob) \in ProcState
    /\ \A j \in Job : At("begin", j) \in ProcState
BY DEF Idle, At, ProcState, Running

LEMMA EnqueuePreserves ==
    ASSUME IInv, NEW j \in Job, NEW r \in Release, NEW op \in {"DEPLOY", "ROLLBACK"},
           Enqueue(j, r, op)
    PROVE  IInv'
<1> USE DEF IInv
<1>1. RowInv'
  BY InsertJobPreserves DEF Enqueue
<1>2. TypeOK'
  BY <1>1 DEF TypeOK, RowInv, Enqueue
<1>3. /\ jobs[j].status = "ABSENT"
      /\ jobs'[j].status = "QUEUED"
      /\ \A i \in Job \ {j} : jobs'[i] = jobs[i]
      /\ UNCHANGED <<lease, locks, proc>>
  BY DEF Enqueue, InsertJob, Present, TypeOK, RowsTypeOK
<1>4. LockMatchesLease'
  BY <1>3 DEF LockMatchesLease, InFlight, Running
<1>5. LeaseIsClaim'
  BY <1>3 DEF LeaseIsClaim, Processing, TypeOK
<1>6. WorkerKnowsStatus'
  BY <1>3, RunnerLeaseAssumption
     DEF WorkerKnowsStatus, LeaseIsClaim, Processing, Owns, Terminal
<1> QED BY <1>1, <1>2, <1>4, <1>5, <1>6

LEMMA TakeLeasePreserves ==
    ASSUME IInv, NEW w \in Worker, NEW j \in Job, TakeLease(w, j),
           \/ UNCHANGED proc
           \/ proc' = [proc EXCEPT ![w] = At("begin", j)],
           proc[w].pc = "idle"
    PROVE  IInv'
<1> USE DEF IInv
<1>1. RowInv'
  <2>1. Active(j) /\ "VALIDATING" \in Running
    BY DEF TakeLease, Active, Running
  <2> QED BY <2>1, SetRunningPreserves DEF TakeLease
<1>2. /\ jobs[j].status = "QUEUED" /\ jobs[j].target \in Target
      /\ jobs'[j].status = "VALIDATING" /\ jobs'[j].target = jobs[j].target
      /\ \A i \in Job \ {j} : jobs'[i] = jobs[i]
      /\ locks[jobs[j].target] = NoLock
      /\ lease' = [lease EXCEPT ![j] = [by |-> w, fresh |-> TRUE]]
      /\ locks' = [locks EXCEPT ![jobs[j].target] = [job |-> j, by |-> w]]
  BY TargetJobsAssumption, ZenonT(60)
     DEF TakeLease, SetStatus, TypeOK, RowsTypeOK, JobRow, RowInv, RowsOK, Present
<1>3. TypeOK'
  <2>1. proc' \in [Worker -> ProcState]
    BY ProcTypes DEF TypeOK
  <2> QED BY <1>1, <1>2, <2>1 DEF TypeOK, RowInv
<1>4. LockMatchesLease'
  <2>1. \A i \in Job : i # j /\ InFlight(i) => jobs[i].target # jobs[j].target
    <3> SUFFICES ASSUME NEW i \in Job, InFlight(i), jobs[i].target = jobs[j].target
                 PROVE  FALSE
      OBVIOUS
    <3>0. locks[jobs[i].target] = [job |-> i, by |-> lease[i].by]
      BY DEF LockMatchesLease
    <3>1. locks[jobs[j].target].job = i
      BY <3>0
    <3>2. locks[jobs[j].target].job = NoJob
      BY <1>2 DEF NoLock
    <3> QED BY <3>1, <3>2, TargetJobsAssumption
  <2>2. "VALIDATING" \in Running /\ w # NoWorker
    BY RunnerLeaseAssumption DEF Running
  <2>3. ASSUME NEW i \in Job, InFlight(i)'
        PROVE  /\ lease'[i].by # NoWorker
               /\ locks'[jobs'[i].target] = [job |-> i, by |-> lease'[i].by]
    <3>1. CASE i = j
      BY <3>1, <1>2, <2>2 DEF TypeOK
    <3>2. CASE i # j
      BY <3>2, <2>3, <1>2, <2>1 DEF TypeOK, InFlight, LockMatchesLease
    <3> QED BY <3>1, <3>2
  <2>4. ASSUME NEW t \in Target, locks'[t] # NoLock
        PROVE  /\ locks'[t].job \in Job
               /\ InFlight(locks[t].job)'
               /\ jobs'[locks'[t].job].target = t
    <3>1. CASE t = jobs[j].target
      BY <3>1, <1>2, <2>2 DEF TypeOK, InFlight
    <3>2. CASE t # jobs[j].target
      BY <3>2, <2>4, <1>2 DEF TypeOK, InFlight, LockMatchesLease
    <3> QED BY <3>1, <3>2
  <2> QED BY <2>3, <2>4 DEF LockMatchesLease
<1>5. LeaseIsClaim'
  BY <1>2 DEF LeaseIsClaim, Processing, TypeOK, At
<1>6. WorkerKnowsStatus'
  <2> SUFFICES ASSUME NEW v \in Worker, Processing(v)', Owns(v, proc[v].job)',
                      proc'[v].pc \in {"work", "finish"}
               PROVE  /\ proc'[v].pc = "work" => jobs'[proc'[v].job].status = proc'[v].step
                      /\ proc'[v].pc = "finish" /\ proc'[v].ok =>
                           jobs'[proc'[v].job].status = "VERIFYING"
    BY DEF WorkerKnowsStatus
  <2>1. v # w /\ proc'[v] = proc[v]
    BY DEF TypeOK, At
  <2>2. proc[v].job \in Job /\ proc[v].job # j
    BY <2>1, <1>2 DEF LeaseIsClaim, Processing, Owns, TypeOK
  <2>3. Owns(v, proc[v].job) /\ jobs'[proc[v].job] = jobs[proc[v].job]
    BY <2>1, <2>2, <1>2 DEF Owns, TypeOK
  <2> QED BY <2>1, <2>3 DEF WorkerKnowsStatus, Processing
<1> QED BY <1>1, <1>3, <1>4, <1>5, <1>6

\* Rows of unleased, unlocked jobs and of jobs whose lock goes too may fail.
LEMMA FailPreserves ==
    ASSUME IInv, NEW js \in SUBSET Job, \A j \in js : Active(j),
           FinishFailed(js),
           UnlockAll(js),
           lease' \in [Job -> [by : Worker \cup {NoWorker}, fresh : BOOLEAN]],
           \A i \in Job : lease'[i].by \in {lease[i].by, NoWorker},
           \A i \in Job \ js : lease'[i] = lease[i],
           \/ UNCHANGED proc
           \/ \E w \in Worker : proc' = [proc EXCEPT ![w] = Idle]
    PROVE  IInv'
<1> USE DEF IInv
<1>1. RowInv'
  BY FinishFailedPreserves
<1>2. /\ \A i \in Job : /\ jobs'[i].status = IF i \in js THEN "FAILED" ELSE jobs[i].status
                        /\ jobs'[i].target = jobs[i].target
                        /\ i \notin js => jobs'[i] = jobs[i]
      /\ \A t \in Target : locks'[t] = IF locks[t].job \in js THEN NoLock ELSE locks[t]
  BY DEF FinishFailed, UnlockAll, TypeOK, RowsTypeOK, JobRow
<1>3. /\ proc' \in [Worker -> ProcState]
      /\ \A v \in Worker : proc'[v] = proc[v] \/ proc'[v] = Idle
  <2>1. CASE UNCHANGED proc
    BY <2>1 DEF TypeOK
  <2>2. CASE \E w \in Worker : proc' = [proc EXCEPT ![w] = Idle]
    BY <2>2, ProcTypes DEF TypeOK
  <2> QED BY <2>1, <2>2
<1>4. TypeOK'
  BY <1>1, <1>3 DEF TypeOK, RowInv, UnlockAll, NoLock
<1>5. LockMatchesLease'
  <2>1. ASSUME NEW i \in Job, InFlight(i)'
        PROVE  /\ lease'[i].by # NoWorker
               /\ locks'[jobs'[i].target] = [job |-> i, by |-> lease'[i].by]
    <3>1. i \notin js /\ InFlight(i)
      BY <2>1, <1>2 DEF InFlight, Running
    <3>2. jobs[i].target \in Target
      BY <3>1, TargetJobsAssumption DEF RowInv, RowsOK, Present, InFlight, Running
    <3> QED BY <3>1, <3>2, <1>2 DEF LockMatchesLease
  <2>2. ASSUME NEW t \in Target, locks'[t] # NoLock
        PROVE  /\ locks'[t].job \in Job
               /\ InFlight(locks[t].job)'
               /\ jobs'[locks'[t].job].target = t
    BY <2>2, <1>2 DEF LockMatchesLease, InFlight
  <2> QED BY <2>1, <2>2 DEF LockMatchesLease
<1>6. LeaseIsClaim'
  BY <1>2, <1>3 DEF LeaseIsClaim, Processing, Idle, At
<1>7. WorkerKnowsStatus'
  <2> SUFFICES ASSUME NEW v \in Worker, Processing(v)', Owns(v, proc[v].job)'
               PROVE  /\ proc'[v].pc = "work" => jobs'[proc'[v].job].status = proc'[v].step
                      /\ proc'[v].pc = "finish" /\ proc'[v].ok =>
                           jobs'[proc'[v].job].status = "VERIFYING"
    BY DEF WorkerKnowsStatus
  <2>1. proc'[v] = proc[v] /\ Processing(v) /\ proc[v].job \in Job
    BY <1>3 DEF Processing, Idle, At, LeaseIsClaim
  <2>2. proc[v].job \notin js
    BY <2>1, <1>2 DEF Owns, Terminal
  <2> QED BY <2>1, <2>2, <1>2 DEF WorkerKnowsStatus, Owns
<1> QED BY <1>1, <1>4, <1>5, <1>6, <1>7

LEMMA RecoverPreserves ==
    ASSUME IInv, NEW w \in Worker, NEW js \in SUBSET Job, RecoverStaleJobs(w, js)
    PROVE  IInv'
<1>1. \A j \in js : Active(j)
  BY DEF RecoverStaleJobs, Stale, InFlight, Active
<1>2. /\ lease' \in [Job -> [by : Worker \cup {NoWorker}, fresh : BOOLEAN]]
      /\ \A i \in Job : lease'[i].by \in {lease[i].by, NoWorker}
      /\ \A i \in Job \ js : lease'[i] = lease[i]
  BY DEF RecoverStaleJobs, IInv, TypeOK
<1> QED BY <1>1, <1>2, FailPreserves DEF RecoverStaleJobs

LEMMA ClaimRejectedPreserves ==
    ASSUME IInv, NEW w \in Worker, NEW j \in Job, ClaimRejected(w, j)
    PROVE  IInv'
<1>1. \A i \in {j} : Active(i)
  BY DEF ClaimRejected, Active
<1>2. UnlockAll({j})
  <2>1. \A t \in Target : locks[t].job # j
    <3> SUFFICES ASSUME NEW t \in Target, locks[t].job = j
                 PROVE  FALSE
      OBVIOUS
    <3>1. locks[t] # NoLock
      BY TargetJobsAssumption DEF NoLock
    <3> QED BY <3>1 DEF IInv, LockMatchesLease, InFlight, Running, ClaimRejected
  <2>2. locks' = locks
    BY DEF ClaimRejected
  <2> QED BY <2>1, <2>2 DEF UnlockAll, IInv, TypeOK
<1>3. lease' \in [Job -> [by : Worker \cup {NoWorker}, fresh : BOOLEAN]]
  BY DEF IInv, TypeOK, ClaimRejected
<1> QED BY <1>1, <1>2, <1>3, FailPreserves DEF ClaimRejected

LEMMA FinishJobPreserves ==
    ASSUME IInv, NEW w \in Worker, FinishJob(w)
    PROVE  IInv'
<1> DEFINE j == proc[w].job
<1> USE DEF FinishJob, CloseJob
<1>1. j \in Job /\ jobs[j].status \notin Terminal
  BY DEF IInv, LeaseIsClaim, Processing, Owns
<1>2. Active(j) /\ InFlight(j)
  BY <1>1, RunnerLeaseAssumption
     DEF IInv, LeaseIsClaim, Owns, TypeOK, RowsTypeOK, JobRow, Active, InFlight
<1>3. lease' \in [Job -> [by : Worker \cup {NoWorker}, fresh : BOOLEAN]] /\ lease' = lease
  BY DEF IInv, TypeOK
<1>4. CASE ~proc[w].ok
  <2>1. FinishFailed({j}) /\ {j} \in SUBSET Job
    BY <1>1, <1>4
  <2> QED BY <2>1, <1>1, <1>2, <1>3, FailPreserves
<1>5. CASE proc[w].ok
  <2> USE DEF IInv
  <2>1. FinishSucceeded(j)
    BY <1>5
  <2>2. RowInv'
    BY <1>1, <1>2, <2>1, FinishSucceededPreserves
  <2>3. /\ jobs'[j].status \in Terminal /\ jobs'[j].target = jobs[j].target
        /\ \A i \in Job \ {j} : jobs'[i] = jobs[i]
        /\ \A t \in Target : locks'[t] = IF locks[t].job = j THEN NoLock ELSE locks[t]
    BY <1>1, <2>1
       DEF FinishSucceeded, SetStatus, SuccessStatus, Terminal, UnlockAll, TypeOK,
           RowsTypeOK, JobRow
  <2>4. /\ proc' \in [Worker -> ProcState]
        /\ proc'[w] = Idle
        /\ \A v \in Worker \ {w} : proc'[v] = proc[v]
    BY ProcTypes DEF TypeOK
  <2>5. TypeOK'
    BY <2>2, <2>4, <1>3 DEF TypeOK, RowInv, UnlockAll, NoLock
  <2>6. LockMatchesLease'
    <3>1. ASSUME NEW i \in Job, InFlight(i)'
          PROVE  /\ lease'[i].by # NoWorker
                 /\ locks'[jobs'[i].target] = [job |-> i, by |-> lease'[i].by]
      <4>1. i # j /\ InFlight(i)
        BY <3>1, <2>3 DEF InFlight, Running, Terminal
      <4>2. jobs[i].target \in Target
        BY <4>1, TargetJobsAssumption DEF RowInv, RowsOK, Present, InFlight, Running
      <4> QED BY <4>1, <4>2, <2>3, <1>3 DEF LockMatchesLease
    <3>2. ASSUME NEW t \in Target, locks'[t] # NoLock
          PROVE  /\ locks'[t].job \in Job
                 /\ InFlight(locks[t].job)'
                 /\ jobs'[locks'[t].job].target = t
      BY <3>2, <2>3 DEF LockMatchesLease, InFlight
    <3> QED BY <3>1, <3>2 DEF LockMatchesLease
  <2>7. LeaseIsClaim'
    BY <2>3, <2>4, <1>1, <1>3 DEF LeaseIsClaim, Processing, Idle, At, Terminal
  <2>8. WorkerKnowsStatus'
    <3> SUFFICES ASSUME NEW v \in Worker, Processing(v)', Owns(v, proc[v].job)'
                 PROVE  /\ proc'[v].pc = "work" => jobs'[proc'[v].job].status = proc'[v].step
                        /\ proc'[v].pc = "finish" /\ proc'[v].ok =>
                             jobs'[proc'[v].job].status = "VERIFYING"
      BY DEF WorkerKnowsStatus
    <3>1. v # w /\ proc'[v] = proc[v] /\ Processing(v)
      BY <2>4 DEF Processing, Idle, At
    <3>2. proc[v].job \in Job /\ proc[v].job # j
      BY <3>1, <2>3 DEF LeaseIsClaim, Owns
    <3> QED BY <3>1, <3>2, <2>3, <1>3 DEF WorkerKnowsStatus, Owns
  <2> QED BY <2>2, <2>5, <2>6, <2>7, <2>8
<1> QED BY <1>4, <1>5

LEMMA BeginStepPreserves ==
    ASSUME IInv, NEW w \in Worker, BeginStep(w)
    PROVE  IInv'
<1> DEFINE j == proc[w].job
<1> USE DEF BeginStep, IInv
<1>1. j \in Job /\ proc[w].step \in Running
  BY DEF LeaseIsClaim, Processing, TypeOK, ProcState
<1>2. Active(j) /\ InFlight(j)
  BY <1>1, RunnerLeaseAssumption
     DEF LeaseIsClaim, Owns, TypeOK, RowsTypeOK, JobRow, Active, InFlight
<1>3. RowInv'
  BY <1>1, <1>2, SetRunningPreserves
<1>4. /\ jobs'[j].status = proc[w].step /\ jobs'[j].target = jobs[j].target
      /\ \A i \in Job \ {j} : jobs'[i] = jobs[i]
  BY <1>1 DEF SetStatus, TypeOK, RowsTypeOK, JobRow
<1>5. /\ proc' \in [Worker -> ProcState]
      /\ proc'[w].pc = "work" /\ proc'[w].job = j /\ proc'[w].step = proc[w].step
      /\ \A v \in Worker \ {w} : proc'[v] = proc[v]
  BY DEF TypeOK, ProcState
<1>6. TypeOK'
  BY <1>3, <1>5 DEF TypeOK, RowInv
<1>7. LockMatchesLease'
  <2>1. \A i \in Job : /\ InFlight(i)' <=> InFlight(i)
                       /\ jobs'[i].target = jobs[i].target
    BY <1>1, <1>2, <1>4 DEF InFlight
  <2> QED BY <2>1 DEF LockMatchesLease
<1>8. LeaseIsClaim'
  BY <1>1, <1>4, <1>5 DEF LeaseIsClaim, Processing, Running
<1>9. WorkerKnowsStatus'
  <2> SUFFICES ASSUME NEW v \in Worker, Processing(v)', Owns(v, proc[v].job)'
               PROVE  /\ proc'[v].pc = "work" => jobs'[proc'[v].job].status = proc'[v].step
                      /\ proc'[v].pc = "finish" /\ proc'[v].ok =>
                           jobs'[proc'[v].job].status = "VERIFYING"
    BY DEF WorkerKnowsStatus
  <2>1. CASE v = w
    BY <2>1, <1>4, <1>5
  <2>2. CASE v # w
    <3>1. proc'[v] = proc[v] /\ Processing(v) /\ proc[v].job \in Job /\ proc[v].job # j
      BY <2>2, <1>5 DEF Processing, LeaseIsClaim, Owns
    <3> QED BY <3>1, <1>4 DEF WorkerKnowsStatus, Owns
  <2> QED BY <2>1, <2>2
<1> QED BY <1>3, <1>6, <1>7, <1>8, <1>9

\* Heartbeats, cancellations, step results, refused closures, crashes.
LEMMA OtherStepsPreserve ==
    ASSUME IInv, NEW w \in Worker,
           \/ Heartbeat(w) \/ Cancel(w) \/ StepFails(w) \/ StepSucceeds(w)
           \/ FinishJobRefused(w) \/ Crash(w)
    PROVE  IInv'
<1> USE DEF IInv
<1>1. UNCHANGED rowVars /\ UNCHANGED locks
  BY DEF Heartbeat, Cancel, StepFails, StepSucceeds, FinishJobRefused, Crash
<1>2. /\ lease' \in [Job -> [by : Worker \cup {NoWorker}, fresh : BOOLEAN]]
      /\ \A i \in Job : lease'[i].by = lease[i].by
  <2>1. CASE Heartbeat(w)
    <3>1. proc[w].job \in Job
      BY <2>1 DEF Heartbeat, LeaseIsClaim
    <3> QED BY <2>1, <3>1 DEF Heartbeat, TypeOK
  <2>2. CASE ~Heartbeat(w)
    BY <2>2 DEF Cancel, StepFails, StepSucceeds, FinishJobRefused, Crash, TypeOK
  <2> QED BY <2>1, <2>2
<1>3. /\ proc' \in [Worker -> ProcState]
      /\ \A v \in Worker \ {w} : proc'[v] = proc[v]
      /\ proc'[w] # proc[w] =>
           \/ proc'[w].pc \in {"idle", "dead"}
           \/ /\ Processing(w) /\ proc'[w].job = proc[w].job
              /\ \/ /\ proc'[w].pc = proc[w].pc /\ proc'[w].ok = proc[w].ok
                    /\ proc'[w].step = proc[w].step
                 \/ proc'[w].pc = "begin"
                 \/ proc'[w].pc = "finish" /\ ~proc'[w].ok
                 \/ /\ proc'[w].pc = "finish"
                    /\ proc[w].pc = "work" /\ proc[w].step = "VERIFYING"
  <2>1. CASE Heartbeat(w)
    BY <2>1 DEF Heartbeat, TypeOK
  <2>2. CASE Cancel(w)
    BY <2>2 DEF Cancel, TypeOK, ProcState, Processing
  <2>3. CASE StepFails(w)
    BY <2>3, ZenonT(60) DEF StepFails, TypeOK, ProcState, Processing
  <2>4. CASE StepSucceeds(w)
    <3>1. ASSUME NEW s \in Running, proc[w].pc = "work",
                 proc' = [proc EXCEPT ![w].pc = "begin", ![w].step = s]
          PROVE  /\ proc' \in [Worker -> ProcState]
                 /\ \A v \in Worker \ {w} : proc'[v] = proc[v]
                 /\ Processing(w) /\ proc'[w].job = proc[w].job /\ proc'[w].pc = "begin"
      BY <3>1, ZenonT(60) DEF TypeOK, ProcState, Processing
    <3>2. ASSUME proc[w].pc = "work",
                 proc' = [proc EXCEPT ![w].pc = "finish", ![w].ok = TRUE]
          PROVE  /\ proc' \in [Worker -> ProcState]
                 /\ \A v \in Worker \ {w} : proc'[v] = proc[v]
                 /\ Processing(w) /\ proc'[w].job = proc[w].job /\ proc'[w].pc = "finish"
      BY <3>2, ZenonT(60) DEF TypeOK, ProcState, Processing
    <3> QED BY <2>4, <3>1, <3>2 DEF StepSucceeds
  <2>5. CASE FinishJobRefused(w)
    BY <2>5, ProcTypes DEF FinishJobRefused, TypeOK, Idle, At
  <2>6. CASE Crash(w)
    BY <2>6, ProcTypes DEF Crash, TypeOK, At
  <2> QED BY <2>1, <2>2, <2>3, <2>4, <2>5, <2>6
<1>4. RowInv'
  BY <1>1, RowInvStutter
<1>5. TypeOK'
  BY <1>1, <1>2, <1>3, <1>4 DEF TypeOK, RowInv
<1>6. LockMatchesLease'
  BY <1>1, <1>2 DEF LockMatchesLease, InFlight, rowVars
<1>7. LeaseIsClaim'
  BY <1>1, <1>2, <1>3 DEF LeaseIsClaim, Processing, rowVars
<1>8. WorkerKnowsStatus'
  <2> SUFFICES ASSUME NEW v \in Worker, Processing(v)', Owns(v, proc[v].job)'
               PROVE  /\ proc'[v].pc = "work" => jobs'[proc'[v].job].status = proc'[v].step
                      /\ proc'[v].pc = "finish" /\ proc'[v].ok =>
                           jobs'[proc'[v].job].status = "VERIFYING"
    BY DEF WorkerKnowsStatus
  <2>1. /\ Processing(v) /\ proc'[v].job = proc[v].job
        /\ proc[v].job \in Job
    BY <1>3 DEF Processing, LeaseIsClaim
  <2>2. Owns(v, proc[v].job) /\ jobs'[proc[v].job] = jobs[proc[v].job]
    BY <2>1, <1>1, <1>2 DEF Owns, rowVars
  <2> QED BY <2>1, <2>2, <1>3 DEF WorkerKnowsStatus
<1> QED BY <1>4, <1>5, <1>6, <1>7, <1>8

LEMMA IInvStep == IInv /\ [Next]_vars => IInv'
<1> SUFFICES ASSUME IInv, [Next]_vars
             PROVE  IInv'
  OBVIOUS
<1>1. CASE UNCHANGED vars
  <2>1. RowInv'
    BY <1>1, RowInvStutter DEF IInv, vars, rowVars
  <2> QED BY <1>1, <2>1
     DEF IInv, RowInv, TypeOK, LockMatchesLease, LeaseIsClaim, WorkerKnowsStatus,
         InFlight, Processing, Owns, vars
<1>2. ASSUME NEW j \in Job, NEW r \in Release, NEW op \in {"DEPLOY", "ROLLBACK"},
             Enqueue(j, r, op)
      PROVE  IInv'
  BY <1>2, EnqueuePreserves
<1>3. ASSUME NEW w \in Worker, NEW j \in Job,
             ClaimJob(w, j) \/ ClaimUnacknowledged(w, j)
      PROVE  IInv'
  BY <1>3, TakeLeasePreserves DEF ClaimJob, ClaimUnacknowledged
<1>4. ASSUME NEW w \in Worker, NEW j \in Job, ClaimRejected(w, j)
      PROVE  IInv'
  BY <1>4, ClaimRejectedPreserves
<1>5. ASSUME NEW w \in Worker, BeginStep(w)
      PROVE  IInv'
  BY <1>5, BeginStepPreserves
<1>6. ASSUME NEW w \in Worker, FinishJob(w)
      PROVE  IInv'
  BY <1>6, FinishJobPreserves
<1>7. ASSUME NEW w \in Worker, NEW js \in SUBSET Job, RecoverStaleJobs(w, js)
      PROVE  IInv'
  BY <1>7, RecoverPreserves
<1>8. ASSUME NEW w \in Worker,
             \/ Heartbeat(w) \/ Cancel(w) \/ StepFails(w) \/ StepSucceeds(w)
             \/ FinishJobRefused(w) \/ Crash(w)
      PROVE  IInv'
  BY <1>8, OtherStepsPreserve
<1>9. ASSUME NEW j \in Job, LeaseExpires(j)
      PROVE  IInv'
  <2>1. RowInv'
    BY <1>9, RowInvStutter DEF IInv, LeaseExpires
  <2>2. /\ lease' \in [Job -> [by : Worker \cup {NoWorker}, fresh : BOOLEAN]]
        /\ \A i \in Job : lease'[i].by = lease[i].by
        /\ UNCHANGED <<relStatus, jobs, latest, heads, locks, proc>>
    BY <1>9 DEF IInv, TypeOK, LeaseExpires, rowVars
  <2> QED BY <2>1, <2>2
     DEF IInv, RowInv, TypeOK, LockMatchesLease, LeaseIsClaim, WorkerKnowsStatus,
         InFlight, Processing, Owns
<1> QED BY <1>1, <1>2, <1>3, <1>4, <1>5, <1>6, <1>7, <1>8, <1>9 DEF Next, WorkerStep

\* The inductive invariant holds in every reachable state of any number of
\* runners and jobs.
THEOREM Invariance == Spec => []IInv
BY IInvInit, IInvStep, PTL DEF Spec

\* Every variable keeps its type.
THEOREM TypeCorrect == Spec => []TypeOK
<1>1. IInv => TypeOK
  BY DEF IInv
<1> QED BY <1>1, Invariance, PTL

\* A target never has two unfinished jobs, for any number of runners that
\* stall, crash and recover each other's work.
THEOREM TargetsAreExclusive == Spec => []OneActivePerTarget
<1>1. IInv => OneActivePerTarget
  BY DEF IInv, RowInv
<1> QED BY <1>1, Invariance, PTL

\* The lock row of a target and the lease on its job always agree: what
\* BeginStep tests (locked_by) and what FinishJob tests (also the lock row)
\* are the same condition, and a queued job always finds the lock free.
THEOREM LocksMatchLeases == Spec => []LockMatchesLease
<1>1. IInv => LockMatchesLease
  BY DEF IInv
<1> QED BY <1>1, Invariance, PTL

\* A head, and every source frozen in a job, names a verified DEPLOY of its
\* own target.
THEOREM HeadsAreVerified == Spec => []HeadIsVerified
<1>1. IInv => HeadIsVerified
  BY DEF IInv, RowInv
<1> QED BY <1>1, Invariance, PTL

\* No head moves under an unfinished job: the result of a job is never refused
\* by sync_verified_deployment_head.
THEOREM BasesStayCurrent == Spec => []FrozenBasisStaysCurrent
<1>1. IInv => FrozenBasisStaysCurrent
  BY DEF IInv, RowInv
<1> QED BY <1>1, Invariance, PTL

\* The release row shows the status of its unfinished job.
THEOREM ReleasesFollowJobs == Spec => []ReleaseFollowsJob
<1>1. IInv => ReleaseFollowsJob
  BY DEF IInv, RowInv
<1> QED BY <1>1, Invariance, PTL

-------------------------------------------------------------------------------
(***************************************************************************)
(* Which rows a step may change                                            *)
(***************************************************************************)

\* What a step does to the jobs: one is inserted, one in flight or queued
\* advances, one is verified by its lease holder out of VERIFYING, some fail.
JobsStep ==
    \/ UNCHANGED rowVars
    \/ \E j \in Job, r \in Release, op \in {"DEPLOY", "ROLLBACK"} :
          MayRequest(r, op) /\ InsertJob(j, r, op)
    \/ \E j \in Job, s \in Running :
          Active(j) /\ SetStatus(j, s) /\ UNCHANGED <<latest, heads>>
    \/ \E j \in Job, w \in Worker :
          /\ Active(j) /\ FinishSucceeded(j)
          /\ jobs[j].status = "VERIFYING"
          /\ proc[w].job = j /\ proc[w].ok /\ lease[j].by = w
    \/ \E js \in SUBSET Job : (\A j \in js : Active(j)) /\ FinishFailed(js)

LEMMA NextIsJobsStep == IInv /\ [Next]_vars => JobsStep
<1> SUFFICES ASSUME IInv, [Next]_vars
             PROVE  JobsStep
  OBVIOUS
<1>1. CASE UNCHANGED vars
  BY <1>1 DEF vars, rowVars, JobsStep
<1>2. ASSUME NEW j \in Job, NEW r \in Release, NEW op \in {"DEPLOY", "ROLLBACK"},
             Enqueue(j, r, op)
      PROVE  JobsStep
  BY <1>2 DEF Enqueue, JobsStep
<1>3. ASSUME NEW w \in Worker, NEW j \in Job,
             ClaimJob(w, j) \/ ClaimUnacknowledged(w, j)
      PROVE  JobsStep
  <2>1. Active(j) /\ SetStatus(j, "VALIDATING") /\ UNCHANGED <<latest, heads>>
    BY <1>3 DEF ClaimJob, ClaimUnacknowledged, TakeLease, Active
  <2> QED BY <2>1 DEF JobsStep, Running
<1>4. ASSUME NEW w \in Worker, NEW j \in Job, ClaimRejected(w, j)
      PROVE  JobsStep
  <2>1. {j} \in SUBSET Job /\ (\A i \in {j} : Active(i)) /\ FinishFailed({j})
    BY <1>4 DEF ClaimRejected, Active
  <2> QED BY <2>1 DEF JobsStep
<1>5. ASSUME NEW w \in Worker, BeginStep(w)
      PROVE  JobsStep
  <2>1. proc[w].job \in Job /\ proc[w].step \in Running
    BY <1>5 DEF BeginStep, IInv, LeaseIsClaim, Processing, TypeOK, ProcState
  <2>2. Active(proc[w].job)
    BY <1>5, <2>1, RunnerLeaseAssumption
       DEF BeginStep, IInv, LeaseIsClaim, Owns, TypeOK, RowsTypeOK, JobRow, Active
  <2> QED BY <1>5, <2>1, <2>2 DEF BeginStep, JobsStep
<1>6. ASSUME NEW w \in Worker, FinishJob(w)
      PROVE  JobsStep
  <2> DEFINE j == proc[w].job
  <2>1. /\ j \in Job /\ Owns(w, j) /\ proc[w].pc = "finish" /\ Processing(w)
    BY <1>6 DEF FinishJob, CloseJob, IInv, LeaseIsClaim, Processing
  <2>2. Active(j)
    BY <2>1, RunnerLeaseAssumption
       DEF IInv, LeaseIsClaim, Owns, TypeOK, RowsTypeOK, JobRow, Active
  <2>3. CASE proc[w].ok
    <3>1. FinishSucceeded(j)
      BY <1>6, <2>3 DEF FinishJob, CloseJob
    <3>2. jobs[j].status = "VERIFYING" /\ lease[j].by = w
      BY <2>1, <2>3 DEF IInv, WorkerKnowsStatus, Owns
    <3> QED BY <2>1, <2>2, <2>3, <3>1, <3>2 DEF JobsStep
  <2>4. CASE ~proc[w].ok
    <3>1. FinishFailed({j})
      BY <1>6, <2>4 DEF FinishJob, CloseJob
    <3>2. {j} \in SUBSET Job /\ \A i \in {j} : Active(i)
      BY <2>1, <2>2
    <3> QED BY <3>1, <3>2 DEF JobsStep
  <2> QED BY <2>3, <2>4
<1>7. ASSUME NEW w \in Worker, NEW js \in SUBSET Job, RecoverStaleJobs(w, js)
      PROVE  JobsStep
  <2>1. (\A j \in js : Active(j)) /\ FinishFailed(js)
    BY <1>7 DEF RecoverStaleJobs, Stale, InFlight, Active
  <2> QED BY <2>1 DEF JobsStep
<1>8. ASSUME NEW j \in Job, LeaseExpires(j)
      PROVE  JobsStep
  BY <1>8 DEF LeaseExpires, rowVars, JobsStep
<1>9. ASSUME NEW w \in Worker,
             \/ Heartbeat(w) \/ Cancel(w) \/ StepFails(w) \/ StepSucceeds(w)
             \/ FinishJobRefused(w) \/ Crash(w)
      PROVE  JobsStep
  BY <1>9 DEF Heartbeat, Cancel, StepFails, StepSucceeds, FinishJobRefused, Crash,
              rowVars, JobsStep
<1> QED BY <1>1, <1>2, <1>3, <1>4, <1>5, <1>6, <1>7, <1>8, <1>9 DEF Next, WorkerStep

LEMMA JobsStepKeepsVerdicts ==
    ASSUME IInv, JobsStep, NEW j \in Job, jobs[j].status \in Terminal
    PROVE  jobs'[j] = jobs[j]
<1> USE DEF IInv, TypeOK, RowsTypeOK, Terminal
<1>0. ~Active(j) /\ Present(j)
  BY DEF Active, Present, Running
<1>1. CASE UNCHANGED rowVars
  BY <1>1 DEF rowVars
<1>2. CASE \E i \in Job, r \in Release, op \in {"DEPLOY", "ROLLBACK"} :
             MayRequest(r, op) /\ InsertJob(i, r, op)
  BY <1>0, <1>2 DEF InsertJob
<1>3. CASE \E i \in Job, s \in Running : Active(i) /\ SetStatus(i, s) /\ UNCHANGED <<latest, heads>>
  BY <1>0, <1>3 DEF SetStatus
<1>4. CASE \E i \in Job : Active(i) /\ FinishSucceeded(i)
  BY <1>0, <1>4 DEF FinishSucceeded, SetStatus
<1>5. CASE \E js \in SUBSET Job : (\A i \in js : Active(i)) /\ FinishFailed(js)
  BY <1>0, <1>5 DEF FinishFailed
<1> QED BY <1>1, <1>2, <1>3, <1>4, <1>5 DEF JobsStep

\* No late, recovered or restarted worker ever changes a job that ended, for
\* any number of workers and jobs.
THEOREM VerdictsAreFinal == Spec => VerdictIsFinal
<1>1. IInv /\ [Next]_vars =>
        [\A j \in Job : jobs[j].status \in Terminal => jobs'[j] = jobs[j]]_vars
  BY NextIsJobsStep, JobsStepKeepsVerdicts
<1> QED BY <1>1, Invariance, PTL DEF Spec, VerdictIsFinal

\* A job succeeds only through its lease holder, out of VERIFYING.
THEOREM SuccessesAreVerified == Spec => SuccessIsVerified
<1> DEFINE A == \A j \in Job :
         jobs'[j].status # jobs[j].status /\ jobs'[j].status = SuccessStatus(j) =>
            /\ jobs[j].status = "VERIFYING"
            /\ \E w \in Worker : proc[w].job = j /\ proc[w].ok /\ lease[j].by = w
<1>1. IInv /\ [Next]_vars => [A]_vars
  <2> SUFFICES ASSUME IInv, [Next]_vars, NEW j \in Job,
                      jobs'[j].status # jobs[j].status,
                      jobs'[j].status = SuccessStatus(j)
               PROVE  /\ jobs[j].status = "VERIFYING"
                      /\ \E w \in Worker : proc[w].job = j /\ proc[w].ok /\ lease[j].by = w
    OBVIOUS
  <2> USE DEF IInv, TypeOK, RowsTypeOK, JobRow
  <2>0. /\ JobsStep
        /\ SuccessStatus(j) \in {"SUCCESS", "ROLLED_BACK"}
    BY NextIsJobsStep DEF SuccessStatus
  <2>1. CASE UNCHANGED rowVars
    BY <2>1 DEF rowVars
  <2>2. CASE \E i \in Job, r \in Release, op \in {"DEPLOY", "ROLLBACK"} :
               MayRequest(r, op) /\ InsertJob(i, r, op)
    BY <2>0, <2>2 DEF InsertJob
  <2>3. CASE \E i \in Job, s \in Running : Active(i) /\ SetStatus(i, s) /\ UNCHANGED <<latest, heads>>
    BY <2>0, <2>3 DEF SetStatus, Running
  <2>4. CASE \E i \in Job, w \in Worker :
               /\ Active(i) /\ FinishSucceeded(i)
               /\ jobs[i].status = "VERIFYING"
               /\ proc[w].job = i /\ proc[w].ok /\ lease[i].by = w
    BY <2>4 DEF FinishSucceeded, SetStatus
  <2>5. CASE \E js \in SUBSET Job : (\A i \in js : Active(i)) /\ FinishFailed(js)
    BY <2>0, <2>5 DEF FinishFailed
  <2> QED BY <2>0, <2>1, <2>2, <2>3, <2>4, <2>5 DEF JobsStep
<1> QED BY <1>1, Invariance, PTL DEF Spec, SuccessIsVerified

-------------------------------------------------------------------------------
(***************************************************************************)
(* The place of the live release in the history                            *)
(***************************************************************************)

\* A deployment of a release that was not rolled back.
Standing(j) == Verified(j) /\ relStatus[jobs[j].release] # "ROLLED_BACK"

NeverVerified(r) == \A j \in Job : Verified(j) => jobs[j].release # r

\* The newest job is the unfinished one, unless that is a quick release's first.
NewestInv ==
    \A j \in Job : Active(j) =>
        \/ latest[jobs[j].target] = j
        \/ /\ jobs[j].op = "DEPLOY"
           /\ \A i \in Job : jobs[i].release = jobs[j].release => i = j

\* A release is verified at most once: neither a first deployment nor a retry
\* is possible afterwards.
OnceInv ==
    /\ \A r \in Release : relStatus[r] = "APPROVED" => \A j \in Job : jobs[j].release # r
    /\ \A j \in Job : Active(j) /\ jobs[j].op = "DEPLOY" => NeverVerified(jobs[j].release)
    /\ \A r \in Release : LatestFailed(r, TargetOf[r], "DEPLOY") => NeverVerified(r)
    /\ \A i, j \in Job : Verified(i) /\ Verified(j) /\ jobs[i].release = jobs[j].release => i = j
    /\ \A j \in Job : Verified(j) => relStatus[jobs[j].release] \notin {"APPROVED", "QUEUED"}

\* Only an attempt that never succeeded is rolled back to the head itself.
AttemptInv ==
    /\ \A j \in Job : /\ Active(j) /\ jobs[j].op = "ROLLBACK"
                      /\ ~IsHeadRelease(jobs[j].release, jobs[j].target)
                      => NeverVerified(jobs[j].release)
    /\ \A r \in Release : LatestFailedRollback(r, TargetOf[r]) /\ ~IsHeadRelease(r, TargetOf[r])
                      => NeverVerified(r)

\* The head stands, what a standing deployment replaced stands too, and nothing
\* that stands replaced the head or the same deployment as another.
ChainInv ==
    /\ \A t \in Target : heads[t] # NoJob => Standing(heads[t])
    /\ \A j \in Job : jobs[j].op = "DEPLOY" /\ jobs[j].source # NoJob =>
          jobs[jobs[j].source].release # jobs[j].release
    /\ \A j \in Job : Standing(j) /\ jobs[j].source # NoJob =>
          Standing(jobs[j].source) /\ jobs[j].source # heads[jobs[j].target]
    /\ \A i, j \in Job : /\ Standing(i) /\ Standing(j)
                         /\ jobs[i].source # NoJob /\ jobs[i].source = jobs[j].source
                         => i = j

PlaceInv == NewestInv /\ OnceInv /\ AttemptInv /\ ChainInv

LEMMA PlaceInvInit == Init => PlaceInv
BY TargetJobsAssumption
   DEF Init, NoJobsInit, NoRow, PlaceInv, NewestInv, OnceInv, AttemptInv, ChainInv, Standing,
       NeverVerified, Verified, Active, Running, LatestFailed, LatestFailedRollback

LEMMA PlaceInvStutter ==
    ASSUME PlaceInv, UNCHANGED rowVars
    PROVE  PlaceInv'
BY DEF rowVars, PlaceInv, NewestInv, OnceInv, AttemptInv, ChainInv, Standing, NeverVerified,
       Verified, Active, LatestFailed, LatestFailedRollback, ExpectedSource, IsHeadRelease

\* What the row invariants say of an unfinished job.
LEMMA ActiveFacts ==
    ASSUME IInv, NEW j \in Job, Active(j)
    PROVE  /\ jobs[j].release \in Release /\ jobs[j].target = TargetOf[jobs[j].release]
           /\ jobs[j].target \in Target /\ ~Verified(j)
           /\ relStatus[jobs[j].release] \notin {"ROLLED_BACK", "APPROVED"}
           /\ jobs[j].source = FrozenSource(jobs[j].release, jobs[j].op)
BY TargetJobsAssumption
   DEF IInv, RowInv, RowsOK, ReleaseFollowsJob, FollowsJob, FrozenBasisStaysCurrent, Present,
       Active, Verified, Running

\* Unfinished jobs advance or fail, and their releases with them.
LEMMA StatusKeepsPlace ==
    ASSUME IInv, PlaceInv, SameColumns, UNCHANGED <<latest, heads>>,
           \A i \in Job : \/ jobs'[i].status = jobs[i].status
                          \/ Active(i) /\ jobs'[i].status \in Running \cup {"FAILED"},
           \A r \in Release : \/ relStatus'[r] = relStatus[r]
                              \/ /\ relStatus'[r] \in Running \cup {"FAILED"}
                                 /\ \E i \in Job : Active(i) /\ jobs[i].release = r
    PROVE  PlaceInv'
<1> USE DEF SameColumns
<1>1. \A i \in Job : /\ Verified(i)' <=> Verified(i)
                     /\ Active(i)' => Active(i)
                     /\ jobs'[i].status = "FAILED" => jobs[i].status = "FAILED" \/ Active(i)
  BY DEF Verified, Active, Running
<1>2. \A r \in Release : /\ relStatus'[r] = "ROLLED_BACK" <=> relStatus[r] = "ROLLED_BACK"
                         /\ relStatus'[r] \in {"APPROVED", "QUEUED"} => relStatus'[r] = relStatus[r]
  BY ActiveFacts DEF Running
<1>3. /\ latest \in [Target -> Job \cup {NoJob}] /\ heads \in [Target -> Job \cup {NoJob}]
      /\ \A i \in Job : Present(i) => jobs[i].release \in Release
                                      /\ jobs[i].target = TargetOf[jobs[i].release]
      /\ \A t \in Target : heads[t] # NoJob => Verified(heads[t])
      /\ \A i \in Job : jobs[i].source # NoJob => Verified(jobs[i].source)
      /\ \A r \in Release : TargetOf[r] \in Target
      /\ NoJob \notin Job
  BY TargetJobsAssumption DEF IInv, RowInv, RowsTypeOK, RowsOK, HeadIsVerified
<1>4. \A i \in Job : Standing(i)' <=> Standing(i)
  BY <1>1, <1>2, <1>3 DEF Standing, Verified, Present
<1>5. \A r : NeverVerified(r)' <=> NeverVerified(r)
  BY <1>1 DEF NeverVerified
<1>6. \A r \in Release, t \in Target : /\ IsHeadRelease(r, t)' <=> IsHeadRelease(r, t)
                                       /\ ExpectedSource(r, t)' = ExpectedSource(r, t)
  BY <1>3 DEF IsHeadRelease, ExpectedSource
<1>7. NewestInv'
  BY <1>1 DEF PlaceInv, NewestInv
<1>8. OnceInv'
  <2>1. ASSUME NEW r \in Release, LatestFailed(r, TargetOf[r], "DEPLOY")' PROVE NeverVerified(r)'
    <3> DEFINE l == latest[TargetOf[r]]
    <3>1. l \in Job /\ jobs[l].release = r /\ jobs[l].op = "DEPLOY" /\ jobs'[l].status = "FAILED"
      BY <2>1, <1>3 DEF LatestFailed
    <3>2. LatestFailed(r, TargetOf[r], "DEPLOY") \/ Active(l)
      BY <3>1, <1>1, <1>3 DEF LatestFailed
    <3> QED BY <3>1, <3>2, <1>5 DEF PlaceInv, OnceInv
  <2>2. \A r \in Release : relStatus'[r] = "APPROVED" => \A i \in Job : jobs'[i].release # r
    BY <1>2 DEF PlaceInv, OnceInv
  <2>3. \A i \in Job : Active(i)' /\ jobs'[i].op = "DEPLOY" => NeverVerified(jobs[i].release)'
    BY <1>1, <1>5 DEF PlaceInv, OnceInv
  <2>4. \A i, k \in Job : Verified(i)' /\ Verified(k)' /\ jobs'[i].release = jobs'[k].release => i = k
    BY <1>1 DEF PlaceInv, OnceInv
  <2>5. \A i \in Job : Verified(i)' => relStatus'[jobs'[i].release] \notin {"APPROVED", "QUEUED"}
    BY <1>1, <1>2, <1>3 DEF PlaceInv, OnceInv, Verified, Present
  <2> QED BY <2>1, <2>2, <2>3, <2>4, <2>5 DEF OnceInv
<1>9. AttemptInv'
  <2>1. ASSUME NEW i \in Job, Active(i)', jobs'[i].op = "ROLLBACK",
               ~IsHeadRelease(jobs[i].release, jobs[i].target)'
        PROVE  NeverVerified(jobs[i].release)'
    <3>1. Active(i) /\ jobs[i].release \in Release /\ jobs[i].target \in Target
      BY <2>1, <1>1, ActiveFacts
    <3> QED BY <2>1, <3>1, <1>5, <1>6 DEF PlaceInv, AttemptInv
  <2>2. ASSUME NEW r \in Release, LatestFailedRollback(r, TargetOf[r])',
               ~IsHeadRelease(r, TargetOf[r])'
        PROVE  NeverVerified(r)'
    <3> DEFINE l == latest[TargetOf[r]]
    <3>1. /\ l \in Job /\ jobs[l].release = r /\ jobs[l].op = "ROLLBACK" /\ jobs'[l].status = "FAILED"
          /\ jobs[l].source = ExpectedSource(r, TargetOf[r]) /\ ~IsHeadRelease(r, TargetOf[r])
      BY <2>2, <1>3, <1>6 DEF LatestFailedRollback, LatestFailed
    <3>2. CASE jobs[l].status = "FAILED"
      BY <3>1, <3>2, <1>3, <1>5 DEF PlaceInv, AttemptInv, LatestFailedRollback, LatestFailed
    <3>3. CASE Active(l)
      <4>1. jobs[l].target = TargetOf[r]
        BY <3>1, <3>3, ActiveFacts
      <4> QED BY <3>1, <3>3, <4>1, <1>5 DEF PlaceInv, AttemptInv
    <3> QED BY <3>1, <3>2, <3>3, <1>1
  <2> QED BY <2>1, <2>2 DEF AttemptInv
<1>10. ChainInv'
  BY <1>3, <1>4 DEF PlaceInv, ChainInv, Verified
<1> QED BY <1>7, <1>8, <1>9, <1>10 DEF PlaceInv

\* MayRequest and the triggers admit no second deployment of a verified release,
\* and no rollback of one that a later deployment covers.
LEMMA RequestFacts ==
    ASSUME IInv, PlaceInv, NEW j \in Job, NEW r \in Release, NEW op \in {"DEPLOY", "ROLLBACK"},
           MayRequest(r, op), InsertJob(j, r, op)
    PROVE  /\ op = "DEPLOY" => NeverVerified(r)
           /\ op = "ROLLBACK" /\ ~IsHeadRelease(r, TargetOf[r]) => NeverVerified(r)
           /\ relStatus[r] # "ROLLED_BACK"
<1>1. op = "DEPLOY" => NeverVerified(r)
  BY DEF PlaceInv, OnceInv, MayRequest, NeverVerified
<1>2. op = "ROLLBACK" /\ ~IsHeadRelease(r, TargetOf[r]) => NeverVerified(r)
  BY DEF PlaceInv, OnceInv, AttemptInv, InsertJob, RollbackAdmitted
<1> QED BY <1>1, <1>2 DEF MayRequest

LEMMA InsertKeepsPlace ==
    ASSUME IInv, PlaceInv, NEW j \in Job, NEW r \in Release, NEW op \in {"DEPLOY", "ROLLBACK"},
           MayRequest(r, op), InsertJob(j, r, op)
    PROVE  PlaceInv'
<1> DEFINE t == TargetOf[r]
<1>1. /\ ~Present(j) /\ TargetFree(t)
      /\ \A i \in Job : i # j => jobs'[i] = jobs[i]
      /\ jobs'[j] = [status |-> "QUEUED", release |-> r, target |-> t,
                     op |-> op, source |-> FrozenSource(r, op)]
      /\ \A q \in Release : q # r => relStatus'[q] = relStatus[q]
      /\ relStatus'[r] = (IF op = "DEPLOY" THEN "QUEUED" ELSE "ROLLBACK")
      /\ heads' = heads
  BY DEF InsertJob, IInv, RowInv, RowsTypeOK
<1>2. /\ \A u \in Target : u # t => latest'[u] = latest[u]
      /\ \/ latest'[t] = j
         \/ latest'[t] = latest[t] /\ op = "DEPLOY" /\ \A i \in Job : jobs[i].release # r
  <2>1. /\ \A u \in Target : u # t => latest'[u] = latest[u]
        /\ \/ latest'[t] = j
           \/ latest'[t] = latest[t] /\ op = "DEPLOY" /\ MaySortBefore(r, t)
    BY TargetJobsAssumption DEF InsertJob, IInv, RowInv, RowsTypeOK
  <2>2. op = "DEPLOY" /\ MaySortBefore(r, t) => relStatus[r] = "APPROVED"
    BY DEF MayRequest, LatestFailed, MaySortBefore
  <2>3. relStatus[r] = "APPROVED" => \A i \in Job : jobs[i].release # r
    BY DEF PlaceInv, OnceInv
  <2> QED BY <2>1, <2>2, <2>3
<1>3. /\ latest \in [Target -> Job \cup {NoJob}] /\ heads \in [Target -> Job \cup {NoJob}]
      /\ \A i \in Job : Present(i) => jobs[i].release \in Release
                                      /\ jobs[i].target = TargetOf[jobs[i].release]
      /\ \A u \in Target : heads[u] # NoJob => Verified(heads[u])
      /\ \A i \in Job : jobs[i].source # NoJob => Verified(jobs[i].source)
      /\ \A q \in Release : TargetOf[q] \in Target
      /\ NoJob \notin Job
  BY TargetJobsAssumption DEF IInv, RowInv, RowsTypeOK, RowsOK, HeadIsVerified
<1>4. /\ op = "DEPLOY" => NeverVerified(r)
      /\ op = "ROLLBACK" /\ ~IsHeadRelease(r, t) => NeverVerified(r)
      /\ relStatus[r] # "ROLLED_BACK"
  BY RequestFacts
<1>5. /\ \A i \in Job : Verified(i)' <=> Verified(i)
      /\ ~Verified(j) /\ ~Verified(j)'
  BY <1>1 DEF Verified, Present
<1>6. \A i \in Job : Active(i)' => i = j \/ (Active(i) /\ jobs[i].target # t)
  BY <1>1 DEF Active, TargetFree
<1>7. \A i \in Job : Standing(i)' <=> Standing(i)
  <2> SUFFICES ASSUME NEW i \in Job, Verified(i)
               PROVE  Standing(i)' <=> Standing(i)
    BY <1>5 DEF Standing
  <2>1. i # j /\ jobs'[i] = jobs[i] /\ jobs[i].release \in Release
    BY <1>1, <1>3, <1>5 DEF Verified, Present
  <2> QED BY <2>1, <1>1, <1>4, <1>5 DEF Standing
<1>8. \A q : NeverVerified(q)' <=> NeverVerified(q)
  BY <1>1, <1>5 DEF NeverVerified
<1>9. \A q \in Release, u \in Target : /\ IsHeadRelease(q, u)' <=> IsHeadRelease(q, u)
                                       /\ ExpectedSource(q, u)' = ExpectedSource(q, u)
  BY <1>1, <1>3, <1>5 DEF IsHeadRelease, ExpectedSource
<1>10. NewestInv'
  <2> SUFFICES ASSUME NEW i \in Job, Active(i)'
               PROVE  \/ latest'[jobs'[i].target] = i
                      \/ /\ jobs'[i].op = "DEPLOY"
                         /\ \A k \in Job : jobs'[k].release = jobs'[i].release => k = i
    BY DEF NewestInv
  <2>1. CASE i = j
    BY <2>1, <1>1, <1>2
  <2>2. CASE i # j
    <3>1. /\ Active(i) /\ jobs'[i] = jobs[i] /\ jobs[i].target \in Target /\ jobs[i].target # t
          /\ jobs[i].target = TargetOf[jobs[i].release]
      BY <2>2, <1>1, <1>6, ActiveFacts
    <3>2. latest'[jobs'[i].target] = latest[jobs[i].target] /\ jobs[i].release # r
      BY <3>1, <1>2
    <3>3. \A k \in Job : jobs'[k].release = jobs'[i].release => jobs[k].release = jobs[i].release
      BY <3>1, <3>2, <1>1
    <3> QED BY <3>1, <3>2, <3>3 DEF PlaceInv, NewestInv
  <2> QED BY <2>1, <2>2
<1>11. \A q \in Release : latest'[TargetOf[q]] # NoJob /\ jobs'[latest'[TargetOf[q]]].status = "FAILED"
          => /\ latest'[TargetOf[q]] = latest[TargetOf[q]]
             /\ latest[TargetOf[q]] \in Job /\ jobs'[latest[TargetOf[q]]] = jobs[latest[TargetOf[q]]]
  <2> SUFFICES ASSUME NEW q \in Release, latest'[TargetOf[q]] # NoJob,
                      jobs'[latest'[TargetOf[q]]].status = "FAILED"
               PROVE  /\ latest'[TargetOf[q]] = latest[TargetOf[q]]
                      /\ latest[TargetOf[q]] \in Job
                      /\ jobs'[latest[TargetOf[q]]] = jobs[latest[TargetOf[q]]]
    OBVIOUS
  <2>1. latest'[TargetOf[q]] # j
    BY <1>1
  <2>2. latest'[TargetOf[q]] = latest[TargetOf[q]]
    BY <2>1, <1>2, <1>3
  <2> QED BY <2>1, <2>2, <1>1, <1>3
<1>12. OnceInv'
  <2>1. \A q \in Release : relStatus'[q] = "APPROVED" => \A i \in Job : jobs'[i].release # q
    BY <1>1 DEF PlaceInv, OnceInv
  <2>2. \A i \in Job : Active(i)' /\ jobs'[i].op = "DEPLOY" => NeverVerified(jobs[i].release)'
    <3> SUFFICES ASSUME NEW i \in Job, Active(i)', jobs'[i].op = "DEPLOY"
                 PROVE  NeverVerified(jobs'[i].release)
      BY <1>1, <1>5 DEF NeverVerified
    <3>1. CASE i = j
      BY <3>1, <1>1, <1>4
    <3>2. CASE i # j
      BY <3>2, <1>1, <1>6 DEF PlaceInv, OnceInv
    <3> QED BY <3>1, <3>2
  <2>3. \A q \in Release : LatestFailed(q, TargetOf[q], "DEPLOY")' => NeverVerified(q)'
    BY <1>8, <1>11 DEF PlaceInv, OnceInv, LatestFailed
  <2>4. \A i, k \in Job : Verified(i)' /\ Verified(k)' /\ jobs'[i].release = jobs'[k].release => i = k
    BY <1>1, <1>5 DEF PlaceInv, OnceInv
  <2>5. \A i \in Job : Verified(i)' => relStatus'[jobs'[i].release] \notin {"APPROVED", "QUEUED"}
    <3> SUFFICES ASSUME NEW i \in Job, Verified(i)
                 PROVE  relStatus'[jobs'[i].release] \notin {"APPROVED", "QUEUED"}
      BY <1>5
    <3>1. jobs'[i] = jobs[i] /\ jobs[i].release \in Release
      BY <1>1, <1>3, <1>5 DEF Verified, Present
    <3>2. CASE jobs[i].release = r
      <4>1. op # "DEPLOY"
        BY <3>2, <1>4 DEF NeverVerified
      <4> QED BY <3>1, <3>2, <4>1, <1>1
    <3>3. CASE jobs[i].release # r
      BY <3>1, <3>3, <1>1 DEF PlaceInv, OnceInv
    <3> QED BY <3>2, <3>3
  <2> QED BY <2>1, <2>2, <2>3, <2>4, <2>5 DEF OnceInv
<1>13. AttemptInv'
  <2>1. ASSUME NEW i \in Job, Active(i)', jobs'[i].op = "ROLLBACK",
               ~IsHeadRelease(jobs[i].release, jobs[i].target)'
        PROVE  NeverVerified(jobs[i].release)'
    <3>1. CASE i = j
      BY <2>1, <3>1, <1>1, <1>3, <1>4, <1>8, <1>9
    <3>2. CASE i # j
      <4>1. Active(i) /\ jobs'[i] = jobs[i] /\ jobs[i].release \in Release /\ jobs[i].target \in Target
        BY <2>1, <3>2, <1>1, <1>6, ActiveFacts
      <4>2. NeverVerified(jobs[i].release)
        BY <2>1, <4>1, <1>9 DEF PlaceInv, AttemptInv
      <4> QED BY <4>1, <4>2, <1>8
    <3> QED BY <3>1, <3>2
  <2>2. ASSUME NEW q \in Release, LatestFailedRollback(q, TargetOf[q])',
               ~IsHeadRelease(q, TargetOf[q])'
        PROVE  NeverVerified(q)'
    <3>1. LatestFailedRollback(q, TargetOf[q]) /\ ~IsHeadRelease(q, TargetOf[q])
      BY <2>2, <1>3, <1>9, <1>11 DEF LatestFailedRollback, LatestFailed
    <3> QED BY <3>1, <1>8 DEF PlaceInv, AttemptInv
  <2> QED BY <2>1, <2>2 DEF AttemptInv
<1>14. ChainInv'
  <2>1. \A u \in Target : heads'[u] # NoJob => Standing(heads[u])'
    BY <1>1, <1>3, <1>7 DEF PlaceInv, ChainInv
  <2>2. ASSUME NEW i \in Job, jobs'[i].op = "DEPLOY", jobs'[i].source # NoJob
        PROVE  jobs'[jobs'[i].source].release # jobs'[i].release
    <3>1. CASE i = j
      <4>1. op = "DEPLOY" /\ jobs'[j].source = heads[t] /\ heads[t] # NoJob
        BY <2>2, <3>1, <1>1 DEF FrozenSource
      <4>2. Verified(heads[t]) /\ heads[t] \in Job /\ heads[t] # j
        BY <4>1, <1>3, <1>5
      <4> QED BY <3>1, <4>1, <4>2, <1>1, <1>4 DEF NeverVerified
    <3>2. CASE i # j
      <4>1. Verified(jobs[i].source) /\ jobs[i].source \in Job /\ jobs[i].source # j
        BY <2>2, <3>2, <1>1, <1>3, <1>5 DEF Verified
      <4> QED BY <2>2, <3>2, <4>1, <1>1 DEF PlaceInv, ChainInv
    <3> QED BY <3>1, <3>2
  <2>3. ASSUME NEW i \in Job, Standing(i)
        PROVE  i # j /\ jobs'[i] = jobs[i]
    BY <2>3, <1>1, <1>5 DEF Standing
  <2>4. \A i \in Job : Standing(i)' /\ jobs'[i].source # NoJob =>
           Standing(jobs[i].source)' /\ jobs'[i].source # heads'[jobs'[i].target]
    BY <2>3, <1>1, <1>3, <1>7 DEF PlaceInv, ChainInv, Verified
  <2>5. \A i, k \in Job : /\ Standing(i)' /\ Standing(k)'
                          /\ jobs'[i].source # NoJob /\ jobs'[i].source = jobs'[k].source
                          => i = k
    BY <2>3, <1>7 DEF PlaceInv, ChainInv
  <2> QED BY <2>1, <2>2, <2>4, <2>5 DEF ChainInv
<1> QED BY <1>10, <1>12, <1>13, <1>14 DEF PlaceInv

\* A deployment is verified: it stands on the head it replaces.
LEMMA DeployedKeepsPlace ==
    ASSUME IInv, PlaceInv, NEW j \in Job, Active(j), FinishSucceeded(j), jobs[j].op = "DEPLOY"
    PROVE  PlaceInv'
<1> DEFINE r == jobs[j].release
           t == jobs[j].target
<1>1. /\ r \in Release /\ t = TargetOf[r] /\ t \in Target /\ ~Verified(j)
      /\ jobs[j].source = heads[t]
  BY ActiveFacts DEF FrozenSource
<1>2. /\ SameColumns
      /\ \A i \in Job : i # j => jobs'[i] = jobs[i]
      /\ jobs'[j].status = "SUCCESS"
      /\ \A q \in Release : q # r => relStatus'[q] = relStatus[q]
      /\ relStatus'[r] = "SUCCESS"
      /\ \A u \in Target : u # t => heads'[u] = heads[u]
      /\ heads'[t] = j /\ latest' = latest
  BY <1>1 DEF FinishSucceeded, SetStatus, SuccessStatus, SyncedHead, SameColumns,
              IInv, RowInv, RowsTypeOK, JobRow
<1>3. /\ latest \in [Target -> Job \cup {NoJob}] /\ heads \in [Target -> Job \cup {NoJob}]
      /\ \A i \in Job : Present(i) => jobs[i].release \in Release
                                      /\ jobs[i].target = TargetOf[jobs[i].release]
      /\ \A u \in Target : heads[u] # NoJob => Verified(heads[u]) /\ jobs[heads[u]].target = u
      /\ \A i \in Job : jobs[i].source # NoJob =>
            Verified(jobs[i].source) /\ jobs[jobs[i].source].target = jobs[i].target
      /\ \A q \in Release : TargetOf[q] \in Target
      /\ NoJob \notin Job
  BY TargetJobsAssumption DEF IInv, RowInv, RowsTypeOK, RowsOK, HeadIsVerified
<1>4. \A i \in Job : /\ Verified(i)' <=> Verified(i) \/ i = j
                     /\ Active(i)' <=> Active(i) /\ i # j
  BY <1>2 DEF Verified, Active, Running, SameColumns
<1>5. \A i \in Job : Active(i) /\ i # j => jobs[i].target # t
  BY DEF IInv, RowInv, OneActivePerTarget
<1>6. NeverVerified(r) /\ relStatus[r] \notin {"ROLLED_BACK", "APPROVED"}
  BY ActiveFacts DEF PlaceInv, OnceInv
<1>7. \A i \in Job : Standing(i)' <=> Standing(i) \/ i = j
  <2> SUFFICES ASSUME NEW i \in Job, Verified(i)'
               PROVE  Standing(i)' <=> Standing(i) \/ i = j
    BY <1>4 DEF Standing
  <2>1. CASE i = j
    BY <2>1, <1>2 DEF Standing, SameColumns
  <2>2. CASE i # j
    <3>1. Verified(i) /\ jobs[i].release \in Release /\ jobs[i].release # r
      BY <2>2, <1>3, <1>4, <1>6 DEF NeverVerified, Verified, Present
    <3> QED BY <2>2, <3>1, <1>2 DEF Standing, Verified
  <2> QED BY <2>1, <2>2
<1>8. \A i \in Job : jobs[i].release \in Release /\ jobs[i].release # r /\ NeverVerified(jobs[i].release)
                        => NeverVerified(jobs[i].release)'
  BY <1>2, <1>4 DEF NeverVerified, SameColumns
<1>9. NewestInv'
  BY <1>2, <1>4 DEF PlaceInv, NewestInv, SameColumns
<1>10. latest[t] \in Job /\ jobs[latest[t]].release = r => latest[t] = j
  BY <1>1 DEF PlaceInv, NewestInv
<1>11. OnceInv'
  <2>1. \A q \in Release : relStatus'[q] = "APPROVED" => \A i \in Job : jobs'[i].release # q
    BY <1>2 DEF PlaceInv, OnceInv, SameColumns
  <2>2. ASSUME NEW i \in Job, Active(i)', jobs'[i].op = "DEPLOY"
        PROVE  NeverVerified(jobs[i].release)'
    <3>1. Active(i) /\ jobs[i].op = "DEPLOY" /\ jobs[i].target # t
      BY <2>2, <1>2, <1>4, <1>5 DEF SameColumns
    <3>2. jobs[i].release \in Release /\ jobs[i].release # r
      BY <3>1, <1>1, ActiveFacts
    <3> QED BY <3>1, <3>2, <1>8 DEF PlaceInv, OnceInv
  <2>3. ASSUME NEW q \in Release, LatestFailed(q, TargetOf[q], "DEPLOY")'
        PROVE  NeverVerified(q)'
    <3> DEFINE l == latest[TargetOf[q]]
    <3>1. l \in Job /\ l # j /\ jobs'[l] = jobs[l] /\ jobs[l].release = q /\ jobs[l].status = "FAILED"
      BY <2>3, <1>2, <1>3 DEF LatestFailed
    <3>2. q # r
      BY <3>1, <1>1, <1>10
    <3>3. LatestFailed(q, TargetOf[q], "DEPLOY")
      BY <2>3, <3>1, <1>2 DEF LatestFailed
    <3>4. NeverVerified(q)
      BY <3>3 DEF PlaceInv, OnceInv
    <3> QED BY <3>2, <3>4, <1>2, <1>4 DEF NeverVerified, SameColumns
  <2>4. \A i, k \in Job : Verified(i)' /\ Verified(k)' /\ jobs'[i].release = jobs'[k].release => i = k
    BY <1>2, <1>4, <1>6 DEF PlaceInv, OnceInv, NeverVerified, SameColumns
  <2>5. \A i \in Job : Verified(i)' => relStatus'[jobs'[i].release] \notin {"APPROVED", "QUEUED"}
    <3> SUFFICES ASSUME NEW i \in Job, Verified(i)'
                 PROVE  relStatus'[jobs[i].release] \notin {"APPROVED", "QUEUED"}
      BY <1>2 DEF SameColumns
    <3>1. CASE i = j
      BY <3>1, <1>2
    <3>2. CASE i # j
      BY <3>2, <1>2, <1>3, <1>4 DEF PlaceInv, OnceInv, Verified, Present
    <3> QED BY <3>1, <3>2
  <2> QED BY <2>1, <2>2, <2>3, <2>4, <2>5 DEF OnceInv
<1>12. \A q \in Release, u \in Target : u # t => /\ IsHeadRelease(q, u)' <=> IsHeadRelease(q, u)
                                                 /\ ExpectedSource(q, u)' = ExpectedSource(q, u)
  BY <1>2, <1>3 DEF IsHeadRelease, ExpectedSource, SameColumns
<1>13. AttemptInv'
  <2>1. ASSUME NEW i \in Job, Active(i)', jobs'[i].op = "ROLLBACK",
               ~IsHeadRelease(jobs[i].release, jobs[i].target)'
        PROVE  NeverVerified(jobs[i].release)'
    <3>1. Active(i) /\ jobs'[i] = jobs[i] /\ jobs[i].op = "ROLLBACK" /\ jobs[i].target # t
      BY <2>1, <1>2, <1>4, <1>5
    <3>2. /\ jobs[i].release \in Release /\ jobs[i].release # r /\ jobs[i].target \in Target
      BY <3>1, <1>1, ActiveFacts
    <3>3. NeverVerified(jobs[i].release)
      BY <2>1, <3>1, <3>2, <1>12 DEF PlaceInv, AttemptInv
    <3> QED BY <3>2, <3>3, <1>8
  <2>2. ASSUME NEW q \in Release, LatestFailedRollback(q, TargetOf[q])',
               ~IsHeadRelease(q, TargetOf[q])'
        PROVE  NeverVerified(q)'
    <3> DEFINE l == latest[TargetOf[q]]
    <3>1. /\ l \in Job /\ l # j /\ jobs'[l] = jobs[l] /\ jobs[l].release = q
          /\ jobs[l].status = "FAILED" /\ jobs[l].op = "ROLLBACK"
          /\ jobs[l].source = ExpectedSource(q, TargetOf[q])'
      BY <2>2, <1>2, <1>3 DEF LatestFailedRollback, LatestFailed
    <3>2. TargetOf[q] # t
      <4> SUFFICES ASSUME TargetOf[q] = t PROVE FALSE
        OBVIOUS
      <4>1. jobs[l].source = j
        BY <2>2, <3>1, <1>2 DEF ExpectedSource
      <4> QED BY <3>1, <4>1, <1>1, <1>3
    <3>3. LatestFailedRollback(q, TargetOf[q]) /\ ~IsHeadRelease(q, TargetOf[q])
      BY <2>2, <3>1, <3>2, <1>3, <1>12 DEF LatestFailedRollback, LatestFailed
    <3>4. NeverVerified(q) /\ q # r
      BY <3>2, <3>3, <1>1 DEF PlaceInv, AttemptInv
    <3> QED BY <3>4, <1>2, <1>4 DEF NeverVerified, SameColumns
  <2> QED BY <2>1, <2>2 DEF AttemptInv
<1>14. ChainInv'
  <2>1. \A u \in Target : heads'[u] # NoJob => Standing(heads[u])'
    BY <1>2, <1>3, <1>7 DEF PlaceInv, ChainInv
  <2>2. \A i \in Job : jobs'[i].op = "DEPLOY" /\ jobs'[i].source # NoJob =>
           jobs'[jobs'[i].source].release # jobs'[i].release
    BY <1>2, <1>3 DEF PlaceInv, ChainInv, SameColumns, Verified
  <2>3. ASSUME NEW i \in Job, Standing(i)', jobs'[i].source # NoJob
        PROVE  Standing(jobs[i].source)' /\ jobs'[i].source # heads'[jobs'[i].target]
    <3>1. /\ jobs[i].source # NoJob /\ jobs'[i].source = jobs[i].source
          /\ jobs'[i].target = jobs[i].target
          /\ jobs[i].source \in Job /\ jobs[i].source # j
      BY <2>3, <1>1, <1>2, <1>3 DEF SameColumns, Verified
    <3>2. Standing(jobs[i].source)
      BY <2>3, <3>1, <1>1, <1>3, <1>7 DEF PlaceInv, ChainInv
    <3>3. jobs[i].target \in Target
      BY <2>3, <1>1, <1>3, <1>7 DEF Standing, Verified, Present
    <3>4. CASE i = j
      BY <3>1, <3>2, <3>4, <1>2, <1>7
    <3>5. CASE i # j
      <4>1. jobs[i].source # heads[jobs[i].target]
        BY <2>3, <3>1, <3>5, <1>7 DEF PlaceInv, ChainInv
      <4> QED BY <3>1, <3>2, <3>3, <4>1, <1>2, <1>7
    <3> QED BY <3>4, <3>5
  <2>4. ASSUME NEW i \in Job, NEW k \in Job, Standing(i), Standing(k)',
               jobs[i].source # NoJob, jobs[i].source = jobs[k].source
        PROVE  i = k
    <3>1. CASE k # j
      BY <2>4, <3>1, <1>7 DEF PlaceInv, ChainInv
    <3>2. CASE k = j
      <4>1. jobs[i].source = heads[t] /\ jobs[i].source # heads[jobs[i].target]
        BY <2>4, <3>2, <1>1 DEF PlaceInv, ChainInv
      <4>2. jobs[i].target = t
        BY <2>4, <4>1, <1>1, <1>3
      <4> QED BY <4>1, <4>2
    <3> QED BY <3>1, <3>2
  <2>5. \A i, k \in Job : /\ Standing(i)' /\ Standing(k)'
                          /\ jobs'[i].source # NoJob /\ jobs'[i].source = jobs'[k].source
                          => i = k
    BY <2>4, <1>2, <1>7 DEF SameColumns
  <2> QED BY <2>1, <2>2, <2>3, <2>5 DEF ChainInv
<1> QED BY <1>9, <1>11, <1>13, <1>14 DEF PlaceInv

\* A rollback is verified: the head goes back to what it had replaced, or stays
\* where it is when the attempt that is undone never got there.
LEMMA RolledBackKeepsPlace ==
    ASSUME IInv, PlaceInv, NEW j \in Job, Active(j), FinishSucceeded(j), jobs[j].op = "ROLLBACK"
    PROVE  PlaceInv'
<1> DEFINE r == jobs[j].release
           t == jobs[j].target
           h == heads[t]
           s == jobs[j].source
<1>1. /\ r \in Release /\ t = TargetOf[r] /\ t \in Target /\ ~Verified(j)
      /\ s = ExpectedSource(r, t)
  BY ActiveFacts DEF FrozenSource
<1>2. /\ SameColumns
      /\ \A i \in Job : i # j => jobs'[i] = jobs[i]
      /\ jobs'[j].status = "ROLLED_BACK"
      /\ \A q \in Release : q # r => relStatus'[q] = relStatus[q]
      /\ relStatus'[r] = "ROLLED_BACK"
      /\ \A u \in Target : u # t => heads'[u] = heads[u]
      /\ heads'[t] = s /\ latest' = latest
  BY <1>1 DEF FinishSucceeded, SetStatus, SuccessStatus, SyncedHead, SameColumns,
              IInv, RowInv, RowsTypeOK, JobRow
<1>3. /\ latest \in [Target -> Job \cup {NoJob}] /\ heads \in [Target -> Job \cup {NoJob}]
      /\ \A i \in Job : Present(i) => jobs[i].release \in Release
                                      /\ jobs[i].target = TargetOf[jobs[i].release]
      /\ \A u \in Target : heads[u] # NoJob => Verified(heads[u]) /\ jobs[heads[u]].target = u
      /\ \A i \in Job : jobs[i].source # NoJob =>
            Verified(jobs[i].source) /\ jobs[jobs[i].source].target = jobs[i].target
      /\ \A q \in Release : TargetOf[q] \in Target
      /\ NoJob \notin Job
  BY TargetJobsAssumption DEF IInv, RowInv, RowsTypeOK, RowsOK, HeadIsVerified
<1>4. \A i \in Job : /\ Verified(i)' <=> Verified(i)
                     /\ Active(i)' <=> Active(i) /\ i # j
  BY <1>1, <1>2 DEF Verified, Active, Running, SameColumns
<1>5. \A i \in Job : Active(i) /\ i # j => jobs[i].target # t
  BY DEF IInv, RowInv, OneActivePerTarget
<1>6. latest[t] = j
  BY DEF PlaceInv, NewestInv
<1>7. \A q : NeverVerified(q)' <=> NeverVerified(q)
  BY <1>2, <1>4 DEF NeverVerified, SameColumns
<1>8. \A q \in Release, u \in Target : u # t => /\ IsHeadRelease(q, u)' <=> IsHeadRelease(q, u)
                                                /\ ExpectedSource(q, u)' = ExpectedSource(q, u)
  BY <1>2, <1>3 DEF IsHeadRelease, ExpectedSource, SameColumns
<1>9. \A i \in Job : Standing(i)' <=> Standing(i) /\ jobs[i].release # r
  <2> SUFFICES ASSUME NEW i \in Job, Verified(i)
               PROVE  Standing(i)' <=> Standing(i) /\ jobs[i].release # r
    BY <1>4 DEF Standing
  <2>1. jobs[i].release \in Release /\ jobs'[i].release = jobs[i].release /\ Verified(i)'
    BY <1>2, <1>3, <1>4 DEF Verified, Present, SameColumns
  <2>2. CASE jobs[i].release = r
    BY <2>1, <2>2, <1>2 DEF Standing
  <2>3. CASE jobs[i].release # r
    <3>1. relStatus'[jobs[i].release] = relStatus[jobs[i].release]
      BY <2>1, <2>3, <1>2
    <3> QED BY <2>1, <2>3, <3>1 DEF Standing
  <2> QED BY <2>2, <2>3
<1>10. NewestInv'
  BY <1>2, <1>4 DEF PlaceInv, NewestInv, SameColumns
<1>11. OnceInv'
  <2>1. \A q \in Release : relStatus'[q] = "APPROVED" => \A i \in Job : jobs'[i].release # q
    BY <1>2 DEF PlaceInv, OnceInv, SameColumns
  <2>2. \A i \in Job : Active(i)' /\ jobs'[i].op = "DEPLOY" => NeverVerified(jobs[i].release)'
    BY <1>2, <1>4, <1>7 DEF PlaceInv, OnceInv, SameColumns
  <2>3. ASSUME NEW q \in Release, LatestFailed(q, TargetOf[q], "DEPLOY")'
        PROVE  NeverVerified(q)'
    <3> DEFINE l == latest[TargetOf[q]]
    <3>1. l \in Job /\ l # j /\ jobs'[l] = jobs[l]
      BY <2>3, <1>2, <1>3 DEF LatestFailed
    <3>2. LatestFailed(q, TargetOf[q], "DEPLOY")
      BY <2>3, <3>1, <1>2 DEF LatestFailed
    <3> QED BY <3>2, <1>7 DEF PlaceInv, OnceInv
  <2>4. \A i, k \in Job : Verified(i)' /\ Verified(k)' /\ jobs'[i].release = jobs'[k].release => i = k
    BY <1>2, <1>4 DEF PlaceInv, OnceInv, SameColumns
  <2>5. ASSUME NEW i \in Job, Verified(i)
        PROVE  relStatus'[jobs[i].release] \notin {"APPROVED", "QUEUED"}
    <3>1. jobs[i].release \in Release
      BY <2>5, <1>3 DEF Verified, Present
    <3>2. CASE jobs[i].release = r
      BY <3>2, <1>2
    <3>3. CASE jobs[i].release # r
      BY <2>5, <3>1, <3>3, <1>2 DEF PlaceInv, OnceInv
    <3> QED BY <3>2, <3>3
  <2>6. \A i \in Job : Verified(i)' => relStatus'[jobs'[i].release] \notin {"APPROVED", "QUEUED"}
    BY <2>5, <1>2, <1>4 DEF SameColumns
  <2> QED BY <2>1, <2>2, <2>3, <2>4, <2>6 DEF OnceInv
<1>12. AttemptInv'
  <2>1. ASSUME NEW i \in Job, Active(i)', jobs'[i].op = "ROLLBACK",
               ~IsHeadRelease(jobs[i].release, jobs[i].target)'
        PROVE  NeverVerified(jobs[i].release)'
    <3>1. Active(i) /\ jobs'[i] = jobs[i] /\ jobs[i].op = "ROLLBACK" /\ jobs[i].target # t
      BY <2>1, <1>2, <1>4, <1>5
    <3>2. jobs[i].release \in Release /\ jobs[i].target \in Target
      BY <3>1, ActiveFacts
    <3>3. NeverVerified(jobs[i].release)
      BY <2>1, <3>1, <3>2, <1>8 DEF PlaceInv, AttemptInv
    <3> QED BY <3>1, <3>3, <1>7
  <2>2. ASSUME NEW q \in Release, LatestFailedRollback(q, TargetOf[q])',
               ~IsHeadRelease(q, TargetOf[q])'
        PROVE  NeverVerified(q)'
    <3> DEFINE l == latest[TargetOf[q]]
    <3>1. /\ l \in Job /\ l # j /\ jobs'[l] = jobs[l] /\ jobs[l].release = q
          /\ jobs[l].status = "FAILED" /\ jobs[l].op = "ROLLBACK"
          /\ jobs[l].source = ExpectedSource(q, TargetOf[q])'
      BY <2>2, <1>2, <1>3 DEF LatestFailedRollback, LatestFailed
    <3>2. TargetOf[q] # t /\ TargetOf[q] \in Target
      BY <3>1, <1>3, <1>6
    <3>3. LatestFailedRollback(q, TargetOf[q]) /\ ~IsHeadRelease(q, TargetOf[q])
      BY <2>2, <3>1, <3>2, <1>3, <1>8 DEF LatestFailedRollback, LatestFailed
    <3> QED BY <3>3, <1>7 DEF PlaceInv, AttemptInv
  <2> QED BY <2>1, <2>2 DEF AttemptInv
<1>13. \A i \in Job : jobs'[i].op = "DEPLOY" /\ jobs'[i].source # NoJob =>
          jobs'[jobs'[i].source].release # jobs'[i].release
  BY <1>2, <1>3 DEF PlaceInv, ChainInv, SameColumns, Verified
<1>14. CASE ~IsHeadRelease(r, t)
  <2>1. s = h /\ NeverVerified(r)
    BY <1>1, <1>14 DEF ExpectedSource, PlaceInv, AttemptInv
  <2>2. \A u \in Target : heads'[u] = heads[u]
    BY <2>1, <1>2
  <2>3. \A i \in Job : Standing(i)' <=> Standing(i)
    BY <2>1, <1>9 DEF NeverVerified, Standing
  <2>4. \A u \in Target : heads'[u] # NoJob => Standing(heads[u])'
    BY <2>2, <2>3, <1>3 DEF PlaceInv, ChainInv
  <2>5. ASSUME NEW i \in Job, Standing(i), jobs[i].source # NoJob
        PROVE  Standing(jobs[i].source)' /\ jobs[i].source # heads'[jobs[i].target]
    <3>1. jobs[i].target \in Target /\ jobs[i].source \in Job
      BY <2>5, <1>3 DEF Standing, Verified, Present
    <3> QED BY <2>5, <3>1, <2>2, <2>3, <1>2 DEF PlaceInv, ChainInv, SameColumns
  <2>6. \A i \in Job : Standing(i)' /\ jobs'[i].source # NoJob =>
           Standing(jobs[i].source)' /\ jobs'[i].source # heads'[jobs'[i].target]
    BY <2>3, <2>5, <1>2 DEF SameColumns
  <2>7. \A i, k \in Job : /\ Standing(i)' /\ Standing(k)'
                          /\ jobs'[i].source # NoJob /\ jobs'[i].source = jobs'[k].source
                          => i = k
    BY <2>3, <1>2 DEF PlaceInv, ChainInv, SameColumns
  <2>8. ChainInv'
    BY <2>4, <2>6, <2>7, <1>13 DEF ChainInv
  <2> QED BY <2>8, <1>10, <1>11, <1>12 DEF PlaceInv
<1>15. CASE IsHeadRelease(r, t)
  <2>1. /\ h \in Job /\ Verified(h) /\ Standing(h) /\ jobs[h].release = r /\ jobs[h].target = t
        /\ s = jobs[h].source
    BY <1>1, <1>3, <1>15 DEF ExpectedSource, IsHeadRelease, PlaceInv, ChainInv
  <2>2. \A i \in Job : Standing(i)' <=> Standing(i) /\ i # h
    BY <2>1, <1>9 DEF Standing, PlaceInv, OnceInv
  <2>3. s # NoJob => s \in Job /\ Standing(s) /\ s # h
    BY <2>1, <1>3 DEF PlaceInv, ChainInv, Verified
  <2>4. \A u \in Target : u # t /\ heads[u] # NoJob => heads[u] # h
    BY <2>1, <1>3
  <2>5. ASSUME NEW u \in Target, heads'[u] # NoJob
        PROVE  Standing(heads[u])'
    <3>1. CASE u = t
      BY <2>5, <3>1, <2>2, <2>3, <1>2
    <3>2. CASE u # t
      <4>1. heads'[u] = heads[u] /\ heads[u] \in Job /\ Standing(heads[u]) /\ heads[u] # h
        BY <2>4, <2>5, <3>2, <1>2, <1>3 DEF PlaceInv, ChainInv
      <4> QED BY <4>1, <2>2
    <3> QED BY <3>1, <3>2
  <2>6. ASSUME NEW i \in Job, Standing(i), i # h, jobs[i].source # NoJob
        PROVE  /\ jobs[i].source \in Job /\ Standing(jobs[i].source) /\ jobs[i].source # h
               /\ jobs[i].source # heads'[jobs[i].target]
    <3>1. /\ jobs[i].target \in Target /\ jobs[i].source \in Job
          /\ jobs[jobs[i].source].target = jobs[i].target
      BY <2>6, <1>3 DEF Standing, Verified, Present
    <3>2. Standing(jobs[i].source) /\ jobs[i].source # heads[jobs[i].target]
      BY <2>6 DEF PlaceInv, ChainInv
    <3>3. jobs[i].source # h
      BY <2>1, <3>1, <3>2
    <3>4. jobs[i].source # s
      BY <2>1, <2>6 DEF PlaceInv, ChainInv
    <3> QED BY <3>1, <3>2, <3>3, <3>4, <1>2
  <2>7. \A i \in Job : Standing(i)' /\ jobs'[i].source # NoJob =>
           Standing(jobs[i].source)' /\ jobs'[i].source # heads'[jobs'[i].target]
    BY <2>2, <2>6, <1>2 DEF SameColumns
  <2>8. \A i, k \in Job : /\ Standing(i)' /\ Standing(k)'
                          /\ jobs'[i].source # NoJob /\ jobs'[i].source = jobs'[k].source
                          => i = k
    BY <2>2, <1>2 DEF PlaceInv, ChainInv, SameColumns
  <2>9. ChainInv'
    BY <2>5, <2>7, <2>8, <1>13 DEF ChainInv
  <2> QED BY <2>9, <1>10, <1>11, <1>12 DEF PlaceInv
<1> QED BY <1>14, <1>15

LEMMA PlaceInvStep == IInv /\ PlaceInv /\ [Next]_vars => PlaceInv'
<1> SUFFICES ASSUME IInv, PlaceInv, [Next]_vars
             PROVE  PlaceInv'
  OBVIOUS
<1>1. JobsStep
  BY NextIsJobsStep
<1>2. CASE UNCHANGED rowVars
  BY <1>2, PlaceInvStutter
<1>3. ASSUME NEW j \in Job, NEW r \in Release, NEW op \in {"DEPLOY", "ROLLBACK"},
             MayRequest(r, op), InsertJob(j, r, op)
      PROVE  PlaceInv'
  BY <1>3, InsertKeepsPlace
<1>4. ASSUME NEW j \in Job, NEW s \in Running, Active(j), SetStatus(j, s),
             UNCHANGED <<latest, heads>>
      PROVE  PlaceInv'
  <2>1. SameColumns /\ \A i \in Job : \/ jobs'[i].status = jobs[i].status
                                      \/ Active(i) /\ jobs'[i].status \in Running \cup {"FAILED"}
    BY <1>4 DEF SetStatus, SameColumns, IInv, RowInv, RowsTypeOK, JobRow
  <2>2. \A q \in Release : \/ relStatus'[q] = relStatus[q]
                           \/ /\ relStatus'[q] \in Running \cup {"FAILED"}
                              /\ \E i \in Job : Active(i) /\ jobs[i].release = q
    BY <1>4 DEF SetStatus, IInv, RowInv, RowsTypeOK
  <2> QED BY <1>4, <2>1, <2>2, StatusKeepsPlace
<1>5. ASSUME NEW j \in Job, Active(j), FinishSucceeded(j)
      PROVE  PlaceInv'
  <2>1. jobs[j].op = "DEPLOY" \/ jobs[j].op = "ROLLBACK"
    BY <1>5, TargetJobsAssumption DEF IInv, RowInv, RowsTypeOK, JobRow
  <2> QED BY <1>5, <2>1, DeployedKeepsPlace, RolledBackKeepsPlace
<1>6. ASSUME NEW js \in SUBSET Job, \A j \in js : Active(j), FinishFailed(js)
      PROVE  PlaceInv'
  <2>1. SameColumns /\ \A i \in Job : \/ jobs'[i].status = jobs[i].status
                                      \/ Active(i) /\ jobs'[i].status \in Running \cup {"FAILED"}
    BY <1>6 DEF FinishFailed, SameColumns, IInv, RowInv, RowsTypeOK, JobRow
  <2>2. \A q \in Release : \/ relStatus'[q] = relStatus[q]
                           \/ /\ relStatus'[q] \in Running \cup {"FAILED"}
                              /\ \E i \in Job : Active(i) /\ jobs[i].release = q
    BY <1>6 DEF FinishFailed
  <2>3. UNCHANGED <<latest, heads>>
    BY <1>6 DEF FinishFailed
  <2> QED BY <2>1, <2>2, <2>3, StatusKeepsPlace
<1> QED BY <1>1, <1>2, <1>3, <1>4, <1>5, <1>6 DEF JobsStep

\* The release that is live is never shown as rolled back, nor offered for a
\* first deployment again: the head is a deployment that stands, and what a
\* rollback returns to stood below it all the while.
THEOREM LiveReleasesKeepTheirPlace == Spec => []LiveReleaseKeepsItsPlace
<1>1. IInv /\ PlaceInv => LiveReleaseKeepsItsPlace
  BY DEF IInv, RowInv, HeadIsVerified, PlaceInv, OnceInv, ChainInv, Standing, Verified,
         LiveReleaseKeepsItsPlace
<1> QED BY <1>1, PlaceInvInit, PlaceInvStep, Invariance, PTL DEF Spec

-------------------------------------------------------------------------------
(***************************************************************************)
(* Refinement of DeploymentHistory                                         *)
(***************************************************************************)

\* Every step maps to Verify, Revert or a stutter.
LEMMA JobsStepRefines ==
    ASSUME IInv, JobsStep
    PROVE  [History!Next]_(History!vars)
<1>1. RowCore
  BY RowInvIsCore DEF IInv
<1>2. ASSUME UNCHANGED <<VerifiedJobs, Replaced, heads>>
      PROVE  [History!Next]_(History!vars)
  BY <1>2 DEF History!vars
<1>3. CASE UNCHANGED rowVars
  BY <1>3, <1>2, SameHistory DEF Verified, rowVars
<1>4. CASE \E j \in Job, r \in Release, op \in {"DEPLOY", "ROLLBACK"} :
             MayRequest(r, op) /\ InsertJob(j, r, op)
  BY <1>1, <1>2, <1>4, InsertHistory
<1>5. CASE \E j \in Job, s \in Running : Active(j) /\ SetStatus(j, s) /\ UNCHANGED <<latest, heads>>
  BY <1>1, <1>2, <1>5, RunningHistory
<1>6. CASE \E js \in SUBSET Job : (\A j \in js : Active(j)) /\ FinishFailed(js)
  BY <1>1, <1>2, <1>6, FailedHistory
<1>7. CASE \E j \in Job : Active(j) /\ FinishSucceeded(j)
  BY <1>1, <1>7, SucceededHistory
<1> QED BY <1>3, <1>4, <1>5, <1>6, <1>7 DEF JobsStep

\* For any numbers of runners, jobs, releases and targets, what the system
\* does to deployment_heads is a behaviour of DeploymentHistory.
THEOREM RefinesHistory == Spec => ImplementsHistory
<1>1. Init => History!Init
  BY NoJobsHistory DEF Init
<1>2. IInv /\ [Next]_vars => [History!Next]_(History!vars)
  BY NextIsJobsStep, JobsStepRefines
<1> QED BY <1>1, <1>2, Invariance, PTL DEF Spec, ImplementsHistory, History!Spec

\* Whatever runners, retries, recoveries and rollbacks do to a target, rolling
\* it back again and again comes to an end: what DeploymentHistory promises
\* holds of the rows the runners write.
THEOREM HistoriesStayAcyclic == Spec => []HistoryStaysAcyclic
BY RefinesHistory, HistoryIsAcyclic, PTL

-------------------------------------------------------------------------------
(***************************************************************************)
(* What one deployer per target depends on                                 *)
(***************************************************************************)

\* Worker w is about to run, or runs, scripts for job j.
Executes(w, j) == proc[w].pc \in {"begin", "work"} /\ proc[w].job = j

\* A job is taken from its worker only once that worker has stopped: what
\* RecoverStaleJobs hopes for when it lets stale_job_after_ms pass.
RecoveryFindsItStopped ==
    \A j \in Job : lease[j].by # NoWorker /\ lease'[j].by # lease[j].by =>
        \A w \in Worker : ~Executes(w, j)

\* Whoever executes a job still has its lease.
ExecutorOwns ==
    \A w \in Worker, j \in Job : Executes(w, j) => InFlight(j) /\ lease[j].by = w

LEMMA ExecutorOwnsInit == Init => ExecutorOwns
BY DEF Init, ExecutorOwns, Executes, Idle, At

\* An executor was one before, of the same job, or has just claimed it.
LEMMA ExecutorOrigin ==
    ASSUME IInv, [Next]_vars, NEW v \in Worker, NEW j \in Job, Executes(v, j)'
    PROVE  Executes(v, j) \/ ClaimJob(v, j)
<1> USE DEF Executes
<1>1. proc \in [Worker -> ProcState]
  BY DEF IInv, TypeOK
<1>2. CASE proc' = proc
  BY <1>2
<1>3. ASSUME NEW w \in Worker, NEW i \in Job, ClaimJob(w, i)
      PROVE  Executes(v, j) \/ ClaimJob(v, j)
  <2>1. proc' = [proc EXCEPT ![w] = At("begin", i)]
    BY <1>3 DEF ClaimJob
  <2>2. CASE v = w
    <3>1. proc'[v].job = i
      BY <1>1, <2>1, <2>2 DEF At
    <3> QED BY <1>3, <2>2, <3>1
  <2>3. CASE v # w
    BY <1>1, <2>1, <2>3
  <2> QED BY <2>2, <2>3
<1>4. ASSUME NEW w \in Worker, NEW rec, proc' = [proc EXCEPT ![w] = rec],
             rec.pc \in {"begin", "work"} => proc[w].pc \in {"begin", "work"} /\ rec.job = proc[w].job
      PROVE  Executes(v, j)
  BY <1>1, <1>4
<1>5. ASSUME NEW w \in Worker, Cancel(w) \/ BeginStep(w) \/ StepFails(w) \/ StepSucceeds(w)
      PROVE  Executes(v, j)
  <2>1. proc[w] \in ProcState
    BY <1>1
  <2>2. CASE Cancel(w)
    <3> DEFINE rec == [proc[w] EXCEPT !.cancelled = TRUE]
    <3>1. proc' = [proc EXCEPT ![w] = rec] /\ rec.pc = proc[w].pc /\ rec.job = proc[w].job
      BY <1>1, <2>1, <2>2 DEF Cancel, ProcState
    <3> HIDE DEF rec
    <3> QED BY <1>4, <3>1
  <2>3. CASE BeginStep(w)
    <3> DEFINE rec == [proc[w] EXCEPT !.pc = "work"]
    <3>1. proc' = [proc EXCEPT ![w] = rec] /\ proc[w].pc = "begin" /\ rec.job = proc[w].job
      BY <1>1, <2>1, <2>3 DEF BeginStep, ProcState
    <3> HIDE DEF rec
    <3> QED BY <1>4, <3>1
  <2>4. CASE StepFails(w)
    <3> DEFINE rec == [proc[w] EXCEPT !.pc = "finish", !.ok = FALSE]
    <3>1. proc' = [proc EXCEPT ![w] = rec] /\ rec.pc = "finish"
      BY <1>1, <2>1, <2>4 DEF StepFails, ProcState
    <3> HIDE DEF rec
    <3> QED BY <1>4, <3>1
  <2>5. CASE StepSucceeds(w)
    <3>1. ASSUME NEW s \in Running, proc' = [proc EXCEPT ![w].pc = "begin", ![w].step = s]
          PROVE  Executes(v, j)
      <4> DEFINE rec == [proc[w] EXCEPT !.pc = "begin", !.step = s]
      <4>1. proc' = [proc EXCEPT ![w] = rec] /\ proc[w].pc = "work" /\ rec.job = proc[w].job
        BY <1>1, <2>1, <2>5, <3>1 DEF StepSucceeds, ProcState
      <4> HIDE DEF rec
      <4> QED BY <1>4, <4>1
    <3>2. ASSUME proc' = [proc EXCEPT ![w].pc = "finish", ![w].ok = TRUE]
          PROVE  Executes(v, j)
      <4> DEFINE rec == [proc[w] EXCEPT !.pc = "finish", !.ok = TRUE]
      <4>1. proc' = [proc EXCEPT ![w] = rec] /\ rec.pc = "finish"
        BY <1>1, <2>1, <3>2 DEF ProcState
      <4> HIDE DEF rec
      <4> QED BY <1>4, <4>1
    <3> QED BY <2>5, <3>1, <3>2 DEF StepSucceeds
  <2> QED BY <1>5, <2>2, <2>3, <2>4, <2>5
<1>6. ASSUME NEW w \in Worker, FinishJob(w) \/ FinishJobRefused(w) \/ Crash(w)
      PROVE  Executes(v, j)
  <2>1. \E rec \in {Idle, At("dead", NoJob)} : proc' = [proc EXCEPT ![w] = rec]
    BY <1>6 DEF FinishJob, FinishJobRefused, Crash
  <2>2. \A rec \in {Idle, At("dead", NoJob)} : rec.pc \notin {"begin", "work"}
    BY DEF Idle, At
  <2> QED BY <1>4, <2>1, <2>2
<1>7. \/ proc' = proc
      \/ \E w \in Worker, i \in Job : ClaimJob(w, i)
      \/ \E w \in Worker : \/ Cancel(w) \/ BeginStep(w) \/ StepFails(w) \/ StepSucceeds(w)
                           \/ FinishJob(w) \/ FinishJobRefused(w) \/ Crash(w)
  BY DEF Next, WorkerStep, vars, Enqueue, LeaseExpires, Heartbeat, ClaimUnacknowledged,
         ClaimRejected, RecoverStaleJobs
<1> QED BY <1>2, <1>3, <1>5, <1>6, <1>7

\* A job leaves the flight only by its own worker, which stops, or by recovery.
LEMMA FlightEnds ==
    ASSUME IInv, [Next]_vars, NEW j \in Job, InFlight(j), ~InFlight(j)'
    PROVE  \/ lease'[j].by # lease[j].by
           \/ \E w \in Worker : lease[j].by = w /\ proc'[w] = Idle
<1> USE DEF InFlight
<1>1. jobs \in [Job -> JobRow] /\ lease \in [Job -> [by : Worker \cup {NoWorker}, fresh : BOOLEAN]]
      /\ proc \in [Worker -> ProcState]
  BY DEF IInv, TypeOK, RowsTypeOK
<1>2. jobs'[j] # jobs[j]
  OBVIOUS
<1>3. ASSUME NEW i \in Job, NEW s \in Running, SetStatus(i, s)
      PROVE  FALSE
  BY <1>1, <1>3 DEF SetStatus, JobRow
<1>4. ASSUME NEW i \in Job, NEW r \in Release, NEW op \in {"DEPLOY", "ROLLBACK"}, Enqueue(i, r, op)
      PROVE  FALSE
  BY <1>1, <1>2, <1>4 DEF Enqueue, InsertJob, Present, Running
<1>5. ASSUME NEW w \in Worker, NEW i \in Job, ClaimRejected(w, i)
      PROVE  FALSE
  BY <1>1, <1>2, <1>5 DEF ClaimRejected, FinishFailed, Running
<1>6. ASSUME NEW w \in Worker, FinishJob(w)
      PROVE  lease[j].by = w /\ proc'[w] = Idle
  <2> DEFINE i == proc[w].job
  <2>1. i \in Job /\ lease[i].by = w /\ proc'[w] = Idle
    BY <1>1, <1>6 DEF FinishJob, CloseJob, IInv, LeaseIsClaim, Processing, Owns
  <2>2. FinishSucceeded(i) \/ FinishFailed({i})
    BY <1>6 DEF FinishJob, CloseJob
  <2>3. j = i
    BY <1>1, <1>2, <2>1, <2>2 DEF FinishSucceeded, SetStatus, FinishFailed
  <2> QED BY <2>1, <2>3
<1>7. ASSUME NEW w \in Worker, NEW js \in SUBSET Job, RecoverStaleJobs(w, js)
      PROVE  lease'[j].by # lease[j].by
  <2>1. j \in js
    BY <1>1, <1>2, <1>7 DEF RecoverStaleJobs, FinishFailed
  <2>2. lease'[j].by = NoWorker
    BY <1>1, <1>7, <2>1 DEF RecoverStaleJobs
  <2>3. lease[j].by # NoWorker
    BY DEF IInv, LockMatchesLease
  <2> QED BY <2>2, <2>3
<1>8. \/ jobs' = jobs
      \/ \E i \in Job, r \in Release, op \in {"DEPLOY", "ROLLBACK"} : Enqueue(i, r, op)
      \/ \E i \in Job, s \in Running : SetStatus(i, s)
      \/ \E w \in Worker, i \in Job : ClaimRejected(w, i)
      \/ \E w \in Worker : FinishJob(w)
      \/ \E w \in Worker, js \in SUBSET Job : RecoverStaleJobs(w, js)
  <2>1. ASSUME NEW w \in Worker, BeginStep(w)
        PROVE  \E i \in Job, s \in Running : SetStatus(i, s)
    BY <1>1, <2>1 DEF BeginStep, IInv, LeaseIsClaim, Processing, ProcState
  <2>2. ASSUME NEW w \in Worker, NEW i \in Job, ClaimJob(w, i) \/ ClaimUnacknowledged(w, i)
        PROVE  SetStatus(i, "VALIDATING") /\ "VALIDATING" \in Running
    BY <2>2 DEF ClaimJob, ClaimUnacknowledged, TakeLease, Running
  <2>3. ASSUME UNCHANGED rowVars
        PROVE  jobs' = jobs
    BY <2>3 DEF rowVars
  <2>4. ASSUME NEW w \in Worker,
               \/ Heartbeat(w) \/ Cancel(w) \/ StepFails(w) \/ StepSucceeds(w)
               \/ FinishJobRefused(w) \/ Crash(w)
        PROVE  jobs' = jobs
    BY <2>4 DEF rowVars, Heartbeat, Cancel, StepFails, StepSucceeds, FinishJobRefused, Crash
  <2>5. (UNCHANGED vars \/ \E i \in Job : LeaseExpires(i)) => jobs' = jobs
    BY DEF vars, LeaseExpires, rowVars
  <2> QED BY <2>1, <2>2, <2>4, <2>5 DEF Next, WorkerStep
<1> QED BY <1>2, <1>3, <1>4, <1>5, <1>6, <1>7, <1>8

LEMMA ExecutorOwnsStep ==
    ASSUME IInv, ExecutorOwns, [Next]_vars, RecoveryFindsItStopped \/ UNCHANGED vars
    PROVE  ExecutorOwns'
<1> SUFFICES ASSUME NEW v \in Worker, NEW j \in Job, Executes(v, j)'
             PROVE  InFlight(j)' /\ lease'[j].by = v
  BY DEF ExecutorOwns
<1>1. CASE ClaimJob(v, j)
  BY <1>1 DEF ClaimJob, TakeLease, SetStatus, IInv, TypeOK, RowsTypeOK, JobRow, InFlight, Running
<1>2. CASE Executes(v, j)
  <2>1. InFlight(j) /\ lease[j].by = v /\ v # NoWorker
    BY <1>2, RunnerLeaseAssumption DEF ExecutorOwns
  <2>2. lease'[j].by = v
    BY <1>2, <2>1 DEF RecoveryFindsItStopped, vars
  <2>3. proc'[v] # Idle
    BY DEF Executes, Idle, At
  <2> QED BY <2>1, <2>2, <2>3, FlightEnds
<1> QED BY <1>1, <1>2, ExecutorOrigin

\* Two runners never execute target-changing scripts for one target at once,
\* for any number of runners, crashes and lost answers, as long as no job is
\* recovered while its runner still executes it.  RecoverStaleJobs does not
\* wait for that; what the lock key of the target is said to prevent rests on
\* the runner stopping within stale_job_after_ms and on nothing else.
THEOREM DeployersExclude ==
    Spec /\ [][RecoveryFindsItStopped]_vars => []OneDeployerPerTarget
<1>1. IInv /\ ExecutorOwns /\ [Next]_vars /\ [RecoveryFindsItStopped]_vars => ExecutorOwns'
  BY ExecutorOwnsStep
<1>2. IInv /\ ExecutorOwns => OneDeployerPerTarget
  <2> SUFFICES ASSUME IInv, ExecutorOwns, NEW v \in Worker, NEW w \in Worker,
                      proc[v].pc = "work", proc[w].pc = "work",
                      jobs[proc[v].job].target = jobs[proc[w].job].target
               PROVE  v = w
    BY DEF OneDeployerPerTarget
  <2>1. proc[v].job \in Job /\ proc[w].job \in Job
    BY DEF IInv, LeaseIsClaim, Processing
  <2>2. /\ InFlight(proc[v].job) /\ lease[proc[v].job].by = v
        /\ InFlight(proc[w].job) /\ lease[proc[w].job].by = w
    BY <2>1 DEF ExecutorOwns, Executes
  <2>3. proc[v].job = proc[w].job
    BY <2>1, <2>2 DEF IInv, RowInv, OneActivePerTarget, Active, InFlight
  <2> QED BY <2>2, <2>3
<1> QED BY <1>1, <1>2, ExecutorOwnsInit, Invariance, PTL DEF Spec

===============================================================================

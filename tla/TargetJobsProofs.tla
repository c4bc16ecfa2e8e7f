--------------------------- MODULE TargetJobsProofs ---------------------------
(***************************************************************************)
(* The row invariant is preserved by every statement of TargetJobs, for    *)
(* any numbers of jobs, releases and targets.  The modules that add        *)
(* processes cite these lemmas for the part of a step that touches rows.   *)
(***************************************************************************)
EXTENDS TargetJobs, TLAPS

\* A row's target is its release's; an unused identity has no contents.
RowsOK ==
    \A j \in Job :
        /\ Present(j) => /\ jobs[j].release \in Release
                         /\ jobs[j].target = TargetOf[jobs[j].release]
        /\ ~Present(j) => jobs[j] = NoRow

\* What holds whichever request a release is asked for.
RowCore ==
    /\ RowsTypeOK
    /\ RowsOK
    /\ OneActivePerTarget
    /\ HeadIsVerified
    /\ FrozenBasisStaysCurrent

RowInv ==
    /\ RowsTypeOK
    /\ RowsOK
    /\ OneActivePerTarget
    /\ HeadIsVerified
    /\ FrozenBasisStaysCurrent
    /\ ReleaseFollowsJob

\* A release that showed its unfinished job's status, or had none, still does.
StillFollows ==
    \A i \in Job : Active(i)' /\ (Active(i) => FollowsJob(i)) => FollowsJob(i)'

LEMMA RowInvIsCore ==
    ASSUME RowInv
    PROVE  /\ RowCore
           /\ (RowCore' /\ StillFollows => RowInv')
BY DEF RowInv, RowCore, StillFollows, ReleaseFollowsJob

LEMMA RowInvInit ==
    ASSUME NoJobsInit, relStatus \in [Release -> ReleaseStatus]
    PROVE  RowInv
BY TargetJobsAssumption
   DEF NoJobsInit, RowInv, RowsTypeOK, RowsOK, OneActivePerTarget, HeadIsVerified,
       FrozenBasisStaysCurrent, ReleaseFollowsJob, FollowsJob, Present, Active, Verified,
       JobRow, NoRow, Running, Terminal

LEMMA RowInvStutter ==
    ASSUME RowInv, UNCHANGED rowVars
    PROVE  RowInv'
BY DEF rowVars, RowInv, RowsTypeOK, RowsOK, OneActivePerTarget, HeadIsVerified,
       FrozenBasisStaysCurrent, ReleaseFollowsJob, FollowsJob, Present, Active, Verified,
       FrozenSource, ExpectedSource, IsHeadRelease, HeadSyncAccepted

\* Nothing but the status of some jobs and of releases changes.
SameColumns ==
    \A i \in Job : /\ jobs'[i].release = jobs[i].release
                   /\ jobs'[i].target = jobs[i].target
                   /\ jobs'[i].op = jobs[i].op
                   /\ jobs'[i].source = jobs[i].source

\* A job's basis depends on the head and on frozen columns only.
LEMMA SameBasis ==
    ASSUME RowCore, SameColumns, UNCHANGED heads,
           \A i \in Job : Verified(i) => Verified(i)',
           \A i \in Job : Active(i)' => Active(i)
    PROVE  FrozenBasisStaysCurrent'
<1> SUFFICES ASSUME NEW j \in Job, Active(j)'
             PROVE  /\ jobs'[j].source = FrozenSource(jobs[j].release, jobs[j].op)'
                    /\ HeadSyncAccepted(j)'
  BY DEF FrozenBasisStaysCurrent, SameColumns
<1>1. /\ jobs[j].source = FrozenSource(jobs[j].release, jobs[j].op)
      /\ HeadSyncAccepted(j)
      /\ jobs[j].release \in Release
      /\ jobs[j].target = TargetOf[jobs[j].release]
      /\ jobs[j].target \in Target
  BY TargetJobsAssumption
     DEF RowCore, RowsOK, FrozenBasisStaysCurrent, Present, Active, Running
<1>2. heads[jobs[j].target] \in Job \cup {NoJob}
  BY <1>1 DEF RowCore, RowsTypeOK
<1>3. FrozenSource(jobs[j].release, jobs[j].op)' = FrozenSource(jobs[j].release, jobs[j].op)
  BY <1>1, <1>2 DEF SameColumns, FrozenSource, ExpectedSource, IsHeadRelease
<1>4. HeadSyncAccepted(j)'
  BY <1>1, <1>2 DEF SameColumns, HeadSyncAccepted, Verified
<1> QED BY <1>1, <1>3, <1>4 DEF SameColumns

\* A claim or a pipeline step.
LEMMA SetRunningRows ==
    ASSUME RowCore, NEW j \in Job, Active(j), NEW s \in Running,
           SetStatus(j, s), UNCHANGED <<latest, heads>>
    PROVE  RowCore' /\ StillFollows
<1> USE DEF RowCore
<1>0. /\ jobs[j].release \in Release
      /\ jobs[j].status # "SUCCESS"
      /\ jobs[j].status # "ABSENT"
  BY DEF RowsOK, Present, Active, Running
<1>1. RowsTypeOK'
  BY <1>0 DEF RowsTypeOK, SetStatus, JobRow, ReleaseStatus
<1>2. SameColumns
  BY DEF RowsTypeOK, SetStatus, JobRow, SameColumns
<1>3. \A i \in Job : /\ jobs'[i].status = IF i = j THEN s ELSE jobs[i].status
                     /\ Active(i)' <=> Active(i)
                     /\ Present(i)' <=> Present(i)
                     /\ Verified(i)' <=> Verified(i)
                     /\ i # j => jobs'[i] = jobs[i]
  BY <1>0, <1>2 DEF RowsTypeOK, SetStatus, JobRow, Active, Present, Verified, SameColumns, Running
<1>4. RowsOK'
  BY <1>0, <1>2, <1>3 DEF RowsOK, SameColumns, Present
<1>5. OneActivePerTarget'
  BY <1>2, <1>3 DEF OneActivePerTarget, SameColumns
<1>6. HeadIsVerified'
  BY <1>2, <1>3 DEF HeadIsVerified, SameColumns, RowsTypeOK, Verified
<1>7. FrozenBasisStaysCurrent'
  BY <1>2, <1>3, SameBasis
<1>8. StillFollows
  <2> SUFFICES ASSUME NEW i \in Job, Active(i)', Active(i) => FollowsJob(i)
               PROVE  relStatus'[jobs'[i].release] =
                        IF jobs'[i].op = "ROLLBACK" /\ jobs'[i].status = "QUEUED"
                        THEN "ROLLBACK" ELSE jobs'[i].status
    BY DEF StillFollows, FollowsJob
  <2>1. CASE i = j
    BY <1>0, <1>2, <1>3, <2>1 DEF SetStatus, RowsTypeOK, SameColumns, Running
  <2>2. CASE i # j
    <3>1. Active(i) /\ jobs[i].release # jobs[j].release
      BY <1>3, <2>2 DEF OneActivePerTarget, RowsOK, Present, Active, Running
    <3>2. relStatus'[jobs[i].release] = relStatus[jobs[i].release]
      BY <3>1, <1>0 DEF SetStatus, RowsTypeOK, RowsOK, Present, Active, Running
    <3> QED BY <3>1, <3>2, <1>3, <2>2 DEF FollowsJob
  <2> QED BY <2>1, <2>2
<1> QED BY <1>1, <1>4, <1>5, <1>6, <1>7, <1>8

LEMMA SetRunningPreserves ==
    ASSUME RowInv, NEW j \in Job, Active(j), NEW s \in Running,
           SetStatus(j, s), UNCHANGED <<latest, heads>>
    PROVE  RowInv'
BY RowInvIsCore, SetRunningRows

\* A failed run, a rejected claim or a recovery.
LEMMA FinishFailedRows ==
    ASSUME RowCore, NEW js \in SUBSET Job, \A j \in js : Active(j), FinishFailed(js)
    PROVE  RowCore' /\ StillFollows
<1> USE DEF RowCore
<1>0. \A j \in js : /\ jobs[j].status # "SUCCESS"
                    /\ jobs[j].status # "ABSENT"
  BY DEF Active, Running
<1>1. RowsTypeOK'
  <2>1. jobs' \in [Job -> JobRow]
    BY DEF RowsTypeOK, FinishFailed, JobRow, Terminal
  <2>2. relStatus' \in [Release -> ReleaseStatus]
    BY DEF RowsTypeOK, FinishFailed, ReleaseStatus, Terminal
  <2> QED BY <2>1, <2>2 DEF RowsTypeOK, FinishFailed
<1>2. SameColumns
  BY DEF RowsTypeOK, FinishFailed, JobRow, SameColumns
<1>3. \A i \in Job : /\ jobs'[i].status = IF i \in js THEN "FAILED" ELSE jobs[i].status
                     /\ i \notin js => jobs'[i] = jobs[i]
  BY DEF RowsTypeOK, FinishFailed, JobRow
<1>4. \A i \in Job : /\ Active(i)' <=> Active(i) /\ i \notin js
                     /\ Present(i)' <=> Present(i)
                     /\ Verified(i)' <=> Verified(i)
  BY <1>0, <1>2, <1>3 DEF SameColumns, Active, Present, Verified, Running
<1>5. RowsOK'
  BY <1>0, <1>2, <1>3, <1>4 DEF RowsOK, SameColumns, Present
<1>6. OneActivePerTarget'
  BY <1>2, <1>4 DEF OneActivePerTarget, SameColumns
<1>7. HeadIsVerified'
  BY <1>2, <1>4 DEF HeadIsVerified, SameColumns, RowsTypeOK, Verified, FinishFailed
<1>8. FrozenBasisStaysCurrent'
  BY <1>2, <1>4, SameBasis DEF FinishFailed
<1>9. StillFollows
  <2> SUFFICES ASSUME NEW i \in Job, Active(i)', Active(i) => FollowsJob(i)
               PROVE  relStatus'[jobs'[i].release] =
                        IF jobs'[i].op = "ROLLBACK" /\ jobs'[i].status = "QUEUED"
                        THEN "ROLLBACK" ELSE jobs'[i].status
    BY DEF StillFollows, FollowsJob
  <2>1. Active(i) /\ i \notin js /\ jobs'[i] = jobs[i]
    BY <1>3, <1>4
  <2>2. \A k \in js : jobs[k].release # jobs[i].release
    BY <2>1 DEF OneActivePerTarget, RowsOK, Present, Active, Running
  <2>3. relStatus'[jobs[i].release] = relStatus[jobs[i].release]
    BY <2>1, <2>2 DEF FinishFailed, RowsOK, Present, Active, Running
  <2> QED BY <2>1, <2>3 DEF FollowsJob
<1> QED BY <1>1, <1>5, <1>6, <1>7, <1>8, <1>9

LEMMA FinishFailedPreserves ==
    ASSUME RowInv, NEW js \in SUBSET Job, \A j \in js : Active(j), FinishFailed(js)
    PROVE  RowInv'
BY RowInvIsCore, FinishFailedRows

\* A verified run moves the head; no other job of the target is waiting on it.
LEMMA FinishSucceededRows ==
    ASSUME RowCore, NEW j \in Job, Active(j), FinishSucceeded(j)
    PROVE  RowCore' /\ StillFollows
<1> USE DEF RowCore
<1> DEFINE t == jobs[j].target
<1>0. /\ jobs[j].release \in Release
      /\ t = TargetOf[jobs[j].release]
      /\ t \in Target
      /\ jobs[j].status \notin Terminal
      /\ jobs[j].status # "ABSENT"
      /\ jobs[j].op \in {"DEPLOY", "ROLLBACK"}
      /\ jobs[j].source \in Job \cup {NoJob}
  BY TargetJobsAssumption
     DEF RowsTypeOK, JobRow, RowsOK, Present, Active, Running, Terminal
<1>1. /\ SuccessStatus(j) \in Terminal
      /\ SuccessStatus(j) \notin Running \cup {"QUEUED", "ABSENT"}
  BY DEF SuccessStatus, Terminal, Running
<1>2. SameColumns
  BY DEF RowsTypeOK, FinishSucceeded, SetStatus, JobRow, SameColumns
<1>3. \A i \in Job : /\ jobs'[i].status = IF i = j THEN SuccessStatus(j) ELSE jobs[i].status
                     /\ i # j => jobs'[i] = jobs[i]
  BY DEF RowsTypeOK, FinishSucceeded, SetStatus, JobRow
<1>4. \A i \in Job : /\ Active(i)' <=> Active(i) /\ i # j
                     /\ Present(i)' <=> Present(i)
                     /\ Verified(i)' <=> Verified(i) \/ (i = j /\ jobs[j].op = "DEPLOY")
  BY <1>0, <1>1, <1>2, <1>3
     DEF SameColumns, Active, Present, Verified, SuccessStatus, Terminal
<1>5. \A u \in Target : heads'[u] = IF u = t THEN SyncedHead(j) ELSE heads[u]
  BY <1>0 DEF FinishSucceeded, RowsTypeOK
<1>6. PICK h \in Job : h = SyncedHead(j) /\ Verified(h)' /\ jobs[h].target = t
  <2>1. CASE jobs[j].op = "DEPLOY"
    BY <2>1, <1>4 DEF SyncedHead
  <2>2. CASE jobs[j].op # "DEPLOY"
    BY <2>2, <1>0, <1>4, TargetJobsAssumption
       DEF SyncedHead, FinishSucceeded, HeadSyncAccepted, HeadIsVerified, Verified
  <2> QED BY <2>1, <2>2
<1>7. RowsTypeOK'
  <2>1. jobs' \in [Job -> JobRow]
    BY <1>1 DEF RowsTypeOK, FinishSucceeded, SetStatus, JobRow
  <2>2. relStatus' \in [Release -> ReleaseStatus]
    BY <1>0, <1>1 DEF RowsTypeOK, FinishSucceeded, SetStatus, ReleaseStatus
  <2>3. heads' \in [Target -> Job \cup {NoJob}]
    BY <1>6 DEF RowsTypeOK, FinishSucceeded
  <2> QED BY <2>1, <2>2, <2>3 DEF RowsTypeOK, FinishSucceeded
<1>8. RowsOK'
  BY <1>0, <1>2, <1>3, <1>4 DEF RowsOK, SameColumns, Present
<1>9. OneActivePerTarget'
  BY <1>2, <1>4 DEF OneActivePerTarget, SameColumns
<1>10. HeadIsVerified'
  <2>1. ASSUME NEW u \in Target, heads'[u] # NoJob
        PROVE  Verified(heads[u])' /\ jobs'[heads'[u]].target = u
    <3>1. CASE u = t
      BY <3>1, <1>2, <1>5, <1>6 DEF SameColumns, Verified
    <3>2. CASE u # t
      BY <3>2, <2>1, <1>2, <1>4, <1>5 DEF SameColumns, HeadIsVerified, Verified
    <3> QED BY <3>1, <3>2
  <2>2. ASSUME NEW i \in Job, jobs'[i].source # NoJob
        PROVE  Verified(jobs[i].source)' /\ jobs'[jobs'[i].source].target = jobs'[i].target
    BY <2>2, <1>2, <1>4 DEF SameColumns, HeadIsVerified, Verified
  <2> QED BY <2>1, <2>2 DEF HeadIsVerified
<1>11. FrozenBasisStaysCurrent'
  <2> SUFFICES ASSUME NEW i \in Job, Active(i)'
               PROVE  /\ jobs'[i].source = FrozenSource(jobs[i].release, jobs[i].op)'
                      /\ HeadSyncAccepted(i)'
    BY DEF FrozenBasisStaysCurrent
  <2>1. /\ Active(i) /\ i # j
        /\ jobs[i].release \in Release
        /\ jobs[i].target = TargetOf[jobs[i].release]
        /\ jobs[i].target \in Target
        /\ jobs[i].target # t
    BY <1>4, TargetJobsAssumption DEF OneActivePerTarget, RowsOK, Present, Active, Running
  <2>2. /\ heads'[jobs[i].target] = heads[jobs[i].target]
        /\ heads[jobs[i].target] \in Job \cup {NoJob}
    BY <2>1, <1>5 DEF RowsTypeOK
  <2>3. /\ jobs[i].source = FrozenSource(jobs[i].release, jobs[i].op)
        /\ HeadSyncAccepted(i)
    BY <2>1 DEF FrozenBasisStaysCurrent
  <2>4. FrozenSource(jobs[i].release, jobs[i].op)' = FrozenSource(jobs[i].release, jobs[i].op)
    BY <2>1, <2>2, <1>2 DEF SameColumns, FrozenSource, ExpectedSource, IsHeadRelease
  <2>5. HeadSyncAccepted(i)'
    <3>1. CASE jobs[i].op = "DEPLOY"
      BY <3>1, <1>2 DEF SameColumns, HeadSyncAccepted
    <3>2. CASE jobs[i].op # "DEPLOY"
      <4>1. /\ Verified(jobs[i].source) /\ heads[jobs[i].target] # NoJob
            /\ jobs[heads[jobs[i].target]].release
                  \in {jobs[i].release, jobs[jobs[i].source].release}
        BY <2>3, <3>2 DEF HeadSyncAccepted
      <4>2. Verified(jobs[i].source)' /\ jobs[i].source \in Job
        BY <4>1, <1>2, <1>4 DEF SameColumns, Verified
      <4> QED BY <2>2, <4>1, <4>2, <1>2 DEF SameColumns, HeadSyncAccepted
    <3> QED BY <3>1, <3>2
  <2> QED BY <2>3, <2>4, <2>5, <1>2 DEF SameColumns
<1>12. StillFollows
  <2> SUFFICES ASSUME NEW i \in Job, Active(i)', Active(i) => FollowsJob(i)
               PROVE  relStatus'[jobs'[i].release] =
                        IF jobs'[i].op = "ROLLBACK" /\ jobs'[i].status = "QUEUED"
                        THEN "ROLLBACK" ELSE jobs'[i].status
    BY DEF StillFollows, FollowsJob
  <2>1. Active(i) /\ i # j /\ jobs'[i] = jobs[i] /\ jobs[i].release # jobs[j].release
    BY <1>3, <1>4 DEF OneActivePerTarget, RowsOK, Present, Active, Running
  <2>2. relStatus'[jobs[i].release] = relStatus[jobs[i].release]
    BY <2>1, <1>0 DEF FinishSucceeded, SetStatus, RowsTypeOK, RowsOK, Present, Active, Running
  <2> QED BY <2>1, <2>2 DEF FollowsJob
<1> QED BY <1>7, <1>8, <1>9, <1>10, <1>11, <1>12

LEMMA FinishSucceededPreserves ==
    ASSUME RowInv, NEW j \in Job, Active(j), FinishSucceeded(j)
    PROVE  RowInv'
BY RowInvIsCore, FinishSucceededRows

\* A new job is frozen against the head of a target no other job occupies.
LEMMA InsertJobRows ==
    ASSUME RowCore, NEW j \in Job, NEW r \in Release, NEW op \in {"DEPLOY", "ROLLBACK"},
           InsertJob(j, r, op)
    PROVE  RowCore' /\ StillFollows
<1> USE DEF RowCore
<1> DEFINE t == TargetOf[r]
           src == FrozenSource(r, op)
<1>0. /\ t \in Target
      /\ heads[t] \in Job \cup {NoJob}
      /\ jobs[j] = NoRow
  BY TargetJobsAssumption DEF RowsTypeOK, RowsOK, InsertJob
<1>1. /\ src \in Job \cup {NoJob}
      /\ src # NoJob => Verified(src) /\ jobs[src].target = t
  <2>1. heads[t] # NoJob => Verified(heads[t]) /\ jobs[heads[t]].target = t
    BY <1>0 DEF HeadIsVerified
  <2>2. heads[t] # NoJob => /\ jobs[heads[t]].source \in Job \cup {NoJob}
                            /\ jobs[heads[t]].source # NoJob =>
                                 /\ Verified(jobs[heads[t]].source)
                                 /\ jobs[jobs[heads[t]].source].target = t
    BY <1>0, <2>1 DEF HeadIsVerified, RowsTypeOK, JobRow
  <2> QED BY <1>0, <2>1, <2>2 DEF FrozenSource, ExpectedSource, IsHeadRelease
<1>2. /\ jobs'[j] = [status |-> "QUEUED", release |-> r, target |-> t,
                     op |-> op, source |-> src]
      /\ \A i \in Job \ {j} : jobs'[i] = jobs[i]
      /\ heads' = heads
  BY DEF RowsTypeOK, InsertJob
<1>3. \A i \in Job : /\ Verified(i)' <=> Verified(i)
                     /\ Verified(i) => i # j
                     /\ Active(i)' <=> Active(i) \/ i = j
                     /\ Present(i)' <=> Present(i) \/ i = j
  BY <1>0, <1>2 DEF Verified, Active, Present, NoRow
<1>4. RowsTypeOK'
  <2>1. jobs' \in [Job -> JobRow]
    BY <1>0, <1>1 DEF RowsTypeOK, InsertJob, JobRow
  <2>2. relStatus' \in [Release -> ReleaseStatus]
    BY DEF RowsTypeOK, InsertJob, ReleaseStatus, Running
  <2>3. latest' \in [Target -> Job \cup {NoJob}]
    BY DEF RowsTypeOK, InsertJob
  <2> QED BY <2>1, <2>2, <2>3, <1>2 DEF RowsTypeOK
<1>5. RowsOK'
  BY <1>0, <1>2, <1>3 DEF RowsOK
<1>6. OneActivePerTarget'
  BY <1>2, <1>3 DEF OneActivePerTarget, InsertJob, TargetFree
<1>7. HeadIsVerified'
  <2>1. \A u \in Target : heads[u] # NoJob => heads[u] \in Job \ {j}
    BY <1>3 DEF HeadIsVerified, RowsTypeOK
  <2>2. ASSUME NEW i \in Job, jobs'[i].source # NoJob
        PROVE  Verified(jobs[i].source)' /\ jobs'[jobs'[i].source].target = jobs'[i].target
    <3>1. CASE i = j
      <4>1. jobs'[i].source = src /\ src \in Job \ {j}
        BY <3>1, <2>2, <1>1, <1>2, <1>3
      <4> QED BY <4>1, <3>1, <2>2, <1>1, <1>2, <1>3 DEF Verified
    <3>2. CASE i # j
      <4>1. jobs'[i].source = jobs[i].source /\ jobs[i].source \in Job \ {j}
        BY <3>2, <2>2, <1>2, <1>3 DEF HeadIsVerified, Verified
      <4> QED BY <4>1, <3>2, <2>2, <1>2, <1>3 DEF HeadIsVerified, Verified
    <3> QED BY <3>1, <3>2
  <2> QED BY <2>1, <2>2, <1>2, <1>3 DEF HeadIsVerified, Verified
<1>8. FrozenBasisStaysCurrent'
  <2>1. \A u \in Target : heads[u] # NoJob => heads[u] \in Job \ {j}
    BY <1>3 DEF HeadIsVerified, RowsTypeOK
  <2>2. \A q \in Release, o \in {"DEPLOY", "ROLLBACK"} :
           FrozenSource(q, o)' = FrozenSource(q, o)
    BY <2>1, <1>2, TargetJobsAssumption DEF FrozenSource, ExpectedSource, IsHeadRelease
  <2> SUFFICES ASSUME NEW i \in Job, Active(i)'
               PROVE  /\ jobs'[i].source = FrozenSource(jobs[i].release, jobs[i].op)'
                      /\ HeadSyncAccepted(i)'
    BY DEF FrozenBasisStaysCurrent
  <2>3. CASE i = j
    <3>1. jobs'[j].source = FrozenSource(r, op)'
      BY <2>2, <1>2
    <3>2. HeadSyncAccepted(j)'
      <4>1. CASE op = "DEPLOY"
        BY <4>1, <1>2 DEF HeadSyncAccepted
      <4>2. CASE op = "ROLLBACK"
        <5>1. /\ heads[t] \in Job \ {j}
              /\ src = ExpectedSource(r, t)
              /\ Verified(src)
              /\ src \in Job \ {j}
          BY <4>2, <2>1, <1>0, <1>3 DEF InsertJob, RollbackAdmitted, FrozenSource, Verified
        <5>2. jobs[heads[t]].release \in {r, jobs[src].release}
          BY <5>1 DEF ExpectedSource, IsHeadRelease
        <5>3. /\ jobs'[heads'[t]].release = jobs[heads[t]].release
              /\ jobs'[src].release = jobs[src].release
              /\ Verified(jobs[j].source)'
          BY <5>1, <1>2 DEF Verified
        <5>4. /\ jobs'[j].target = t /\ jobs'[j].source = src /\ jobs'[j].release = r
              /\ heads'[t] # NoJob
          BY <5>1, <1>2, TargetJobsAssumption
        <5> QED BY <5>2, <5>3, <5>4 DEF HeadSyncAccepted
      <4> QED BY <4>1, <4>2
    <3> QED BY <2>3, <3>1, <3>2, <1>2
  <2>4. CASE i # j
    <3>1. /\ Active(i) /\ jobs'[i] = jobs[i]
          /\ jobs[i].release \in Release
          /\ jobs[i].target \in Target
          /\ jobs[i].op \in {"DEPLOY", "ROLLBACK"}
          /\ jobs[i].source = FrozenSource(jobs[i].release, jobs[i].op)
          /\ HeadSyncAccepted(i)
      BY <2>4, <1>2, <1>3, TargetJobsAssumption
         DEF FrozenBasisStaysCurrent, RowsOK, RowsTypeOK, JobRow, Present, Active, Running
    <3>2. HeadSyncAccepted(i)'
      BY <3>1, <2>1, <1>2, <1>3 DEF HeadSyncAccepted, Verified
    <3> QED BY <3>1, <3>2, <2>2
  <2> QED BY <2>3, <2>4
<1>9. StillFollows
  <2> SUFFICES ASSUME NEW i \in Job, Active(i)', Active(i) => FollowsJob(i)
               PROVE  relStatus'[jobs'[i].release] =
                        IF jobs'[i].op = "ROLLBACK" /\ jobs'[i].status = "QUEUED"
                        THEN "ROLLBACK" ELSE jobs'[i].status
    BY DEF StillFollows, FollowsJob
  <2>1. CASE i = j
    BY <2>1, <1>2 DEF InsertJob, RowsTypeOK
  <2>2. CASE i # j
    <3>1. Active(i) /\ jobs'[i] = jobs[i] /\ jobs[i].release # r
      BY <2>2, <1>2, <1>3 DEF InsertJob, TargetFree, RowsOK, Present, Active, Running
    <3>2. relStatus'[jobs[i].release] = relStatus[jobs[i].release]
      BY <3>1 DEF InsertJob, RowsTypeOK, RowsOK, Present, Active, Running
    <3> QED BY <3>1, <3>2 DEF FollowsJob
  <2> QED BY <2>1, <2>2
<1> QED BY <1>4, <1>5, <1>6, <1>7, <1>8, <1>9

LEMMA InsertJobPreserves ==
    ASSUME RowInv, NEW j \in Job, NEW r \in Release, NEW op \in {"DEPLOY", "ROLLBACK"},
           InsertJob(j, r, op)
    PROVE  RowInv'
BY RowInvIsCore, InsertJobRows

-------------------------------------------------------------------------------
(***************************************************************************)
(* The history the rows implement                                          *)
(***************************************************************************)

\* A statement that ends no job and deletes none leaves the history alone.
LEMMA SameHistory ==
    ASSUME heads' = heads,
           \A i \in Job : Verified(i)' <=> Verified(i),
           \A i \in Job : Verified(i) => jobs'[i].source = jobs[i].source
    PROVE  UNCHANGED <<VerifiedJobs, Replaced, heads>>
BY DEF VerifiedJobs, Replaced

LEMMA NoJobsHistory ==
    ASSUME NoJobsInit
    PROVE  History!Init
<1>1. \A j \in Job : ~Verified(j)
  BY DEF NoJobsInit, NoRow, Verified
<1> QED BY <1>1 DEF NoJobsInit, History!Init, VerifiedJobs, Replaced

LEMMA InsertHistory ==
    ASSUME RowCore, NEW j \in Job, NEW r \in Release, NEW op \in {"DEPLOY", "ROLLBACK"},
           InsertJob(j, r, op)
    PROVE  UNCHANGED <<VerifiedJobs, Replaced, heads>>
BY SameHistory DEF RowCore, RowsTypeOK, JobRow, InsertJob, Verified, Present

LEMMA RunningHistory ==
    ASSUME RowCore, NEW j \in Job, NEW s \in Running, Active(j), SetStatus(j, s),
           UNCHANGED heads
    PROVE  UNCHANGED <<VerifiedJobs, Replaced, heads>>
BY SameHistory DEF RowCore, RowsTypeOK, JobRow, SetStatus, Verified, Active, Running

LEMMA FailedHistory ==
    ASSUME RowCore, NEW js \in SUBSET Job, \A j \in js : Active(j), FinishFailed(js)
    PROVE  UNCHANGED <<VerifiedJobs, Replaced, heads>>
<1> USE DEF RowCore, RowsTypeOK, JobRow
<1>1. heads' = heads /\ \A i \in Job : jobs'[i].op = jobs[i].op /\ jobs'[i].source = jobs[i].source
  BY DEF FinishFailed
<1>2. \A i \in Job : jobs'[i].status = IF i \in js THEN "FAILED" ELSE jobs[i].status
  BY DEF FinishFailed
<1>3. \A i \in Job : Verified(i)' <=> Verified(i)
  BY <1>1, <1>2 DEF Verified, Active, Running
<1> QED BY <1>1, <1>3, SameHistory

\* A DEPLOY that ends well is put on top of the head it was queued on; a
\* ROLLBACK of the head's release moves the head to what that head replaced,
\* and a ROLLBACK of a failed attempt leaves it where it is.
LEMMA SucceededHistory ==
    ASSUME RowCore, NEW j \in Job, Active(j), FinishSucceeded(j)
    PROVE  [History!Next]_(History!vars)
<1> USE DEF RowCore, RowsTypeOK, JobRow
<1> DEFINE t == jobs[j].target
<1>1. /\ jobs[j].release \in Release
      /\ t = TargetOf[jobs[j].release]
      /\ t \in Target
      /\ ~Verified(j)
      /\ jobs[j].op \in {"DEPLOY", "ROLLBACK"}
      /\ jobs[j].source = FrozenSource(jobs[j].release, jobs[j].op)
  BY TargetJobsAssumption
     DEF RowsOK, FrozenBasisStaysCurrent, Present, Active, Running, Verified
<1>2. /\ \A i \in Job \ {j} : jobs'[i] = jobs[i]
      /\ jobs'[j] = [jobs[j] EXCEPT !.status = SuccessStatus(j)]
      /\ heads' = [heads EXCEPT ![t] = SyncedHead(j)]
  BY DEF FinishSucceeded, SetStatus
<1>3. CASE jobs[j].op = "DEPLOY"
  <2>1. Verified(j)' /\ jobs'[j].source = heads[t] /\ heads' = [heads EXCEPT ![t] = j]
    BY <1>1, <1>2, <1>3 DEF Verified, SuccessStatus, SyncedHead, FrozenSource
  <2>2. VerifiedJobs' = VerifiedJobs \cup {j}
    BY <2>1, <1>2 DEF VerifiedJobs, Verified
  <2>3. Replaced' = [Replaced EXCEPT ![j] = heads[t]]
    BY <2>1, <1>2 DEF Replaced, Verified
  <2>4. j \notin VerifiedJobs
    BY <1>1 DEF VerifiedJobs
  <2>5. History!Verify(t, j)
    BY <2>1, <2>2, <2>3, <2>4 DEF History!Verify
  <2> QED BY <1>1, <2>5 DEF History!Next
<1>4. CASE jobs[j].op = "ROLLBACK"
  <2>1. /\ \A i \in Job : Verified(i)' <=> Verified(i)
        /\ \A i \in Job : Verified(i) => jobs'[i].source = jobs[i].source
    BY <1>1, <1>2, <1>4 DEF Verified, SuccessStatus
  <2>2. UNCHANGED <<VerifiedJobs, Replaced>>
    BY <2>1 DEF VerifiedJobs, Replaced
  <2>3. /\ heads' = [heads EXCEPT ![t] = jobs[j].source]
        /\ heads[t] # NoJob /\ heads[t] \in Job
        /\ jobs[j].source \in Job
    BY <1>1, <1>2, <1>4 DEF SyncedHead, FinishSucceeded, HeadSyncAccepted, Verified
  <2>4. CASE IsHeadRelease(jobs[j].release, t)
    <3>1. jobs[j].source = jobs[heads[t]].source /\ Verified(heads[t])
      BY <2>3, <2>4, <1>1, <1>4 DEF FrozenSource, ExpectedSource, HeadIsVerified
    <3>2. Replaced[heads[t]] = jobs[j].source /\ jobs[j].source # NoJob
      BY <3>1, <2>3, TargetJobsAssumption DEF Replaced
    <3>3. History!Revert(t)
      BY <2>2, <2>3, <3>2 DEF History!Revert
    <3> QED BY <1>1, <3>3 DEF History!Next
  <2>5. CASE ~IsHeadRelease(jobs[j].release, t)
    <3>1. jobs[j].source = heads[t]
      BY <2>5, <1>1, <1>4 DEF FrozenSource, ExpectedSource
    <3>2. heads' = heads
      BY <3>1, <2>3
    <3> QED BY <2>2, <3>2 DEF History!vars
  <2> QED BY <2>4, <2>5
<1> QED BY <1>1, <1>3, <1>4

-------------------------------------------------------------------------------
(***************************************************************************)
(* The history is acyclic                                                  *)
(***************************************************************************)

\* Heads and records only name verified deployments.
NamesVerified ==
    /\ \A t \in Target : heads[t] \in VerifiedJobs \cup {NoJob}
    /\ \A d \in VerifiedJobs : Replaced[d] \in VerifiedJobs \cup {NoJob}

HInv == History!TypeOK /\ NamesVerified /\ HistoryStaysAcyclic

LEMMA HInvInit ==
    ASSUME History!Init
    PROVE  HInv
BY DEF History!Init, HInv, History!TypeOK, NamesVerified, HistoryStaysAcyclic,
       History!HistoryHasNoCycle

\* A freshly verified deployment is nobody's predecessor, so it closes no cycle.
LEMMA VerifyPreserves ==
    ASSUME HInv, NEW t \in Target, NEW d \in Job, History!Verify(t, d)
    PROVE  HInv'
<1> USE TargetJobsAssumption DEF HInv, History!Verify
<1>1. History!TypeOK' /\ NamesVerified'
  BY DEF History!TypeOK, NamesVerified
<1>2. HistoryStaysAcyclic'
  <2> SUFFICES ASSUME NEW S \in SUBSET VerifiedJobs', S # {}
               PROVE  \E e \in S : Replaced'[e] \notin S
    BY DEF HistoryStaysAcyclic, History!HistoryHasNoCycle
  <2>1. CASE S \ {d} = {}
    <3>1. S = {d}
      BY <2>1
    <3>2. Replaced'[d] = heads[t] /\ heads[t] # d
      BY DEF History!TypeOK, NamesVerified
    <3> QED BY <3>1, <3>2
  <2>2. CASE S \ {d} # {}
    <3>1. PICK e \in S \ {d} : Replaced[e] \notin S \ {d}
      BY <2>2 DEF HistoryStaysAcyclic, History!HistoryHasNoCycle
    <3>2. Replaced'[e] = Replaced[e] /\ Replaced[e] # d
      BY <3>1 DEF History!TypeOK, NamesVerified
    <3> QED BY <3>1, <3>2
  <2> QED BY <2>1, <2>2
<1> QED BY <1>1, <1>2

LEMMA RevertPreserves ==
    ASSUME HInv, NEW t \in Target, History!Revert(t)
    PROVE  HInv'
<1>1. History!TypeOK' /\ NamesVerified'
  BY DEF HInv, History!Revert, History!TypeOK, NamesVerified
<1>2. HistoryStaysAcyclic'
  BY DEF HInv, History!Revert, HistoryStaysAcyclic, History!HistoryHasNoCycle
<1> QED BY <1>1, <1>2 DEF HInv

LEMMA ForgetPreserves ==
    ASSUME HInv, NEW gone \in SUBSET VerifiedJobs, History!Forget(gone)
    PROVE  HInv'
<1> USE DEF HInv, History!Forget
<1>1. History!TypeOK' /\ NamesVerified'
  BY DEF History!TypeOK, NamesVerified
<1>2. HistoryStaysAcyclic'
  <2> SUFFICES ASSUME NEW S \in SUBSET VerifiedJobs', S # {}
               PROVE  \E e \in S : Replaced'[e] \notin S
    BY DEF HistoryStaysAcyclic, History!HistoryHasNoCycle
  <2>1. PICK e \in S : Replaced[e] \notin S
    BY DEF HistoryStaysAcyclic, History!HistoryHasNoCycle
  <2> QED BY <2>1 DEF History!TypeOK
<1> QED BY <1>1, <1>2

\* Rolling a target back again and again comes to an end in every behaviour
\* of DeploymentHistory, for any number of deployments and targets: what
\* sync_verified_deployment_head records as a deployment's predecessor never
\* leads back to the deployment.
THEOREM HistoryIsAcyclic == ImplementsHistory => []HistoryStaysAcyclic
<1>1. HInv /\ [History!Next]_(History!vars) => HInv'
  <2> SUFFICES ASSUME HInv, [History!Next]_(History!vars)
               PROVE  HInv'
    OBVIOUS
  <2>1. CASE UNCHANGED History!vars
    BY <2>1 DEF HInv, History!TypeOK, NamesVerified, HistoryStaysAcyclic,
                History!HistoryHasNoCycle, History!vars
  <2>2. CASE History!Next
    BY <2>2, VerifyPreserves, RevertPreserves, ForgetPreserves DEF History!Next
  <2> QED BY <2>1, <2>2
<1>2. HInv => HistoryStaysAcyclic
  BY DEF HInv
<1> QED BY <1>1, <1>2, HInvInit, PTL DEF ImplementsHistory, History!Spec

===============================================================================

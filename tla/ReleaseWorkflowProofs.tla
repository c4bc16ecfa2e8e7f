------------------------ MODULE ReleaseWorkflowProofs ------------------------
(***************************************************************************)
(* ReleaseWorkflow proved for any numbers of users, releases, targets and  *)
(* jobs.  The rows keep the invariant of TargetJobsProofs.  The rest rests *)
(* on the order of created_at: a release's unfinished job is newer than    *)
(* its other jobs, so the job a retry finds as the newest of the target is *)
(* the one its columns speak of.                                           *)
(***************************************************************************)
EXTENDS ReleaseWorkflow, TargetJobsProofs

\* created_at orders what has begun: any jobs of a target have a newest one.
OrderInv ==
    /\ \A i \in Job : older[i] \subseteq {j \in Job : Present(j) \/ Reserved(j)}
    /\ \A i, j \in Job : i \in older[j] => j \notin older[i]
    /\ \A t \in Target : \A S \in SUBSET Begun(t) :
          S # {} => \E j \in S : S \ {j} \subseteq older[j]

LatestInv ==
    \A t \in Target :
        IF JobsOn(t) = {} THEN latest[t] = NoJob
        ELSE latest[t] \in JobsOn(t) /\ JobsOn(t) \ {latest[t]} \subseteq older[latest[t]]

\* A quick release that stores its artifact is invisible, a release whose
\* deployment waits for an upload is not quick and can be edited, and either
\* owns the identity of the job to come.
UploadOK(r) ==
    /\ relStatus[r] \in {"ABSENT", "UPLOADED", "REJECTED"}
    /\ relStatus[r] = "ABSENT" => uploads[r].policy = required
    /\ relStatus[r] # "ABSENT" => ~req[r].quick
    /\ uploads[r].job \in Job
    /\ ~Present(uploads[r].job)
    /\ JobsOf(r) \subseteq older[uploads[r].job]
    /\ \A q \in Release : uploads[q].job = uploads[r].job => q = r

UploadInv == \A r \in Release : uploads[r] # NoUpload => UploadOK(r)

NewestOwn(k) == JobsOf(jobs[k].release) \ {k} \subseteq older[k]

\* Only InvalidateRetry lets a release show something else than its unfinished
\* job, and only once it was led astray.
LifeOK(r) ==
    /\ relStatus[r] = "ABSENT" => JobsOf(r) = {} /\ r \notin astray
    /\ relStatus[r] \in Editable \cup {"ABSENT"} =>
          req[r].op = "DEPLOY" /\ req[r].retry = NoJob
    /\ relStatus[r] = "APPROVED" => ~DeploysOnApproval(r)
    /\ \A j \in JobsOf(r) : Active(j) =>
          NewestOwn(j) /\ (FollowsJob(j) \/ relStatus[r] = "FAILED")

RollbackOK(r) ==
    /\ req[r].op = "DEPLOY" => req[r].base = "NONE"
    /\ req[r].op = "ROLLBACK" => req[r].base # "NONE" /\ Verified(req[r].source)

\* A release is edited only between a rejection and its next submission.
RevOK(r) ==
    \/ relStatus[r] \notin Requested \cup {"ABSENT"}
    \/ req[r].retry # NoJob
    \/ req[r].op = "ROLLBACK"
    => \A k \in JobsOf(r) : NewestOwn(k) /\ jobs[k].op = "DEPLOY" => bound[k].rev = req[r].rev

OrderlyOK(r) ==
    /\ \A j \in JobsOf(r) : Active(j) => FollowsJob(j) /\ jobs[j].op = req[r].op
    /\ \A j \in JobsOf(r) : Verified(j) =>
          /\ bound[j].rev = req[r].rev
          /\ req[r].op = "DEPLOY" => relStatus[r] = "SUCCESS"
          /\ req[r].op = "ROLLBACK" => req[r].base = "SUCCESS"
    /\ req[r].retry # NoJob => req[r].op = "DEPLOY" /\ relStatus[r] \in UnderApproval
    /\ req[r].op = "ROLLBACK" /\ relStatus[r] = "FAILED" =>
          \E j \in JobsOf(r) : jobs[j].op = "ROLLBACK" /\ NewestOwn(j)

\* What is under review is what was submitted, and an approval is another's.
ReviewOK(r) ==
    /\ relStatus[r] \in UnderApproval =>
          /\ submitted[r].op = req[r].op
          /\ submitted[r].retry = req[r].retry
          /\ req[r].op = "DEPLOY" =>
                submitted[r].source = NoJob /\ submitted[r].rev = req[r].rev
          /\ req[r].op = "ROLLBACK" =>
                /\ submitted[r].source = req[r].source
                /\ jobs[req[r].source].release \notin astray =>
                      submitted[r].rev = bound[req[r].source].rev
    /\ relStatus[r] = "APPROVED" =>
          req[r].approver # NoUser /\ (AllowSelfApproval \/ req[r].approver # Requester(r))

ReqOK(r) ==
    /\ LifeOK(r)
    /\ RollbackOK(r)
    /\ RevOK(r)
    /\ r \notin astray => OrderlyOK(r) /\ ReviewOK(r)

JobOK(j) ==
    /\ ~Present(j) => bound[j] = Unbound
    /\ Present(j) /\ jobs[j].op = "ROLLBACK" => jobs[j].source # NoJob

WInv ==
    /\ TypeOK
    /\ RowCore
    /\ OrderInv
    /\ LatestInv
    /\ UploadInv
    /\ \A r \in Release : ReqOK(r)
    /\ \A j \in Job : JobOK(j)
    /\ QuickReplacesItsBase
    /\ BoundContentIsTheSame

LEMMA WInvInit == Init => WInv
<1> SUFFICES ASSUME Init PROVE WInv
  OBVIOUS
<1> USE DEF Init
<1>1. RowCore
  BY RowInvInit, RowInvIsCore DEF ReleaseStatus
<1>2. \A r \in Release : NewRequest(NoUser) \in Request
  BY ReleaseWorkflowAssumption DEF NewRequest, Request
<1>3. TypeOK
  BY <1>1, <1>2, ReleaseWorkflowAssumption
     DEF TypeOK, RowCore, Unbound, Binding, NoUpload, Upload, NoReview, Review
<1>4. /\ \A j \in Job : ~Present(j) /\ ~Active(j) /\ ~Verified(j) /\ ~Reserved(j)
      /\ \A t \in Target : JobsOn(t) = {} /\ Begun(t) = {}
      /\ \A r \in Release : JobsOf(r) = {}
  BY TargetJobsAssumption
     DEF NoJobsInit, NoRow, Present, Active, Verified, Running, Reserved, NoUpload,
         JobsOn, Begun, JobsOf
<1>5. OrderInv
  BY <1>4 DEF OrderInv
<1>6. LatestInv /\ UploadInv
  BY <1>4 DEF LatestInv, UploadInv, NoJobsInit
<1>7. ASSUME NEW r \in Release
      PROVE  ReqOK(r)
  BY <1>4 DEF ReqOK, LifeOK, RollbackOK, RevOK, OrderlyOK, ReviewOK, NewRequest, UnderApproval, InReview
<1>8. (\A j \in Job : JobOK(j)) /\ QuickReplacesItsBase /\ BoundContentIsTheSame
  BY <1>4 DEF JobOK, QuickReplacesItsBase, BoundContentIsTheSame, NoJobsInit, NoRow, Unbound
<1> QED BY <1>1, <1>3, <1>5, <1>6, <1>7, <1>8 DEF WInv

-------------------------------------------------------------------------------
(***************************************************************************)
(* Facts about states                                                      *)
(***************************************************************************)

LEMMA OwnJobs ==
    ASSUME RowCore, NEW r \in Release, NEW j \in JobsOf(r)
    PROVE  /\ j \in Job /\ Present(j)
           /\ jobs[j].release = r
           /\ jobs[j].target = TargetOf[r] /\ TargetOf[r] \in Target
           /\ j \in JobsOn(TargetOf[r])
BY TargetJobsAssumption DEF JobsOf, JobsOn, RowCore, RowsOK, NoRow

LEMMA ActiveIsPresent ==
    ASSUME NEW j \in Job
    PROVE  /\ Active(j) => Present(j)
           /\ Verified(j) => Present(j) /\ ~Active(j)
BY DEF Active, Present, Verified, Running

\* A release has one newest job.
LEMMA OneNewestOwn ==
    ASSUME OrderInv, RowCore, NEW r \in Release, NEW i \in JobsOf(r), NEW j \in JobsOf(r),
           NewestOwn(i), NewestOwn(j)
    PROVE  i = j
<1>1. jobs[i].release = r /\ jobs[j].release = r /\ i \in Job /\ j \in Job
  BY OwnJobs
<1> QED BY <1>1 DEF NewestOwn, OrderInv

\* The newest job of a target is the newest of its release.
LEMMA LatestIsNewestOwn ==
    ASSUME RowCore, LatestInv, NEW t \in Target, latest[t] # NoJob
    PROVE  /\ latest[t] \in Job /\ Present(latest[t])
           /\ jobs[latest[t]].release \in Release
           /\ TargetOf[jobs[latest[t]].release] = t
           /\ NewestOwn(latest[t])
<1>1. latest[t] \in JobsOn(t) /\ JobsOn(t) \ {latest[t]} \subseteq older[latest[t]]
  BY DEF LatestInv
<1>2. /\ latest[t] \in Job /\ Present(latest[t]) /\ jobs[latest[t]].release \in Release
      /\ TargetOf[jobs[latest[t]].release] = t
  BY <1>1, TargetJobsAssumption DEF JobsOn, RowCore, RowsOK, NoRow
<1>3. JobsOf(jobs[latest[t]].release) \subseteq JobsOn(t)
  BY <1>2, OwnJobs
<1> QED BY <1>1, <1>2, <1>3 DEF NewestOwn

\* Something unfinished keeps its target busy and its release out of review.
LEMMA ActiveFacts ==
    ASSUME WInv, NEW r \in Release, NEW j \in JobsOf(r), Active(j)
    PROVE  /\ ~TargetFree(TargetOf[r])
           /\ NewestOwn(j)
           /\ relStatus[r] \in Running \cup {"QUEUED", "FAILED"}
           /\ r \notin astray => relStatus[r] \in Running \cup {"QUEUED"}
           /\ ~LatestFailed(r, TargetOf[r], "DEPLOY")
<1>1. j \in Job /\ jobs[j].release = r /\ jobs[j].target = TargetOf[r] /\ TargetOf[r] \in Target
  BY OwnJobs DEF WInv
<1>2. ~TargetFree(TargetOf[r])
  BY <1>1 DEF TargetFree
<1>3. /\ NewestOwn(j)
      /\ FollowsJob(j) \/ relStatus[r] = "FAILED"
      /\ r \notin astray => FollowsJob(j)
  BY DEF WInv, ReqOK, LifeOK, OrderlyOK
<1>4. FollowsJob(j) => relStatus[r] \in Running \cup {"QUEUED"}
  BY <1>1 DEF FollowsJob, Active, Running
<1>5. ~LatestFailed(r, TargetOf[r], "DEPLOY")
  <2> SUFFICES ASSUME LatestFailed(r, TargetOf[r], "DEPLOY") PROVE FALSE
    OBVIOUS
  <2>1. latest[TargetOf[r]] \in JobsOf(r) /\ NewestOwn(latest[TargetOf[r]])
    BY <1>1, LatestIsNewestOwn DEF WInv, LatestFailed, JobsOf
  <2>2. latest[TargetOf[r]] = j
    BY <2>1, <1>3, OneNewestOwn DEF WInv
  <2> QED BY <2>2 DEF LatestFailed, Active, Running
<1> QED BY <1>2, <1>3, <1>4, <1>5

-------------------------------------------------------------------------------
(***************************************************************************)
(* A release whose own columns and jobs stay as they are                   *)
(***************************************************************************)

Untouched(q) ==
    /\ relStatus'[q] = relStatus[q]
    /\ req'[q] = req[q]
    /\ submitted'[q] = submitted[q]
    /\ JobsOf(q)' = JobsOf(q)
    /\ \A k \in JobsOf(q) : /\ jobs'[k] = jobs[k]
                            /\ bound'[k] = bound[k]
                            /\ NewestOwn(k)' <=> NewestOwn(k)

LEMMA BystanderKeeps ==
    ASSUME NEW q \in Release, ReqOK(q), Untouched(q), RowCore,
           q \in astray' <=> q \in astray,
           req[q].op = "ROLLBACK" =>
               /\ Verified(req[q].source)'
               /\ bound'[req[q].source] = bound[req[q].source]
               /\ jobs'[req[q].source].release = jobs[req[q].source].release
               /\ jobs[req[q].source].release \in astray =>
                     jobs[req[q].source].release \in astray'
    PROVE  ReqOK(q)'
<1>1. \A k \in JobsOf(q) : /\ jobs[k].release = q
                           /\ Active(k)' <=> Active(k)
                           /\ Verified(k)' <=> Verified(k)
                           /\ FollowsJob(k)' <=> FollowsJob(k)
  BY OwnJobs DEF Untouched, Active, Verified, FollowsJob
<1>2. LifeOK(q)'
  BY <1>1 DEF Untouched, ReqOK, LifeOK, DeploysOnApproval
<1>3. RollbackOK(q)'
  BY DEF Untouched, ReqOK, RollbackOK
<1>4. RevOK(q)'
  BY <1>1 DEF Untouched, ReqOK, RevOK
<1>5. q \notin astray => OrderlyOK(q)'
  BY <1>1 DEF Untouched, ReqOK, OrderlyOK
<1>6. q \notin astray => ReviewOK(q)'
  BY DEF Untouched, ReqOK, ReviewOK, Requester
<1> QED BY <1>2, <1>3, <1>4, <1>5, <1>6 DEF ReqOK

\* A step that writes no job; quick releases may come and go in the order.
LEMMA NoJobWritten ==
    ASSUME WInv, NEW r \in Release, TypeOK', OrderInv', UploadInv',
           UNCHANGED <<jobs, latest, heads, bound, astray>>,
           \A i, k \in Job : Present(i) /\ Present(k) => (i \in older'[k] <=> i \in older[k]),
           \A q \in Release \ {r} : /\ relStatus'[q] = relStatus[q]
                                    /\ req'[q] = req[q]
                                    /\ submitted'[q] = submitted[q],
           \/ JobsOf(r) = {}
           \/ req'[r].quick = req[r].quick /\ req'[r].quickBase = req[r].quickBase,
           ReqOK(r)'
    PROVE  WInv'
<1>1. RowCore'
  BY ZenonT(60) DEF WInv, TypeOK, RowCore, RowsTypeOK, RowsOK, OneActivePerTarget, HeadIsVerified,
         FrozenBasisStaysCurrent, Present, Active, Verified, FrozenSource, ExpectedSource,
         IsHeadRelease, HeadSyncAccepted
<1>2. LatestInv'
  <2>1. \A t \in Target : JobsOn(t)' = JobsOn(t)
    BY DEF JobsOn
  <2>2. \A t \in Target : \A k \in JobsOn(t) : k \in Job /\ Present(k)
    BY TargetJobsAssumption DEF JobsOn, WInv, RowCore, RowsOK, NoRow
  <2> QED BY <2>1, <2>2 DEF WInv, LatestInv
<1>3. ASSUME NEW q \in Release
      PROVE  ReqOK(q)'
  <2>1. CASE q = r
    BY <2>1
  <2>2. CASE q # r
    <3>1. JobsOf(q)' = JobsOf(q)
      BY DEF JobsOf
    <3>2. \A k \in JobsOf(q) : k \in Job /\ Present(k) /\ jobs[k].release = q
      BY OwnJobs DEF WInv
    <3>3. \A k \in JobsOf(q) : NewestOwn(k)' <=> NewestOwn(k)
      BY <3>1, <3>2 DEF NewestOwn
    <3>4. Untouched(q)
      BY <2>2, <3>1, <3>3 DEF Untouched
    <3>5. req[q].op = "ROLLBACK" => Verified(req[q].source)'
      BY <2>2 DEF WInv, ReqOK, RollbackOK, Verified
    <3> QED BY <3>4, <3>5, BystanderKeeps DEF WInv
  <2> QED BY <2>1, <2>2
<1>4. \A j \in Job : JobOK(j)'
  BY DEF WInv, JobOK, Present
<1>5. QuickReplacesItsBase'
  <2> SUFFICES ASSUME NEW j \in Job, Present(j), jobs[j].op = "DEPLOY",
                      req'[jobs[j].release].quick
               PROVE  jobs[j].source = req'[jobs[j].release].quickBase
    BY DEF QuickReplacesItsBase, Present
  <2>1. jobs[j].release \in Release /\ j \in JobsOf(jobs[j].release)
    BY DEF WInv, RowCore, RowsOK, JobsOf
  <2> QED BY <2>1 DEF WInv, QuickReplacesItsBase
<1>6. BoundContentIsTheSame'
  BY DEF WInv, BoundContentIsTheSame, RepeatsContent
<1> QED BY <1>1, <1>2, <1>3, <1>4, <1>5, <1>6 DEF WInv

\* Nobody begins or stops to wait.
SameUploads ==
    \A q \in Release : /\ uploads'[q].job = uploads[q].job
                       /\ uploads'[q].policy = uploads[q].policy
                       /\ uploads'[q] = NoUpload <=> uploads[q] = NoUpload

\* A step that writes nothing but the row of one release.
RowOnly(r) ==
    /\ UNCHANGED <<jobs, latest, heads, older, bound, required, astray>>
    /\ SameUploads
    /\ \A q \in Release \ {r} : /\ relStatus'[q] = relStatus[q]
                                /\ req'[q] = req[q]
                                /\ submitted'[q] = submitted[q]

LEMMA RowOnlyKeeps ==
    ASSUME WInv, NEW r \in Release, RowOnly(r), TypeOK',
           uploads[r] # NoUpload => relStatus'[r] \in {"UPLOADED", "REJECTED"} /\ ~req'[r].quick,
           \/ JobsOf(r) = {}
           \/ req'[r].quick = req[r].quick /\ req'[r].quickBase = req[r].quickBase,
           ReqOK(r)'
    PROVE  WInv'
<1> USE DEF RowOnly
<1>1. OrderInv'
  <2>1. \A j \in Job : (Present(j)' <=> Present(j)) /\ (Reserved(j)' <=> Reserved(j))
    BY DEF Present, Reserved, SameUploads
  <2>2. \A t \in Target : Begun(t)' = Begun(t)
    BY DEF Begun, JobsOn, SameUploads
  <2>3. OrderInv /\ older' = older
    BY DEF WInv
  <2> HIDE DEF RowOnly
  <2> QED BY <2>1, <2>2, <2>3 DEF OrderInv
<1>2. UploadInv'
  <2> SUFFICES ASSUME NEW q \in Release, uploads'[q] # NoUpload PROVE UploadOK(q)'
    BY DEF UploadInv
  <2>1. UploadOK(q) /\ uploads[q] # NoUpload
    BY DEF WInv, UploadInv, SameUploads
  <2>2. /\ relStatus'[q] \in {"ABSENT", "UPLOADED", "REJECTED"}
        /\ relStatus'[q] = "ABSENT" => uploads'[q].policy = required'
        /\ relStatus'[q] # "ABSENT" => ~req'[q].quick
    BY <2>1 DEF UploadOK, SameUploads
  <2>3. JobsOf(q)' = JobsOf(q) /\ \A k \in Job : Present(k)' <=> Present(k)
    BY DEF JobsOf, Present
  <2> QED BY <2>1, <2>2, <2>3 DEF UploadOK, SameUploads
<1> QED BY <1>1, <1>2, NoJobWritten

LEMMA SameJobs ==
    ASSUME UNCHANGED <<jobs, older>>
    PROVE  /\ \A q \in Release : JobsOf(q)' = JobsOf(q)
           /\ \A k \in Job : /\ Active(k)' <=> Active(k)
                             /\ Verified(k)' <=> Verified(k)
                             /\ NewestOwn(k)' <=> NewestOwn(k)
BY DEF JobsOf, Active, Verified, NewestOwn

LEMMA SetReleaseIs ==
    ASSUME TypeOK, NEW r \in Release, NEW s \in ReleaseStatus, SetRelease(r, s)
    PROVE  /\ relStatus' \in [Release -> ReleaseStatus]
           /\ relStatus'[r] = s
           /\ \A q \in Release \ {r} : relStatus'[q] = relStatus[q]
BY DEF TypeOK, RowsTypeOK, SetRelease

\* A release that can be edited has no unfinished job and is asked for nothing.
LEMMA EditableFacts ==
    ASSUME WInv, NEW r \in Release, relStatus[r] \in Editable \cup {"ABSENT"}
    PROVE  /\ req[r].op = "DEPLOY" /\ req[r].retry = NoJob /\ req[r].base = "NONE"
           /\ \A j \in JobsOf(r) : ~Active(j)
           /\ r \notin astray => \A j \in JobsOf(r) : ~Verified(j)
<1>1. req[r].op = "DEPLOY" /\ req[r].retry = NoJob /\ req[r].base = "NONE"
  BY DEF WInv, ReqOK, LifeOK, RollbackOK
<1>2. \A j \in JobsOf(r) : ~Active(j)
  BY ActiveFacts DEF Editable, Running
<1>3. r \notin astray => \A j \in JobsOf(r) : ~Verified(j)
  BY <1>1 DEF WInv, ReqOK, OrderlyOK, Editable
<1> QED BY <1>1, <1>2, <1>3

-------------------------------------------------------------------------------
(***************************************************************************)
(* Preparing a release                                                     *)
(***************************************************************************)

LEMMA CreateReleaseKeeps ==
    ASSUME WInv, NEW r \in Release, NEW u \in User, CreateRelease(u, r)
    PROVE  WInv'
<1> USE DEF CreateRelease
<1>1. /\ relStatus' \in [Release -> ReleaseStatus]
      /\ relStatus'[r] = "DRAFT"
      /\ \A q \in Release \ {r} : relStatus'[q] = relStatus[q]
  BY SetReleaseIs DEF WInv, ReleaseStatus, Requested
<1>2. /\ req' \in [Release -> Request]
      /\ req'[r] = NewRequest(u)
      /\ \A q \in Release \ {r} : req'[q] = req[q]
  BY ReleaseWorkflowAssumption DEF WInv, TypeOK, NewRequest, Request
<1>3. TypeOK'
  BY <1>1, <1>2 DEF WInv, TypeOK, RowsTypeOK
<1>4. JobsOf(r) = {} /\ JobsOf(r)' = {}
  BY SameJobs DEF WInv, ReqOK, LifeOK
<1>5. ReqOK(r)'
  BY <1>1, <1>2, <1>4
     DEF ReqOK, LifeOK, RollbackOK, RevOK, OrderlyOK, ReviewOK, NewRequest, UnderApproval, InReview,
         DeploysOnApproval, Requested
<1>6. RowOnly(r)
  BY <1>1, <1>2 DEF RowOnly, SameUploads
<1> QED BY <1>3, <1>4, <1>5, <1>6, RowOnlyKeeps

LEMMA EditKeeps ==
    ASSUME WInv, NEW r \in Release, UploadArtifact(r) \/ UpdateRelease(r)
    PROVE  WInv'
<1>1. /\ relStatus[r] \in Editable /\ req[r].rev < MaxRev
      /\ relStatus' \in [Release -> ReleaseStatus]
      /\ relStatus'[r] \in Editable
      /\ \A q \in Release \ {r} : relStatus'[q] = relStatus[q]
      /\ relStatus'[r] \in {relStatus[r], "UPLOADED"}
      /\ req' = [req EXCEPT ![r].rev = @ + 1]
      /\ \/ UNCHANGED uploads
         \/ uploads[r] # NoUpload /\ uploads' = [uploads EXCEPT ![r].stale = TRUE]
      /\ UNCHANGED <<jobs, latest, heads, older, bound, required, routed, submitted, astray>>
  <2>1. CASE UploadArtifact(r)
    BY <2>1, SetReleaseIs DEF WInv, UploadArtifact, ReleaseStatus, Requested, Editable
  <2>2. CASE UpdateRelease(r)
    BY <2>2, ReleaseWorkflowAssumption
       DEF WInv, TypeOK, RowsTypeOK, Request, UpdateRelease, rowVars
  <2> QED BY <2>1, <2>2
<1>2. /\ req' \in [Release -> Request]
      /\ req'[r] = [req[r] EXCEPT !.rev = @ + 1]
      /\ \A q \in Release \ {r} : req'[q] = req[q]
  <2>1. req \in [Release -> Request] /\ MaxRev \in Nat
    BY ReleaseWorkflowAssumption DEF WInv, TypeOK
  <2>2. req[r].rev \in 0 .. MaxRev
    BY <2>1 DEF Request
  <2>3. req[r].rev + 1 \in 0 .. MaxRev
    BY <2>1, <2>2, <1>1
  <2>4. [req[r] EXCEPT !.rev = @ + 1] \in Request
    BY <2>1, <2>3 DEF Request
  <2> QED BY <2>1, <2>4, <1>1
<1>3. uploads' \in [Release -> Upload] /\ SameUploads
  <2>1. uploads \in [Release -> Upload]
    BY DEF WInv, TypeOK
  <2>2. CASE UNCHANGED uploads
    BY <2>1, <2>2 DEF SameUploads
  <2>3. CASE uploads[r] # NoUpload /\ uploads' = [uploads EXCEPT ![r].stale = TRUE]
    <3> DEFINE w == [uploads[r] EXCEPT !.stale = TRUE]
    <3>1. uploads' = [uploads EXCEPT ![r] = w] /\ uploads[r] \in Upload
      BY <2>1, <2>3
    <3>2. w \in Upload /\ w.job = uploads[r].job /\ w.policy = uploads[r].policy
      BY <3>1 DEF Upload
    <3>3. w # NoUpload
      BY <3>1 DEF NoUpload, Upload
    <3> QED BY <2>1, <2>3, <3>1, <3>2, <3>3 DEF SameUploads
  <2> QED BY <1>1, <2>2, <2>3
<1>31. TypeOK'
  BY <1>1, <1>2, <1>3 DEF WInv, TypeOK, RowsTypeOK
<1>4. /\ req'[r].op = "DEPLOY" /\ req'[r].retry = NoJob /\ req'[r].base = "NONE"
      /\ req'[r].quick = req[r].quick /\ req'[r].quickBase = req[r].quickBase
      /\ \A j \in JobsOf(r)' : ~Active(j)' /\ (r \notin astray => ~Verified(j)')
      /\ uploads[r] # NoUpload => relStatus'[r] \in {"UPLOADED", "REJECTED"} /\ ~req'[r].quick
  <2>1. /\ req[r].op = "DEPLOY" /\ req[r].retry = NoJob /\ req[r].base = "NONE"
        /\ \A j \in JobsOf(r) : ~Active(j)
        /\ r \notin astray => \A j \in JobsOf(r) : ~Verified(j)
    BY <1>1, EditableFacts
  <2>2. req[r] \in Request
    BY DEF WInv, TypeOK
  <2>3. /\ req'[r].op = req[r].op /\ req'[r].retry = req[r].retry /\ req'[r].base = req[r].base
        /\ req'[r].quick = req[r].quick /\ req'[r].quickBase = req[r].quickBase
    BY <2>2, <1>2 DEF Request
  <2>4. uploads[r] # NoUpload => relStatus'[r] \in {"UPLOADED", "REJECTED"} /\ ~req[r].quick
    BY <1>1 DEF WInv, UploadInv, UploadOK, Editable
  <2>5. \A j \in JobsOf(r) : j \in Job
    BY DEF JobsOf
  <2> QED BY <2>1, <2>3, <2>4, <2>5, <1>1, SameJobs
<1>5. ReqOK(r)'
  BY <1>1, <1>4
     DEF ReqOK, LifeOK, RollbackOK, RevOK, OrderlyOK, ReviewOK, UnderApproval, InReview,
         Requested, Editable
<1>6. RowOnly(r)
  BY <1>1, <1>2, <1>3 DEF RowOnly
<1> QED BY <1>31, <1>4, <1>5, <1>6, RowOnlyKeeps

\* Routing, the policy and stuttering leave everything else alone.
LEMMA PolicyKeeps ==
    ASSUME WInv, required' \in BOOLEAN, routed' \subseteq Release,
           \/ required' = required
           \/ \A r \in Release : relStatus[r] = "ABSENT" => uploads[r] = NoUpload,
           UNCHANGED <<relStatus, jobs, latest, heads, req, older, bound, uploads, submitted, astray>>
    PROVE  WInv'
<1>1. TypeOK'
  BY DEF WInv, TypeOK, RowsTypeOK
<1>2. RowCore'
  BY DEF WInv, TypeOK, RowCore, RowsTypeOK, RowsOK, OneActivePerTarget, HeadIsVerified,
         FrozenBasisStaysCurrent, Present, Active, Verified, FrozenSource, ExpectedSource,
         IsHeadRelease, HeadSyncAccepted
<1>3. OrderInv' /\ LatestInv' /\ UploadInv'
  <2>1. OrderInv'
    BY DEF WInv, OrderInv, Reserved, Begun, JobsOn, Present
  <2>2. LatestInv'
    BY DEF WInv, LatestInv, JobsOn
  <2>3. UploadInv'
    BY DEF WInv, UploadInv, UploadOK, Present, JobsOf
  <2> QED BY <2>1, <2>2, <2>3
<1>4. ASSUME NEW r \in Release
      PROVE  ReqOK(r)'
  <2>1. ReqOK(r) /\ RowCore
    BY DEF WInv
  <2>2. Untouched(r)
    BY DEF Untouched, JobsOf, NewestOwn
  <2>3. req[r].op = "ROLLBACK" => Verified(req[r].source)'
    BY <2>1 DEF ReqOK, RollbackOK, Verified
  <2> QED BY <2>1, <2>2, <2>3, BystanderKeeps
<1>5. (\A j \in Job : JobOK(j)') /\ QuickReplacesItsBase' /\ BoundContentIsTheSame'
  BY DEF WInv, JobOK, QuickReplacesItsBase, BoundContentIsTheSame, RepeatsContent, Present
<1> QED BY <1>1, <1>2, <1>3, <1>4, <1>5 DEF WInv

-------------------------------------------------------------------------------
(***************************************************************************)
(* Requests and reviews                                                    *)
(***************************************************************************)

\* No job of a release under approval is unfinished.
LEMMA ReviewedFacts ==
    ASSUME WInv, NEW r \in Release, relStatus[r] \in UnderApproval
    PROVE  /\ uploads[r] = NoUpload
           /\ \A j \in JobsOf(r) : ~Active(j)
           /\ r \notin astray =>
                 \A j \in JobsOf(r) : Verified(j) =>
                    /\ bound[j].rev = req[r].rev
                    /\ req[r].op = "ROLLBACK" /\ req[r].base = "SUCCESS"
<1>1. uploads[r] = NoUpload
  BY DEF WInv, UploadInv, UploadOK, UnderApproval, InReview
<1>2. \A j \in JobsOf(r) : ~Active(j)
  BY ActiveFacts DEF UnderApproval, InReview, Running
<1>3. req[r].op \in {"DEPLOY", "ROLLBACK"}
  BY DEF WInv, TypeOK, Request
<1>4. r \notin astray =>
        \A j \in JobsOf(r) : Verified(j) =>
           /\ bound[j].rev = req[r].rev
           /\ req[r].op = "ROLLBACK" /\ req[r].base = "SUCCESS"
  BY <1>3 DEF WInv, ReqOK, OrderlyOK, UnderApproval, InReview
<1> QED BY <1>1, <1>2, <1>4

LEMMA InvalidateRetryKeeps ==
    ASSUME WInv, NEW r \in Release, InvalidateRetry(r)
    PROVE  WInv'
<1> USE DEF InvalidateRetry
<1>1. /\ relStatus' \in [Release -> ReleaseStatus]
      /\ relStatus'[r] = "FAILED"
      /\ \A q \in Release \ {r} : relStatus'[q] = relStatus[q]
  BY SetReleaseIs DEF WInv, ReleaseStatus, Terminal
<1>2. /\ req' \in [Release -> Request]
      /\ req'[r] = [req[r] EXCEPT !.retry = NoJob, !.by = NoUser, !.approver = NoUser]
      /\ \A q \in Release \ {r} : req'[q] = req[q]
      /\ req[r] \in Request
  <2>1. req \in [Release -> Request] /\ req[r] \in Request
    BY DEF WInv, TypeOK
  <2>2. req' = [req EXCEPT ![r] = [req[r] EXCEPT !.retry = NoJob, !.by = NoUser, !.approver = NoUser]]
    BY <2>1
  <2>3. [req[r] EXCEPT !.retry = NoJob, !.by = NoUser, !.approver = NoUser] \in Request
    BY <2>1 DEF Request
  <2> QED BY <2>1, <2>2, <2>3
<1>3. /\ req'[r].op = req[r].op /\ req'[r].base = req[r].base /\ req'[r].source = req[r].source
      /\ req'[r].rev = req[r].rev /\ req'[r].retry = NoJob
      /\ req'[r].quick = req[r].quick /\ req'[r].quickBase = req[r].quickBase
  BY <1>2 DEF Request
<1>4. TypeOK'
  BY <1>1, <1>2 DEF WInv, TypeOK, RowsTypeOK
<1>5. \A j \in JobsOf(r) : j \in Job /\ jobs[j].release = r
  BY DEF JobsOf
<1>6. LifeOK(r)'
  BY <1>1, <1>3, <1>5, SameJobs DEF WInv, ReqOK, LifeOK, Editable
<1>7. RollbackOK(r)'
  BY <1>3, SameJobs DEF WInv, ReqOK, RollbackOK, Verified
<1>8. RevOK(r)'
  BY <1>3, <1>5, SameJobs DEF WInv, ReqOK, RevOK
<1>9. ASSUME r \notin astray
      PROVE  OrderlyOK(r)' /\ ReviewOK(r)'
  <2>1. req[r].op = "DEPLOY" /\ relStatus[r] \in UnderApproval
    BY <1>9 DEF WInv, ReqOK, OrderlyOK
  <2>2. \A j \in JobsOf(r) : ~Active(j) /\ ~Verified(j)
    BY <1>9, <2>1, ReviewedFacts
  <2> QED BY <1>1, <1>3, <1>5, <2>1, <2>2, SameJobs
          DEF OrderlyOK, ReviewOK, UnderApproval, InReview
<1>10. uploads[r] = NoUpload
  <2>1. relStatus[r] \notin Editable \cup {"ABSENT"}
    BY DEF WInv, ReqOK, LifeOK
  <2> QED BY <2>1 DEF WInv, UploadInv, UploadOK, Editable
<1>11. RowOnly(r)
  BY <1>1, <1>2 DEF RowOnly, SameUploads
<1> QED BY <1>3, <1>4, <1>6, <1>7, <1>8, <1>9, <1>10, <1>11, RowOnlyKeeps DEF ReqOK

\* Who submits a deployment asks for nothing else, unless led astray.
LEMMA SubmitFacts ==
    ASSUME WInv, NEW r \in Release, NEW retry \in BOOLEAN,
           DeployAsked(r, retry), RetryIsCurrent(r, retry),
           relStatus[r] \in {"UPLOADED", "REJECTED", "FAILED"}
    PROVE  /\ \A j \in JobsOf(r) : ~Active(j)
           /\ r \notin astray => req[r].op = "DEPLOY" /\ \A j \in JobsOf(r) : ~Verified(j)
           /\ RetryBasis(r, retry) # NoJob => relStatus[r] = "FAILED"
           /\ uploads[r] = NoUpload
<1>1. TargetOf[r] \in Target /\ req[r].op \in {"DEPLOY", "ROLLBACK"}
  BY TargetJobsAssumption DEF WInv, TypeOK, Request
<1>2. uploads[r] = NoUpload
  BY DEF DeployAsked
<1>3. CASE relStatus[r] \in Editable
  <2>1. req[r].retry = NoJob /\ ~retry
    BY <1>3, EditableFacts DEF DeployAsked, Editable
  <2> QED BY <1>2, <1>3, <2>1, EditableFacts DEF RetryBasis, IsRetry
<1>4. CASE relStatus[r] = "FAILED"
  <2>1. LatestFailed(r, TargetOf[r], "DEPLOY")
    BY <1>4 DEF DeployAsked, RetryIsCurrent, IsRetry
  <2>2. \A j \in JobsOf(r) : ~Active(j)
    BY <2>1, ActiveFacts
  <2>3. ASSUME r \notin astray PROVE req[r].op = "DEPLOY"
    <3>1. latest[TargetOf[r]] \in JobsOf(r) /\ NewestOwn(latest[TargetOf[r]])
      BY <1>1, <2>1, LatestIsNewestOwn DEF WInv, LatestFailed, JobsOf
    <3>2. ASSUME req[r].op = "ROLLBACK" PROVE FALSE
      <4>1. PICK j \in JobsOf(r) : jobs[j].op = "ROLLBACK" /\ NewestOwn(j)
        BY <1>4, <2>3, <3>2 DEF WInv, ReqOK, OrderlyOK
      <4>2. j = latest[TargetOf[r]]
        BY <3>1, <4>1, OneNewestOwn DEF WInv
      <4> QED BY <2>1, <4>1, <4>2 DEF LatestFailed
    <3> QED BY <1>1, <3>2
  <2>4. r \notin astray => \A j \in JobsOf(r) : ~Verified(j)
    BY <1>4, <2>3 DEF WInv, ReqOK, OrderlyOK
  <2> QED BY <1>2, <1>4, <2>2, <2>3, <2>4
<1> QED BY <1>3, <1>4 DEF Editable

LEMMA SubmitDeployKeeps ==
    ASSUME WInv, NEW r \in Release, NEW u \in User, NEW retry \in BOOLEAN,
           SubmitDeploy(u, r, retry)
    PROVE  WInv'
<1> DEFINE basis == RetryBasis(r, retry)
<1>1. /\ relStatus' \in [Release -> ReleaseStatus]
      /\ relStatus'[r] = "PENDING_REVIEW"
      /\ \A q \in Release \ {r} : relStatus'[q] = relStatus[q]
  BY SetReleaseIs DEF WInv, SubmitDeploy, ReleaseStatus, Requested
<1>2. basis \in Job \cup {NoJob}
  BY TargetJobsAssumption DEF RetryBasis, WInv, TypeOK, RowsTypeOK
<1>3. /\ req' \in [Release -> Request]
      /\ req'[r] = [req[r] EXCEPT !.retry = basis, !.approver = NoUser,
                                  !.by = IF basis # NoJob THEN u ELSE @]
      /\ \A q \in Release \ {r} : req'[q] = req[q]
      /\ req[r] \in Request
  <2>1. req \in [Release -> Request] /\ req[r] \in Request
    BY DEF WInv, TypeOK
  <2>2. req' = [req EXCEPT ![r] = [req[r] EXCEPT !.retry = basis, !.approver = NoUser,
                                                 !.by = IF basis # NoJob THEN u ELSE @]]
    BY <2>1 DEF SubmitDeploy
  <2>3. [req[r] EXCEPT !.retry = basis, !.approver = NoUser,
                       !.by = IF basis # NoJob THEN u ELSE @] \in Request
    BY <2>1, <1>2 DEF Request
  <2> QED BY <2>1, <2>2, <2>3
<1>4. /\ req'[r].op = req[r].op /\ req'[r].base = req[r].base /\ req'[r].source = req[r].source
      /\ req'[r].rev = req[r].rev /\ req'[r].retry = basis
      /\ req'[r].quick = req[r].quick /\ req'[r].quickBase = req[r].quickBase
      /\ req[r].rev \in 0 .. MaxRev
  BY <1>3 DEF Request
<1>5. /\ submitted' \in [Release -> Review]
      /\ submitted'[r] = [op |-> "DEPLOY", source |-> NoJob, retry |-> basis, rev |-> req[r].rev]
      /\ \A q \in Release \ {r} : submitted'[q] = submitted[q]
  BY <1>2, <1>4 DEF SubmitDeploy, Submit, WInv, TypeOK, Review
<1>6. TypeOK'
  BY <1>1, <1>3, <1>5 DEF SubmitDeploy, WInv, TypeOK, RowsTypeOK
<1>7. /\ \A j \in JobsOf(r) : ~Active(j) /\ j \in Job
      /\ r \notin astray => req[r].op = "DEPLOY" /\ \A j \in JobsOf(r) : ~Verified(j)
      /\ basis # NoJob => relStatus[r] = "FAILED"
      /\ uploads[r] = NoUpload
  BY SubmitFacts DEF SubmitDeploy, JobsOf
<1>8. UNCHANGED <<jobs, latest, heads, older, bound, required, uploads, routed, astray>>
  BY DEF SubmitDeploy
<1>9. LifeOK(r)'
  BY <1>1, <1>7, <1>8, SameJobs DEF LifeOK, Editable
<1>10. RollbackOK(r)'
  BY <1>4, <1>8, SameJobs DEF WInv, ReqOK, RollbackOK, Verified
<1>11. RevOK(r)'
  <2>1. basis # NoJob \/ req[r].op = "ROLLBACK" =>
          \A k \in JobsOf(r) : NewestOwn(k) /\ jobs[k].op = "DEPLOY" => bound[k].rev = req[r].rev
    BY <1>7 DEF WInv, ReqOK, RevOK, Requested
  <2> QED BY <2>1, <1>1, <1>4, <1>7, <1>8, SameJobs DEF RevOK, Requested
<1>12. r \notin astray => OrderlyOK(r)' /\ ReviewOK(r)'
  BY <1>1, <1>4, <1>5, <1>7, <1>8, SameJobs DEF OrderlyOK, ReviewOK, UnderApproval, InReview
<1>13. RowOnly(r)
  BY <1>1, <1>3, <1>5, <1>8 DEF RowOnly, SameUploads
<1> QED BY <1>4, <1>6, <1>7, <1>8, <1>9, <1>10, <1>11, <1>12, <1>13, RowOnlyKeeps DEF ReqOK

LEMMA StartReviewKeeps ==
    ASSUME WInv, NEW r \in Release, StartReview(r)
    PROVE  WInv'
<1>1. /\ relStatus' \in [Release -> ReleaseStatus]
      /\ relStatus'[r] = "UNDER_REVIEW"
      /\ \A q \in Release \ {r} : relStatus'[q] = relStatus[q]
      /\ relStatus[r] \in UnderApproval /\ relStatus'[r] \in UnderApproval
  BY SetReleaseIs DEF WInv, StartReview, ReleaseStatus, Requested, UnderApproval, InReview
<1>2. UNCHANGED <<jobs, latest, heads, req, older, bound, required, uploads, routed, submitted, astray>>
  BY DEF StartReview, workVars
<1>3. TypeOK'
  BY <1>1, <1>2 DEF WInv, TypeOK, RowsTypeOK
<1>4. /\ uploads[r] = NoUpload
      /\ \A j \in JobsOf(r) : ~Active(j) /\ j \in Job
      /\ r \notin astray =>
            \A j \in JobsOf(r) : Verified(j) =>
               /\ bound[j].rev = req[r].rev
               /\ req[r].op = "ROLLBACK" /\ req[r].base = "SUCCESS"
  BY <1>1, ReviewedFacts DEF JobsOf
<1>5. LifeOK(r)' /\ RollbackOK(r)' /\ RevOK(r)'
  <2>1. LifeOK(r)'
    BY <1>1, <1>2, <1>4, SameJobs DEF LifeOK, Editable, UnderApproval, InReview
  <2>2. RollbackOK(r)'
    BY <1>2, SameJobs DEF WInv, ReqOK, RollbackOK, Verified
  <2>3. RevOK(r)'
    BY <1>1, <1>2, <1>4, SameJobs DEF WInv, ReqOK, RevOK, Requested
  <2> QED BY <2>1, <2>2, <2>3
<1>6. r \notin astray => OrderlyOK(r)' /\ ReviewOK(r)'
  <2>1. r \notin astray => OrderlyOK(r)'
    BY <1>1, <1>2, <1>4, SameJobs DEF WInv, ReqOK, OrderlyOK
  <2>2. r \notin astray => ReviewOK(r)'
    BY <1>1, <1>2 DEF WInv, ReqOK, ReviewOK
  <2> QED BY <2>1, <2>2
<1>7. RowOnly(r)
  BY <1>1, <1>2 DEF RowOnly, SameUploads
<1> QED BY <1>2, <1>3, <1>4, <1>5, <1>6, <1>7, RowOnlyKeeps DEF ReqOK

LEMMA ApproveKeeps ==
    ASSUME WInv, NEW r \in Release, NEW u \in User, Approve(u, r)
    PROVE  WInv'
<1>1. /\ relStatus' \in [Release -> ReleaseStatus]
      /\ relStatus'[r] = "APPROVED"
      /\ \A q \in Release \ {r} : relStatus'[q] = relStatus[q]
      /\ relStatus[r] \in UnderApproval /\ relStatus'[r] \in UnderApproval
  BY SetReleaseIs DEF WInv, Approve, ReleaseStatus, Requested, UnderApproval, InReview
<1>2. /\ req' \in [Release -> Request]
      /\ req'[r] = [req[r] EXCEPT !.approver = u]
      /\ \A q \in Release \ {r} : req'[q] = req[q]
      /\ req[r] \in Request
  <2>1. req \in [Release -> Request] /\ req[r] \in Request
    BY DEF WInv, TypeOK
  <2>2. req' = [req EXCEPT ![r] = [req[r] EXCEPT !.approver = u]]
    BY <2>1 DEF Approve
  <2>3. [req[r] EXCEPT !.approver = u] \in Request
    BY <2>1 DEF Request
  <2> QED BY <2>1, <2>2, <2>3
<1>3. /\ req'[r].op = req[r].op /\ req'[r].base = req[r].base /\ req'[r].source = req[r].source
      /\ req'[r].rev = req[r].rev /\ req'[r].retry = req[r].retry /\ req'[r].auto = req[r].auto
      /\ req'[r].quick = req[r].quick /\ req'[r].quickBase = req[r].quickBase
      /\ req'[r].by = req[r].by /\ req'[r].creator = req[r].creator /\ req'[r].approver = u
  BY <1>2 DEF Request
<1>4. UNCHANGED <<jobs, latest, heads, older, bound, required, uploads, routed, submitted, astray>>
  BY DEF Approve
<1>5. TypeOK'
  BY <1>1, <1>2, <1>4 DEF WInv, TypeOK, RowsTypeOK
<1>6. /\ uploads[r] = NoUpload
      /\ \A j \in JobsOf(r) : ~Active(j) /\ j \in Job
      /\ r \notin astray =>
            \A j \in JobsOf(r) : Verified(j) =>
               /\ bound[j].rev = req[r].rev
               /\ req[r].op = "ROLLBACK" /\ req[r].base = "SUCCESS"
  BY <1>1, ReviewedFacts DEF JobsOf
<1>7. LifeOK(r)'
  <2>1. ~DeploysOnApproval(r)'
    BY <1>3 DEF Approve, DeploysOnApproval
  <2> QED BY <2>1, <1>1, <1>4, <1>6, SameJobs DEF LifeOK, Editable
<1>8. RollbackOK(r)'
  BY <1>3, <1>4, SameJobs DEF WInv, ReqOK, RollbackOK, Verified
<1>9. RevOK(r)'
  BY <1>1, <1>3, <1>4, <1>6, SameJobs DEF WInv, ReqOK, RevOK, Requested
<1>10. r \notin astray => OrderlyOK(r)'
  BY <1>1, <1>3, <1>4, <1>6, SameJobs DEF WInv, ReqOK, OrderlyOK
<1>11. r \notin astray => ReviewOK(r)'
  <2>1. u # NoUser /\ (AllowSelfApproval \/ u # Requester(r)')
    BY <1>3, ReleaseWorkflowAssumption DEF Approve, MayApprove, Requester
  <2> QED BY <2>1, <1>1, <1>3, <1>4 DEF WInv, ReqOK, ReviewOK
<1>12. RowOnly(r)
  BY <1>1, <1>2, <1>4 DEF RowOnly, SameUploads
<1> QED BY <1>3, <1>4, <1>5, <1>6, <1>7, <1>8, <1>9, <1>10, <1>11, <1>12, RowOnlyKeeps DEF ReqOK

\* Turned down or overtaken by another deployment, a request leaves the
\* release as it was before; a first deployment can be edited again.
LEMMA CloseKeeps ==
    ASSUME WInv, NEW r \in Release, relStatus[r] \in UnderApproval,
           NEW x \in Request, req' = [req EXCEPT ![r] = x],
           x.op = "DEPLOY", x.base = "NONE", x.rev = req[r].rev,
           x.quick = req[r].quick, x.quickBase = req[r].quickBase,
           req[r].op = "ROLLBACK" =>
               /\ SetRelease(r, req[r].base) /\ req[r].base # "NONE"
               /\ x.retry \in {NoJob, req[r].retry},
           req[r].op = "DEPLOY" => SetRelease(r, "REJECTED") /\ x.retry = NoJob,
           UNCHANGED <<jobs, latest, heads, older, bound, required, uploads, routed, submitted, astray>>
    PROVE  WInv'
<1>1. /\ req' \in [Release -> Request] /\ req'[r] = x
      /\ \A q \in Release \ {r} : req'[q] = req[q]
      /\ req[r] \in Request
  BY DEF WInv, TypeOK
<1>2. req[r].op \in {"DEPLOY", "ROLLBACK"} /\ req[r].base \in {"NONE", "SUCCESS", "FAILED"}
  BY <1>1 DEF Request
<1>3. /\ relStatus' \in [Release -> ReleaseStatus]
      /\ \A q \in Release \ {r} : relStatus'[q] = relStatus[q]
      /\ \/ req[r].op = "ROLLBACK" /\ relStatus'[r] = req[r].base
                                   /\ relStatus'[r] \in {"SUCCESS", "FAILED"}
         \/ req[r].op = "DEPLOY" /\ relStatus'[r] = "REJECTED" /\ x.retry = NoJob
  <2>1. CASE req[r].op = "ROLLBACK"
    BY <1>2, <2>1, SetReleaseIs DEF WInv, ReleaseStatus, Terminal
  <2>2. CASE req[r].op = "DEPLOY"
    BY <1>2, <2>2, SetReleaseIs DEF WInv, ReleaseStatus, Requested
  <2> QED BY <1>2, <2>1, <2>2
<1>4. TypeOK'
  BY <1>1, <1>3 DEF WInv, TypeOK, RowsTypeOK
<1>5. /\ uploads[r] = NoUpload
      /\ \A j \in JobsOf(r) : ~Active(j) /\ j \in Job
      /\ r \notin astray =>
            \A j \in JobsOf(r) : Verified(j) =>
               /\ bound[j].rev = req[r].rev
               /\ req[r].op = "ROLLBACK" /\ req[r].base = "SUCCESS"
  BY ReviewedFacts DEF JobsOf
<1>6. LifeOK(r)'
  BY <1>1, <1>3, <1>5, SameJobs DEF LifeOK, Editable
<1>7. RollbackOK(r)'
  BY <1>1 DEF RollbackOK
<1>8. RevOK(r)'
  BY <1>1, <1>3, <1>5, SameJobs DEF WInv, ReqOK, RevOK, Requested
<1>9. ASSUME r \notin astray
      PROVE  OrderlyOK(r)' /\ ReviewOK(r)'
  <2>1. req[r].op = "ROLLBACK" => req[r].retry = NoJob
    BY <1>9 DEF WInv, ReqOK, OrderlyOK
  <2>2. x.retry = NoJob
    BY <2>1, <1>3
  <2> QED BY <1>1, <1>3, <1>5, <1>9, <2>2, SameJobs
          DEF OrderlyOK, ReviewOK, UnderApproval, InReview
<1>10. RowOnly(r)
  BY <1>1, <1>3 DEF RowOnly, SameUploads
<1> QED BY <1>1, <1>4, <1>5, <1>6, <1>7, <1>8, <1>9, <1>10, RowOnlyKeeps DEF ReqOK

LEMMA RejectKeeps ==
    ASSUME WInv, NEW r \in Release, Reject(r)
    PROVE  WInv'
<1> DEFINE clears == req[r].op = "ROLLBACK" \/ req[r].retry # NoJob
           x == [req[r] EXCEPT !.op = "DEPLOY", !.source = NoJob, !.retry = NoJob,
                               !.by = IF clears THEN NoUser ELSE @,
                               !.base = IF clears THEN "NONE" ELSE @]
<1>1. req \in [Release -> Request] /\ req[r] \in Request
  BY DEF WInv, TypeOK
<1>2. req' = [req EXCEPT ![r] = x]
  BY <1>1 DEF Reject
<1>3. /\ x \in Request /\ x.op = "DEPLOY" /\ x.rev = req[r].rev /\ x.retry = NoJob
      /\ x.quick = req[r].quick /\ x.quickBase = req[r].quickBase
      /\ x.base = IF clears THEN "NONE" ELSE req[r].base
  BY <1>1 DEF Request
<1>4. x.base = "NONE"
  <2>1. req[r].op \in {"DEPLOY", "ROLLBACK"}
    BY <1>1 DEF Request
  <2> QED BY <2>1, <1>3 DEF WInv, ReqOK, RollbackOK
<1>5. relStatus[r] \in UnderApproval
  BY DEF Reject, UnderApproval
<1>6. /\ req[r].op = "ROLLBACK" => SetRelease(r, req[r].base) /\ req[r].base # "NONE"
      /\ req[r].op = "DEPLOY" => SetRelease(r, "REJECTED")
  BY DEF Reject
<1>7. UNCHANGED <<jobs, latest, heads, older, bound, required, uploads, routed, submitted, astray>>
  BY DEF Reject
<1> HIDE DEF x
<1> QED BY <1>2, <1>3, <1>4, <1>5, <1>6, <1>7, CloseKeeps

LEMMA InvalidateRollbackKeeps ==
    ASSUME WInv, NEW r \in Release, InvalidateRollback(r)
    PROVE  WInv'
<1> DEFINE x == [req[r] EXCEPT !.op = "DEPLOY", !.source = NoJob, !.by = NoUser,
                               !.base = "NONE", !.approver = NoUser]
<1>1. req \in [Release -> Request] /\ req[r] \in Request
  BY DEF WInv, TypeOK
<1>2. req' = [req EXCEPT ![r] = x]
  BY <1>1 DEF InvalidateRollback
<1>3. /\ x \in Request /\ x.op = "DEPLOY" /\ x.rev = req[r].rev /\ x.retry = req[r].retry
      /\ x.quick = req[r].quick /\ x.quickBase = req[r].quickBase /\ x.base = "NONE"
  BY <1>1 DEF Request
<1>4. /\ relStatus[r] \in UnderApproval /\ req[r].op = "ROLLBACK"
      /\ SetRelease(r, req[r].base) /\ req[r].base # "NONE"
      /\ UNCHANGED <<jobs, latest, heads, older, bound, required, uploads, routed, submitted, astray>>
  BY DEF InvalidateRollback, RollbackOpen
<1> HIDE DEF x
<1> QED BY <1>2, <1>3, <1>4, CloseKeeps

-------------------------------------------------------------------------------
(***************************************************************************)
(* Rolling back                                                            *)
(***************************************************************************)

\* A head and whatever it was queued on are verified.
LEMMA SourceFacts ==
    ASSUME WInv, NEW r \in Release,
           heads[TargetOf[r]] # NoJob, ExpectedSource(r, TargetOf[r]) # NoJob
    PROVE  LET source == ExpectedSource(r, TargetOf[r]) IN
           /\ source \in Job /\ Verified(source)
           /\ jobs[source].release \in Release
           /\ source \in JobsOf(jobs[source].release)
           /\ jobs[source].release \notin astray =>
                 req[jobs[source].release].rev = bound[source].rev
<1> DEFINE t == TargetOf[r]
           source == ExpectedSource(r, t)
<1>1. t \in Target
  BY TargetJobsAssumption
<1>2. heads[t] \in Job /\ Verified(heads[t])
  BY <1>1 DEF WInv, RowCore, HeadIsVerified, Verified
<1>3. source \in Job /\ Verified(source)
  BY <1>2 DEF WInv, RowCore, HeadIsVerified, Verified, ExpectedSource
<1>4. jobs[source].release \in Release /\ source \in JobsOf(jobs[source].release)
  BY <1>3, ActiveIsPresent DEF WInv, RowCore, RowsOK, JobsOf
<1>5. jobs[source].release \notin astray => req[jobs[source].release].rev = bound[source].rev
  BY <1>3, <1>4 DEF WInv, ReqOK, OrderlyOK
<1> QED BY <1>3, <1>4, <1>5

LEMMA RollbackFacts ==
    ASSUME WInv, NEW r \in Release, NEW retry \in BOOLEAN, RollbackReady(r, retry)
    PROVE  /\ heads[TargetOf[r]] # NoJob
           /\ ExpectedSource(r, TargetOf[r]) # NoJob
           /\ \A j \in JobsOf(r) : ~Active(j)
           /\ uploads[r] = NoUpload
           /\ RecordedBase(r) \in {"SUCCESS", "FAILED"}
           /\ \A k \in JobsOf(r) : NewestOwn(k) /\ jobs[k].op = "DEPLOY" => bound[k].rev = req[r].rev
           /\ r \notin astray =>
                 /\ \A j \in JobsOf(r) : Verified(j) =>
                       RecordedBase(r) = "SUCCESS" /\ bound[j].rev = req[r].rev
                 /\ req[r].retry = NoJob
<1>1. /\ \/ relStatus[r] \in {"SUCCESS", "FAILED"}
         \/ req[r].op = "ROLLBACK" /\ relStatus[r] \in UnderApproval
      /\ TargetFree(TargetOf[r])
  BY DEF RollbackReady, RollbackAsked, RollbackOpen
<1>2. heads[TargetOf[r]] # NoJob /\ ExpectedSource(r, TargetOf[r]) # NoJob
  BY DEF RollbackReady, RollbackPlanned
<1>3. \A j \in JobsOf(r) : ~Active(j)
  BY <1>1, ActiveFacts
<1>4. uploads[r] = NoUpload
  BY <1>1 DEF WInv, UploadInv, UploadOK, UnderApproval, InReview
<1>5. req[r].op \in {"DEPLOY", "ROLLBACK"} /\ req[r].base \in {"NONE", "SUCCESS", "FAILED"}
  BY DEF WInv, TypeOK, Request
<1>6. (req[r].op = "DEPLOY" => req[r].base = "NONE") /\ (req[r].op = "ROLLBACK" => req[r].base # "NONE")
  BY DEF WInv, ReqOK, RollbackOK
<1>7. RecordedBase(r) \in {"SUCCESS", "FAILED"}
  BY <1>1, <1>5, <1>6 DEF RecordedBase
<1>8. \A k \in JobsOf(r) : NewestOwn(k) /\ jobs[k].op = "DEPLOY" => bound[k].rev = req[r].rev
  BY <1>1 DEF WInv, ReqOK, RevOK, Requested
<1>9. ASSUME r \notin astray
      PROVE  /\ \A j \in JobsOf(r) : Verified(j) =>
                   RecordedBase(r) = "SUCCESS" /\ bound[j].rev = req[r].rev
             /\ req[r].retry = NoJob
  <2>1. OrderlyOK(r)
    BY <1>9 DEF WInv, ReqOK
  <2> QED BY <2>1, <1>1, <1>5, <1>6 DEF OrderlyOK, RecordedBase, UnderApproval, InReview
<1> QED BY <1>2, <1>3, <1>4, <1>7, <1>8, <1>9

LEMMA SubmitRollbackKeeps ==
    ASSUME WInv, NEW r \in Release, NEW u \in User, NEW retry \in BOOLEAN,
           SubmitRollback(u, r, retry)
    PROVE  WInv'
<1> DEFINE source == ExpectedSource(r, TargetOf[r])
           x == [req[r] EXCEPT !.op = "ROLLBACK", !.source = source, !.by = u,
                               !.base = RecordedBase(r), !.approver = NoUser]
<1>1. RollbackReady(r, retry)
  BY DEF SubmitRollback
<1>2. /\ relStatus' \in [Release -> ReleaseStatus]
      /\ relStatus'[r] = "PENDING_REVIEW"
      /\ \A q \in Release \ {r} : relStatus'[q] = relStatus[q]
  BY SetReleaseIs DEF WInv, SubmitRollback, ReleaseStatus, Requested
<1>3. /\ heads[TargetOf[r]] # NoJob /\ source # NoJob
      /\ \A j \in JobsOf(r) : ~Active(j) /\ j \in Job
      /\ uploads[r] = NoUpload
      /\ RecordedBase(r) \in {"SUCCESS", "FAILED"}
      /\ \A k \in JobsOf(r) : NewestOwn(k) /\ jobs[k].op = "DEPLOY" => bound[k].rev = req[r].rev
      /\ r \notin astray =>
            /\ \A j \in JobsOf(r) : Verified(j) =>
                  RecordedBase(r) = "SUCCESS" /\ bound[j].rev = req[r].rev
            /\ req[r].retry = NoJob
  BY <1>1, RollbackFacts DEF JobsOf
<1>4. /\ source \in Job /\ Verified(source)
      /\ jobs[source].release \in Release
      /\ jobs[source].release \notin astray => req[jobs[source].release].rev = bound[source].rev
  BY <1>3, SourceFacts
<1>5. req \in [Release -> Request] /\ req[r] \in Request
  BY DEF WInv, TypeOK
<1>6. req' = [req EXCEPT ![r] = x]
  BY <1>5 DEF SubmitRollback
<1>7. /\ x \in Request /\ x.op = "ROLLBACK" /\ x.source = source /\ x.base = RecordedBase(r)
      /\ x.rev = req[r].rev /\ x.retry = req[r].retry
      /\ x.quick = req[r].quick /\ x.quickBase = req[r].quickBase
  BY <1>3, <1>4, <1>5 DEF Request
<1> HIDE DEF x
<1>8. /\ req' \in [Release -> Request] /\ req'[r] = x
      /\ \A q \in Release \ {r} : req'[q] = req[q]
  BY <1>5, <1>6, <1>7
<1>9. /\ submitted' \in [Release -> Review]
      /\ submitted'[r] = [op |-> "ROLLBACK", source |-> source, retry |-> NoJob,
                          rev |-> req[jobs[source].release].rev]
      /\ \A q \in Release \ {r} : submitted'[q] = submitted[q]
  <2>1. req[jobs[source].release].rev \in 0 .. MaxRev
    BY <1>4, <1>5 DEF Request
  <2> QED BY <2>1, <1>4 DEF SubmitRollback, WInv, TypeOK, Review
<1>10. UNCHANGED <<jobs, latest, heads, older, bound, required, uploads, routed, astray>>
  BY DEF SubmitRollback
<1>11. TypeOK'
  BY <1>2, <1>8, <1>9, <1>10 DEF WInv, TypeOK, RowsTypeOK
<1>12. LifeOK(r)' /\ RollbackOK(r)' /\ RevOK(r)'
  <2>1. LifeOK(r)'
    BY <1>2, <1>3, <1>10, SameJobs DEF LifeOK, Editable
  <2>2. RollbackOK(r)'
    BY <1>3, <1>4, <1>7, <1>8, <1>10, SameJobs DEF RollbackOK
  <2>3. RevOK(r)'
    BY <1>3, <1>7, <1>8, <1>10, SameJobs DEF RevOK
  <2> QED BY <2>1, <2>2, <2>3
<1>13. r \notin astray => OrderlyOK(r)'
  BY <1>2, <1>3, <1>7, <1>8, <1>10, SameJobs DEF OrderlyOK
<1>14. r \notin astray => ReviewOK(r)'
  BY <1>2, <1>3, <1>4, <1>7, <1>8, <1>9, <1>10 DEF ReviewOK
<1>15. RowOnly(r)
  BY <1>2, <1>8, <1>9, <1>10 DEF RowOnly, SameUploads
<1> QED BY <1>3, <1>7, <1>8, <1>10, <1>11, <1>12, <1>13, <1>14, <1>15, RowOnlyKeeps DEF ReqOK

-------------------------------------------------------------------------------
(***************************************************************************)
(* Queueing a job                                                          *)
(***************************************************************************)

\* A job is inserted at the end of the order, or at the place its quick release
\* or a request that waited reserved, which is then given up.
QueueStep(j, r, op, rev, retryOf) ==
    /\ Queue(j, r, op, rev, retryOf)
    /\ \/ ~Reserved(j) /\ uploads[r] = NoUpload /\ UNCHANGED uploads
       \/ /\ uploads[r] # NoUpload /\ uploads[r].job = j
          /\ uploads' = [uploads EXCEPT ![r] = NoUpload]

\* What the step does to the rows.
Queued(j, r, op, rev, retryOf) ==
    /\ jobs[j] = NoRow /\ ~Present(j)
    /\ jobs'[j] = [status |-> "QUEUED", release |-> r, target |-> TargetOf[r],
                   op |-> op, source |-> FrozenSource(r, op)]
    /\ bound'[j] = [rev |-> rev, retryOf |-> retryOf, stale |-> uploads[r].stale]
    /\ \A i \in Job \ {j} : jobs'[i] = jobs[i] /\ bound'[i] = bound[i]
    /\ relStatus'[r] = IF op = "DEPLOY" THEN "QUEUED" ELSE "ROLLBACK"
    /\ \A q \in Release \ {r} : relStatus'[q] = relStatus[q]
    /\ j \notin JobsOf(r) /\ JobsOf(r)' = JobsOf(r) \cup {j}
    /\ \A q \in Release \ {r} : JobsOf(q)' = JobsOf(q) /\ j \notin JobsOf(q)
    /\ \A u \in Target : /\ j \notin JobsOn(u)
                         /\ JobsOn(u)' = IF u = TargetOf[r] THEN JobsOn(u) \cup {j}
                                         ELSE JobsOn(u)
    /\ \A k \in JobsOf(r) : ~Active(k)
    /\ \A i \in Job : Verified(i) => i # j
    /\ \A i \in Job : Verified(i)' <=> Verified(i)
    /\ op = "ROLLBACK" => FrozenSource(r, op) # NoJob
    /\ heads' = heads

LEMMA QueueRows ==
    ASSUME WInv, NEW j \in Job, NEW r \in Release, NEW op \in {"DEPLOY", "ROLLBACK"},
           NEW rev \in 0 .. MaxRev, NEW retryOf \in Job \cup {NoJob},
           QueueStep(j, r, op, rev, retryOf)
    PROVE  Queued(j, r, op, rev, retryOf)
<1>1. /\ InsertJob(j, r, op)
      /\ bound' = [bound EXCEPT ![j] =
                    [rev |-> rev, retryOf |-> retryOf, stale |-> uploads[r].stale]]
  BY DEF QueueStep, Queue
<1>2. /\ jobs[j] = NoRow /\ ~Present(j) /\ j \in Job
      /\ jobs \in [Job -> JobRow] /\ bound \in [Job -> Binding]
      /\ relStatus \in [Release -> ReleaseStatus]
  BY <1>1 DEF InsertJob, WInv, RowCore, RowsOK, TypeOK, RowsTypeOK
<1>3. /\ jobs'[j] = [status |-> "QUEUED", release |-> r, target |-> TargetOf[r],
                     op |-> op, source |-> FrozenSource(r, op)]
      /\ bound'[j] = [rev |-> rev, retryOf |-> retryOf, stale |-> uploads[r].stale]
      /\ \A i \in Job \ {j} : jobs'[i] = jobs[i] /\ bound'[i] = bound[i]
      /\ relStatus'[r] = IF op = "DEPLOY" THEN "QUEUED" ELSE "ROLLBACK"
      /\ \A q \in Release \ {r} : relStatus'[q] = relStatus[q]
      /\ heads' = heads
  BY <1>1, <1>2 DEF InsertJob
<1>4. /\ j \notin JobsOf(r) /\ JobsOf(r)' = JobsOf(r) \cup {j}
      /\ \A q \in Release \ {r} : JobsOf(q)' = JobsOf(q) /\ j \notin JobsOf(q)
  BY <1>2, <1>3, TargetJobsAssumption DEF JobsOf, NoRow
<1>5. \A u \in Target : /\ j \notin JobsOn(u)
                        /\ JobsOn(u)' = IF u = TargetOf[r] THEN JobsOn(u) \cup {j} ELSE JobsOn(u)
  BY <1>2, <1>3, TargetJobsAssumption DEF JobsOn, NoRow
<1>6. \A k \in JobsOf(r) : ~Active(k)
  BY <1>1, OwnJobs DEF WInv, InsertJob, TargetFree
<1>7. \A i \in Job : (Verified(i) => i # j) /\ (Verified(i)' <=> Verified(i))
  BY <1>2, <1>3 DEF Verified, NoRow
<1>8. op = "ROLLBACK" => FrozenSource(r, op) # NoJob
  BY <1>1, TargetJobsAssumption DEF InsertJob, RollbackAdmitted, FrozenSource, Verified
<1> QED BY <1>2, <1>3, <1>4, <1>5, <1>6, <1>7, <1>8 DEF Queued

\* What has begun on a target is a row or a reservation.
LEMMA BegunFacts ==
    ASSUME WInv, NEW t \in Target, NEW j \in Begun(t)
    PROVE  j \in Job /\ (Present(j) \/ Reserved(j))
BY TargetJobsAssumption DEF Begun, JobsOn, Reserved, WInv, RowCore, RowsOK, NoRow

\* A transaction that begins now is newer than all that has begun.
LEMMA BeginOrder ==
    ASSUME WInv, NEW j \in Job, NEW t \in Target, ~Present(j), ~Reserved(j), Begin(j, t),
           \A i \in Job : Present(i)' \/ Reserved(i)' <=> Present(i) \/ Reserved(i) \/ i = j,
           \A u \in Target : Begun(u)' = IF u = t THEN Begun(u) \cup {j} ELSE Begun(u)
    PROVE  /\ OrderInv'
           /\ older' \in [Job -> SUBSET Job]
           /\ older'[j] = Begun(t)
           /\ \A i \in Job \ {j} : older'[i] = older[i]
           /\ \A i \in Job : j \notin older'[i]
<1>1. /\ older' \in [Job -> SUBSET Job] /\ older'[j] = Begun(t)
      /\ \A i \in Job \ {j} : older'[i] = older[i]
  <2>1. Begun(t) \subseteq Job
    BY DEF Begun, JobsOn
  <2> QED BY <2>1 DEF WInv, TypeOK, Begin
<1>2. \A u \in Target : \A k \in Begun(u) : k \in Job /\ (Present(k) \/ Reserved(k)) /\ k # j
  BY BegunFacts
<1>3. \A i \in Job : older[i] \subseteq {k \in Job : Present(k) \/ Reserved(k)} /\ j \notin older[i]
  BY DEF WInv, OrderInv
<1>4. \A i \in Job : j \notin older'[i]
  BY <1>1, <1>2, <1>3
<1>5. \A i \in Job : older'[i] \subseteq {k \in Job : Present(k)' \/ Reserved(k)'}
  <2> SUFFICES ASSUME NEW i \in Job, NEW k \in older'[i]
               PROVE  k \in Job /\ (Present(k)' \/ Reserved(k)')
    OBVIOUS
  <2>1. CASE i = j
    BY <2>1, <1>1, <1>2
  <2>2. CASE i # j
    BY <2>2, <1>1, <1>3
  <2> QED BY <2>1, <2>2
<1>6. \A i, k \in Job : i \in older'[k] => k \notin older'[i]
  <2>1. \A i, k \in Job : i \in older[k] => k \notin older[i]
    BY DEF WInv, OrderInv
  <2> QED BY <2>1, <1>1, <1>4
<1>7. ASSUME NEW u \in Target, NEW S \in SUBSET (Begun(u)'), S # {}
      PROVE  \E k \in S : S \ {k} \subseteq older'[k]
  <2>1. CASE j \in S
    <3>1. u = t /\ S \ {j} \subseteq Begun(t)
      BY <2>1, <1>2
    <3> QED BY <2>1, <3>1, <1>1
  <2>2. CASE j \notin S
    <3>1. S \in SUBSET Begun(u)
      BY <2>2
    <3>2. PICK k \in S : S \ {k} \subseteq older[k]
      BY <3>1, <1>7 DEF WInv, OrderInv
    <3>3. k \in Job \ {j}
      BY <3>1, <2>2, <1>2
    <3> QED BY <3>2, <3>3, <1>1
  <2> QED BY <2>1, <2>2
<1>8. OrderInv'
  BY <1>5, <1>6, <1>7 DEF OrderInv
<1> QED BY <1>1, <1>4, <1>8

LEMMA QueueOrder ==
    ASSUME WInv, NEW j \in Job, NEW r \in Release, NEW op \in {"DEPLOY", "ROLLBACK"},
           NEW rev \in 0 .. MaxRev, NEW retryOf \in Job \cup {NoJob},
           QueueStep(j, r, op, rev, retryOf), UNCHANGED required,
           \A q \in Release \ {r} : req'[q] = req[q]
    PROVE  /\ OrderInv'
           /\ older' \in [Job -> SUBSET Job]
           /\ \A i \in Job \ {j} : older'[i] = older[i]
           /\ JobsOf(r) \subseteq older'[j]
           /\ \A k \in JobsOf(r) : j \notin older'[k]
           /\ UploadInv'
           /\ uploads' \in [Release -> Upload]
<1> DEFINE t == TargetOf[r]
<1>0. Queued(j, r, op, rev, retryOf)
  BY QueueRows
<1>1. /\ t \in Target
      /\ older \in [Job -> SUBSET Job]
      /\ uploads \in [Release -> Upload]
  BY TargetJobsAssumption DEF WInv, TypeOK
<1>2. /\ jobs[j] = NoRow /\ ~Present(j)
      /\ \A i \in Job : Present(i)' <=> Present(i) \/ i = j
      /\ \A u \in Target : /\ j \notin JobsOn(u)
                           /\ JobsOn(u)' = IF u = t THEN JobsOn(u) \cup {j} ELSE JobsOn(u)
      /\ \A q \in Release \ {r} : relStatus'[q] = relStatus[q] /\ JobsOf(q)' = JobsOf(q)
      /\ IF Reserved(j) THEN UNCHANGED older ELSE Begin(j, t)
  <2>1. /\ jobs[j] = NoRow /\ ~Present(j)
        /\ jobs'[j].status = "QUEUED" /\ \A i \in Job \ {j} : jobs'[i] = jobs[i]
        /\ \A u \in Target : /\ j \notin JobsOn(u)
                             /\ JobsOn(u)' = IF u = t THEN JobsOn(u) \cup {j} ELSE JobsOn(u)
        /\ \A q \in Release \ {r} : relStatus'[q] = relStatus[q] /\ JobsOf(q)' = JobsOf(q)
    BY <1>0 DEF Queued
  <2>2. \A i \in Job : Present(i)' <=> Present(i) \/ i = j
    BY <2>1 DEF Present
  <2>3. IF Reserved(j) THEN UNCHANGED older ELSE Begin(j, t)
    BY DEF QueueStep, Queue
  <2> QED BY <2>1, <2>2, <2>3
<1>3. \A q \in Release : uploads[q] # NoUpload => UploadOK(q)
  BY DEF WInv, UploadInv
<1>4. CASE ~Reserved(j) /\ uploads[r] = NoUpload /\ UNCHANGED uploads
  <2>1. \A i \in Job : Present(i)' \/ Reserved(i)' <=> Present(i) \/ Reserved(i) \/ i = j
    BY <1>2, <1>4 DEF Reserved
  <2>2. \A u \in Target : Begun(u)' = IF u = t THEN Begun(u) \cup {j} ELSE Begun(u)
    BY <1>2, <1>4 DEF Begun
  <2>3. /\ OrderInv' /\ older' \in [Job -> SUBSET Job] /\ older'[j] = Begun(t)
        /\ \A i \in Job \ {j} : older'[i] = older[i]
        /\ \A i \in Job : j \notin older'[i]
    BY <1>1, <1>2, <1>4, <2>1, <2>2, BeginOrder
  <2>4. JobsOf(r) \subseteq Begun(t) /\ JobsOf(r) \subseteq Job
    BY OwnJobs DEF WInv, Begun
  <2>5. UploadInv'
    <3> SUFFICES ASSUME NEW q \in Release, uploads[q] # NoUpload PROVE UploadOK(q)'
      BY <1>4 DEF UploadInv
    <3>1. q # r /\ UploadOK(q) /\ uploads[q].job # j
      BY <1>3, <1>4 DEF Reserved
    <3> QED BY <3>1, <1>2, <1>4, <2>3 DEF UploadOK
  <2> QED BY <1>1, <1>4, <2>3, <2>4, <2>5
<1>5. CASE /\ uploads[r] # NoUpload /\ uploads[r].job = j
           /\ uploads' = [uploads EXCEPT ![r] = NoUpload]
  <2>1. /\ Reserved(j) /\ UNCHANGED older
        /\ uploads'[r] = NoUpload
        /\ \A q \in Release \ {r} : uploads'[q] = uploads[q] /\ uploads[q].job # j
    BY <1>1, <1>2, <1>3, <1>5 DEF Reserved, UploadOK
  <2>2. JobsOf(r) \subseteq older[j] /\ \A k \in JobsOf(r) : j \notin older[k]
    <3>1. JobsOf(r) \subseteq older[j] /\ JobsOf(r) \subseteq Job
      BY <1>3, <1>5 DEF UploadOK, JobsOf
    <3> QED BY <3>1 DEF WInv, OrderInv
  <2>3. \A i \in Job : Present(i) \/ Reserved(i) => Present(i)' \/ Reserved(i)'
    BY <1>2, <1>5, <2>1 DEF Reserved
  <2>4. \A u \in Target : Begun(u)' = Begun(u)
    <3> SUFFICES ASSUME NEW u \in Target PROVE Begun(u)' = Begun(u)
      OBVIOUS
    <3>1. NoUpload.job = NoJob
      BY DEF NoUpload
    <3>2. \A k \in Job : k # j =>
            ((\E q \in Release : uploads'[q].job = k /\ TargetOf[q] = u)
             <=> (\E q \in Release : uploads[q].job = k /\ TargetOf[q] = u))
      BY <2>1, <3>1, <1>5, TargetJobsAssumption
    <3>3. (\E q \in Release : uploads[q].job = j /\ TargetOf[q] = u) <=> u = t
      BY <2>1, <1>5
    <3>4. ~(\E q \in Release : uploads'[q].job = j /\ TargetOf[q] = u)
      BY <2>1, <3>1, TargetJobsAssumption
    <3>5. j \notin JobsOn(u) /\ JobsOn(u)' = IF u = t THEN JobsOn(u) \cup {j} ELSE JobsOn(u)
      BY <1>2
    <3> QED BY <3>2, <3>3, <3>4, <3>5 DEF Begun
  <2>5. OrderInv'
    BY <2>1, <2>3, <2>4 DEF WInv, OrderInv
  <2>6. UploadInv'
    <3> SUFFICES ASSUME NEW q \in Release, uploads'[q] # NoUpload
                 PROVE  UploadOK(q)'
      BY DEF UploadInv
    <3>1. q # r /\ uploads'[q] = uploads[q] /\ uploads[q].job # j /\ UploadOK(q)
      BY <2>1, <1>3
    <3>2. uploads'[r].job = NoJob
      BY <2>1 DEF NoUpload
    <3> QED BY <3>1, <3>2, <1>2, <2>1, TargetJobsAssumption DEF UploadOK
  <2>7. NoUpload \in Upload
    BY DEF NoUpload, Upload
  <2> QED BY <1>1, <1>5, <2>1, <2>2, <2>5, <2>6, <2>7
<1> QED BY <1>4, <1>5 DEF QueueStep

\* Whatever has a newest job, the query returns it.
LEMMA NewestIs ==
    ASSUME NEW order, NEW S, S # {}, \E j \in S : S \ {j} \subseteq order[j]
    PROVE  Newest(order, S) \in S /\ S \ {Newest(order, S)} \subseteq order[Newest(order, S)]
BY DEF Newest

LEMMA QueueLatest ==
    ASSUME WInv, NEW j \in Job, NEW r \in Release, NEW op \in {"DEPLOY", "ROLLBACK"},
           NEW rev \in 0 .. MaxRev, NEW retryOf \in Job \cup {NoJob},
           QueueStep(j, r, op, rev, retryOf), UNCHANGED required,
           \A q \in Release \ {r} : req'[q] = req[q]
    PROVE  LatestInv'
<1> DEFINE t == TargetOf[r]
<1>1. /\ \A u \in Target : /\ j \notin JobsOn(u)
                           /\ JobsOn(u)' = IF u = t THEN JobsOn(u) \cup {j} ELSE JobsOn(u)
      /\ \A i \in Job \ {j} : older'[i] = older[i]
      /\ OrderInv'
      /\ t \in Target
  <2>1. \A u \in Target : /\ j \notin JobsOn(u)
                          /\ JobsOn(u)' = IF u = t THEN JobsOn(u) \cup {j} ELSE JobsOn(u)
    <3>1. Queued(j, r, op, rev, retryOf)
      BY QueueRows
    <3> QED BY <3>1 DEF Queued
  <2>2. OrderInv' /\ \A i \in Job \ {j} : older'[i] = older[i]
    BY QueueOrder
  <2> QED BY <2>1, <2>2, TargetJobsAssumption
<1>2. /\ latest'[t] = Newest(older', JobsOn(t) \cup {j})
      /\ \A u \in Target \ {t} : latest'[u] = latest[u]
  BY <1>1 DEF WInv, TypeOK, RowsTypeOK, QueueStep, Queue
<1>3. latest'[t] \in JobsOn(t)' /\ JobsOn(t)' \ {latest'[t]} \subseteq older'[latest'[t]]
  <2>1. JobsOn(t)' \in SUBSET (Begun(t)') /\ JobsOn(t)' # {}
    BY <1>1 DEF Begun
  <2>2. \E k \in JobsOn(t)' : JobsOn(t)' \ {k} \subseteq older'[k]
    BY <1>1, <2>1 DEF OrderInv
  <2>3. latest'[t] = Newest(older', JobsOn(t)')
    BY <1>1, <1>2
  <2> QED BY <2>1, <2>2, <2>3, NewestIs
<1>4. ASSUME NEW u \in Target \ {t}
      PROVE  IF JobsOn(u)' = {} THEN latest'[u] = NoJob
             ELSE latest'[u] \in JobsOn(u)' /\ JobsOn(u)' \ {latest'[u]} \subseteq older'[latest'[u]]
  <2>1. JobsOn(u)' = JobsOn(u) /\ j \notin JobsOn(u) /\ JobsOn(u) \subseteq Job
    BY <1>1 DEF JobsOn
  <2>2. IF JobsOn(u) = {} THEN latest[u] = NoJob
        ELSE latest[u] \in JobsOn(u) /\ JobsOn(u) \ {latest[u]} \subseteq older[latest[u]]
    BY DEF WInv, LatestInv
  <2> QED BY <2>1, <2>2, <1>1, <1>2
<1> QED BY <1>3, <1>4 DEF LatestInv

\* Queueing keeps everything when the release's row, then x, suits the job.
LEMMA QueueKeeps ==
    ASSUME WInv, NEW j \in Job, NEW r \in Release, NEW op \in {"DEPLOY", "ROLLBACK"},
           NEW rev \in 0 .. MaxRev, NEW retryOf \in Job \cup {NoJob},
           QueueStep(j, r, op, rev, retryOf),
           NEW x \in Request, req' = [req EXCEPT ![r] = x],
           UNCHANGED <<required, routed, submitted>>,
           astray' \in {astray, astray \cup {r}},
           x.op = "DEPLOY" => x.base = "NONE",
           x.op = "ROLLBACK" => x.base # "NONE" /\ Verified(x.source),
           op = "DEPLOY" => rev = x.rev,
           r \notin astray' =>
               /\ op = x.op /\ x.retry = NoJob
               /\ \A k \in JobsOf(r) : Verified(k) =>
                     bound[k].rev = x.rev /\ x.op = "ROLLBACK" /\ x.base = "SUCCESS",
           \/ JobsOf(r) = {}
           \/ x.quick = req[r].quick /\ x.quickBase = req[r].quickBase,
           op = "DEPLOY" /\ x.quick => heads[TargetOf[r]] = x.quickBase,
           op = "ROLLBACK" /\ jobs[FrozenSource(r, op)].release \notin astray =>
               rev = bound[FrozenSource(r, op)].rev,
           retryOf # NoJob => retryOf \in JobsOf(r) /\ rev = bound[retryOf].rev,
           op = "ROLLBACK" \/ retryOf # NoJob => uploads[r] = NoUpload
    PROVE  WInv'
<1> DEFINE t == TargetOf[r]
<1>1. Queued(j, r, op, rev, retryOf)
  BY QueueRows
<1>2. RowCore'
  BY InsertJobRows DEF WInv, QueueStep, Queue
<1>3. /\ OrderInv' /\ UploadInv' /\ LatestInv'
      /\ older' \in [Job -> SUBSET Job]
      /\ \A i \in Job \ {j} : older'[i] = older[i]
      /\ JobsOf(r) \subseteq older'[j]
      /\ \A k \in JobsOf(r) : j \notin older'[k]
      /\ uploads' \in [Release -> Upload]
  <2>1. \A q \in Release \ {r} : req'[q] = req[q]
    BY DEF WInv, TypeOK
  <2> QED BY <2>1, QueueOrder, QueueLatest
<1>4. /\ req' \in [Release -> Request] /\ req'[r] = x
      /\ \A q \in Release \ {r} : req'[q] = req[q]
  BY DEF WInv, TypeOK
<1>5. TypeOK'
  <2>1. bound' \in [Job -> Binding]
    <3>1. uploads[r].stale \in BOOLEAN /\ bound \in [Job -> Binding]
      BY DEF WInv, TypeOK, Upload
    <3>2. [rev |-> rev, retryOf |-> retryOf, stale |-> uploads[r].stale] \in Binding
      BY <3>1 DEF Binding
    <3> QED BY <3>1, <3>2 DEF QueueStep, Queue
  <2>2. astray' \subseteq Release
    BY DEF WInv, TypeOK
  <2> QED BY <1>2, <1>3, <1>4, <2>1, <2>2 DEF WInv, TypeOK, RowCore
<1>6. /\ \A k \in JobsOf(r) : k \in Job /\ k # j /\ jobs'[k] = jobs[k] /\ bound'[k] = bound[k]
      /\ \A k \in JobsOf(r) : jobs[k].release = r
  BY <1>1 DEF Queued, JobsOf
<1>7. NewestOwn(j)' /\ \A k \in JobsOf(r) : ~NewestOwn(k)'
  <2>1. JobsOf(r)' = JobsOf(r) \cup {j} /\ jobs'[j].release = r
    BY <1>1 DEF Queued
  <2>2. JobsOf(jobs[j].release)' = JobsOf(r) \cup {j}
    BY <2>1 DEF JobsOf
  <2>3. \A k \in JobsOf(r) : JobsOf(jobs[k].release)' = JobsOf(r) \cup {j}
    BY <2>1, <1>6 DEF JobsOf
  <2> QED BY <2>2, <2>3, <1>3, <1>6 DEF NewestOwn
<1>8. Active(j)' /\ FollowsJob(j)' /\ ~Verified(j)' /\ \A k \in JobsOf(r) : ~Active(k)'
  <2>1. Active(j)' /\ FollowsJob(j)' /\ ~Verified(j)'
    BY <1>1 DEF Queued, Active, FollowsJob, Verified
  <2>2. \A k \in JobsOf(r) : ~Active(k)'
    BY <1>1, <1>6 DEF Queued, Active
  <2> QED BY <2>1, <2>2
<1>9. ReqOK(r)'
  <2>1. /\ JobsOf(r)' = JobsOf(r) \cup {j}
        /\ relStatus'[r] = IF op = "DEPLOY" THEN "QUEUED" ELSE "ROLLBACK"
        /\ jobs'[j].op = op /\ bound'[j].rev = rev
    BY <1>1 DEF Queued
  <2>2. LifeOK(r)'
    BY <2>1, <1>7, <1>8 DEF LifeOK, Editable
  <2>3. RollbackOK(r)'
    BY <1>1, <1>4 DEF RollbackOK, Queued, Verified
  <2>4. RevOK(r)'
    BY <2>1, <1>4, <1>7 DEF RevOK
  <2>5. \A k \in JobsOf(r) : Verified(k)' => Verified(k) /\ bound'[k].rev = bound[k].rev
    BY <1>1, <1>6 DEF Queued
  <2>6. r \notin astray' => OrderlyOK(r)'
    BY <2>1, <2>5, <1>4, <1>8 DEF OrderlyOK
  <2>7. ReviewOK(r)'
    BY <2>1 DEF ReviewOK, UnderApproval, InReview
  <2> QED BY <2>2, <2>3, <2>4, <2>6, <2>7 DEF ReqOK
<1>10. ASSUME NEW q \in Release, q # r
       PROVE  ReqOK(q)'
  <2>1. \A k \in JobsOf(q) : k \in Job \ {j} /\ jobs[k].release = q
    BY <1>1, <1>10 DEF Queued, JobsOf
  <2>2. Untouched(q)
    <3>1. JobsOf(q)' = JobsOf(q)
      BY <1>1, <1>10 DEF Queued
    <3>2. \A k \in JobsOf(q) : jobs'[k] = jobs[k] /\ bound'[k] = bound[k]
      BY <2>1, <1>1 DEF Queued
    <3>3. \A k \in JobsOf(q) : NewestOwn(k)' <=> NewestOwn(k)
      BY <2>1, <3>1, <3>2, <1>3 DEF NewestOwn, JobsOf
    <3>4. relStatus'[q] = relStatus[q] /\ req'[q] = req[q] /\ submitted'[q] = submitted[q]
      BY <1>1, <1>4, <1>10 DEF Queued
    <3> QED BY <3>1, <3>2, <3>3, <3>4 DEF Untouched
  <2>3. ReqOK(q) /\ RowCore
    BY DEF WInv
  <2>4. req[q].op = "ROLLBACK" =>
          /\ Verified(req[q].source)'
          /\ bound'[req[q].source] = bound[req[q].source]
          /\ jobs'[req[q].source].release = jobs[req[q].source].release
    BY <2>3, <1>1, <1>4, <1>10 DEF ReqOK, RollbackOK, Queued, Verified
  <2> QED BY <2>2, <2>3, <2>4, <1>10, BystanderKeeps
<1>11. \A i \in Job : JobOK(i)'
  <2> SUFFICES ASSUME NEW i \in Job PROVE JobOK(i)'
    OBVIOUS
  <2>1. CASE i = j
    BY <2>1, <1>1 DEF JobOK, Queued, Present
  <2>2. CASE i # j
    BY <2>2, <1>1 DEF WInv, JobOK, Queued, Present
  <2> QED BY <2>1, <2>2
<1>12. QuickReplacesItsBase'
  <2> SUFFICES ASSUME NEW i \in Job, Present(i)', jobs'[i].op = "DEPLOY",
                      req'[jobs'[i].release].quick
               PROVE  jobs'[i].source = req'[jobs'[i].release].quickBase
    BY DEF QuickReplacesItsBase
  <2>1. CASE i = j
    BY <2>1, <1>1, <1>4 DEF Queued, FrozenSource
  <2>2. CASE i # j
    <3>1. jobs'[i] = jobs[i] /\ Present(i) /\ jobs[i].release \in Release
          /\ i \in JobsOf(jobs[i].release)
      BY <2>2, <1>1 DEF Queued, Present, WInv, RowCore, RowsOK, JobsOf
    <3> QED BY <3>1, <1>4 DEF WInv, QuickReplacesItsBase
  <2> QED BY <2>1, <2>2
<1>13. BoundContentIsTheSame'
  <2> SUFFICES ASSUME NEW i \in Job
               PROVE  /\ /\ jobs'[i].op = "ROLLBACK" /\ jobs'[jobs'[i].source].release \notin astray'
                         /\ ~bound'[jobs'[i].source].stale
                         => bound'[i].rev = bound'[jobs'[i].source].rev /\ ~bound'[i].stale
                      /\ bound'[i].retryOf # NoJob =>
                            /\ jobs'[bound'[i].retryOf].release = jobs'[i].release
                            /\ ~bound'[bound'[i].retryOf].stale =>
                                  bound'[i].rev = bound'[bound'[i].retryOf].rev /\ ~bound'[i].stale
    BY DEF BoundContentIsTheSame, RepeatsContent
  <2>1. CASE i = j
    <3>1. /\ jobs'[i].op = op /\ jobs'[i].source = FrozenSource(r, op) /\ jobs'[i].release = r
          /\ bound'[i].rev = rev /\ bound'[i].retryOf = retryOf
          /\ op = "ROLLBACK" \/ retryOf # NoJob => ~bound'[i].stale
      BY <2>1, <1>1 DEF Queued, NoUpload
    <3>2. op = "ROLLBACK" => Verified(FrozenSource(r, op))
      BY DEF QueueStep, Queue, InsertJob, RollbackAdmitted, FrozenSource
    <3>3. op = "ROLLBACK" =>
             LET s == FrozenSource(r, op) IN jobs'[s] = jobs[s] /\ bound'[s] = bound[s]
      BY <3>2, <1>1 DEF Queued, Verified
    <3> QED BY <3>1, <3>3, <1>6
  <2>2. CASE i # j
    <3>1. jobs'[i] = jobs[i] /\ bound'[i] = bound[i]
      BY <2>2, <1>1 DEF Queued
    <3>2. jobs[i].op = "ROLLBACK" => Verified(jobs[i].source)
      BY DEF WInv, RowCore, RowsOK, HeadIsVerified, JobOK, NoRow
    <3>3. jobs[i].op = "ROLLBACK" =>
             LET s == jobs[i].source IN jobs'[s] = jobs[s] /\ bound'[s] = bound[s]
      BY <3>2, <1>1 DEF Queued, Verified
    <3>4. bound[i].retryOf # NoJob => bound[i].retryOf \in Job \ {j}
      <4>1. bound[i].retryOf # NoJob =>
              /\ bound[i].retryOf \in Job /\ Present(i)
              /\ jobs[bound[i].retryOf].release = jobs[i].release
        BY DEF WInv, TypeOK, Binding, JobOK, Unbound, BoundContentIsTheSame
      <4>2. bound[i].retryOf # NoJob => jobs[bound[i].retryOf].release # NoRelease
        BY <4>1, TargetJobsAssumption DEF WInv, RowCore, RowsOK
      <4>3. jobs[j].release = NoRelease
        BY <1>1 DEF Queued, NoRow
      <4> QED BY <4>1, <4>2, <4>3
    <3>5. bound[i].retryOf # NoJob =>
             LET s == bound[i].retryOf IN jobs'[s] = jobs[s] /\ bound'[s] = bound[s]
      BY <3>4, <1>1 DEF Queued
    <3> QED BY <3>1, <3>3, <3>5 DEF WInv, BoundContentIsTheSame, RepeatsContent
  <2> QED BY <2>1, <2>2
<1> QED BY <1>2, <1>3, <1>5, <1>9, <1>10, <1>11, <1>12, <1>13 DEF WInv

LEMMA QueueDeployKeeps ==
    ASSUME WInv, NEW r \in Release, NEW j \in Job, NEW retry \in BOOLEAN,
           QueueDeploy(j, r, retry)
    PROVE  WInv'
<1> DEFINE basis == RetryBasis(r, retry)
           x == [req[r] EXCEPT !.retry = NoJob]
<1>1. /\ relStatus[r] # "ABSENT" /\ relStatus[r] # "SUCCESS"
      /\ IsRetry(r, retry) => /\ LatestFailed(r, TargetOf[r], "DEPLOY")
                              /\ relStatus[r] = "FAILED" \/ req[r].retry # NoJob
      /\ QuickBaseHolds(r)
      /\ UNCHANGED <<required, routed, submitted>>
      /\ astray' = IF req[r].op = "DEPLOY" THEN astray ELSE astray \cup {r}
  BY DEF QueueDeploy, DeployAsked, RetryIsCurrent, IsRetry, releaseCanQueue, InReview
<1>2. req \in [Release -> Request] /\ req[r] \in Request
  BY DEF WInv, TypeOK
<1>3. req' = [req EXCEPT ![r] = x]
  BY <1>2 DEF QueueDeploy
<1>4. /\ x \in Request /\ x.op = req[r].op /\ x.base = req[r].base /\ x.source = req[r].source
      /\ x.rev = req[r].rev /\ x.retry = NoJob
      /\ x.quick = req[r].quick /\ x.quickBase = req[r].quickBase
      /\ req[r].rev \in 0 .. MaxRev /\ req[r].op \in {"DEPLOY", "ROLLBACK"}
  BY <1>2 DEF Request
<1> HIDE DEF x
<1>5. QueueStep(j, r, "DEPLOY", req[r].rev, basis) /\ uploads[r] = NoUpload
  BY DEF QueueDeploy, QueueStep, DeployAsked
<1>6. TargetOf[r] \in Target /\ basis \in Job \cup {NoJob}
  BY TargetJobsAssumption DEF RetryBasis, WInv, TypeOK, RowsTypeOK
<1>7. basis # NoJob => basis \in JobsOf(r) /\ req[r].rev = bound[basis].rev
  <2> SUFFICES ASSUME basis # NoJob
               PROVE  basis \in JobsOf(r) /\ req[r].rev = bound[basis].rev
    OBVIOUS
  <2>1. /\ LatestFailed(r, TargetOf[r], "DEPLOY") /\ basis = latest[TargetOf[r]]
        /\ relStatus[r] = "FAILED" \/ req[r].retry # NoJob
    BY <1>1 DEF RetryBasis
  <2>2. basis \in JobsOf(r) /\ NewestOwn(basis) /\ jobs[basis].op = "DEPLOY"
    BY <2>1, <1>6, LatestIsNewestOwn DEF WInv, LatestFailed, JobsOf
  <2> QED BY <2>1, <2>2 DEF WInv, ReqOK, RevOK, Requested
<1>8. (x.op = "DEPLOY" => x.base = "NONE") /\ (x.op = "ROLLBACK" => x.base # "NONE" /\ Verified(x.source))
  BY <1>4 DEF WInv, ReqOK, RollbackOK
<1>9. r \notin astray' => /\ x.op = "DEPLOY"
                          /\ \A k \in JobsOf(r) : ~Verified(k)
  BY <1>1, <1>4 DEF WInv, ReqOK, OrderlyOK
<1>10. x.quick => heads[TargetOf[r]] = x.quickBase
  BY <1>1, <1>4 DEF QuickBaseHolds
<1>11. astray' \in {astray, astray \cup {r}} /\ UNCHANGED <<required, routed, submitted>>
  BY <1>1
<1>12. /\ r \notin astray' =>
             /\ "DEPLOY" = x.op /\ x.retry = NoJob
             /\ \A k \in JobsOf(r) : Verified(k) =>
                   bound[k].rev = x.rev /\ x.op = "ROLLBACK" /\ x.base = "SUCCESS"
       /\ x.quick = req[r].quick /\ x.quickBase = req[r].quickBase /\ req[r].rev = x.rev
       /\ x \in Request /\ req[r].rev \in 0 .. MaxRev /\ basis \in Job \cup {NoJob}
  BY <1>4, <1>6, <1>9
<1> HIDE DEF basis
<1> QED BY <1>3, <1>5, <1>7, <1>8, <1>10, <1>11, <1>12, QueueKeeps, ZenonT(60)

LEMMA ApproveAndQueueKeeps ==
    ASSUME WInv, NEW r \in Release, NEW u \in User, NEW j \in Job, ApproveAndQueue(u, j, r)
    PROVE  WInv'
<1> DEFINE x == [req[r] EXCEPT !.approver = u]
<1>1. /\ relStatus[r] \in UnderApproval
      /\ req[r].op = "DEPLOY" /\ req[r].retry = NoJob
      /\ QuickBaseHolds(r)
      /\ UNCHANGED <<required, routed, submitted, astray>>
  BY DEF ApproveAndQueue, DeploysOnApproval, UnderApproval
<1>2. req \in [Release -> Request] /\ req[r] \in Request
  BY DEF WInv, TypeOK
<1>3. req' = [req EXCEPT ![r] = x]
  BY <1>2 DEF ApproveAndQueue
<1>4. /\ x \in Request /\ x.op = "DEPLOY" /\ x.base = req[r].base
      /\ x.rev = req[r].rev /\ x.retry = NoJob
      /\ x.quick = req[r].quick /\ x.quickBase = req[r].quickBase
      /\ req[r].rev \in 0 .. MaxRev
  BY <1>1, <1>2 DEF Request
<1> HIDE DEF x
<1>5. /\ uploads[r] = NoUpload
      /\ r \notin astray => \A k \in JobsOf(r) : ~Verified(k)
  BY <1>1, ReviewedFacts
<1>6. QueueStep(j, r, "DEPLOY", req[r].rev, NoJob)
  BY <1>5 DEF ApproveAndQueue, QueueStep
<1>7. x.base = "NONE"
  BY <1>1, <1>4 DEF WInv, ReqOK, RollbackOK
<1>8. x.quick => heads[TargetOf[r]] = x.quickBase
  BY <1>1, <1>4 DEF QuickBaseHolds
<1>9. astray' \in {astray, astray \cup {r}}
  BY <1>1
<1> QED BY <1>1, <1>3, <1>4, <1>5, <1>6, <1>7, <1>8, <1>9, QueueKeeps

LEMMA QueueRollbackKeeps ==
    ASSUME WInv, NEW r \in Release, NEW u \in User, NEW j \in Job, NEW retry \in BOOLEAN,
           QueueRollback(u, j, r, retry)
    PROVE  WInv'
<1> DEFINE source == ExpectedSource(r, TargetOf[r])
           rev == req[jobs[source].release].rev
           x == [req[r] EXCEPT !.op = "ROLLBACK", !.source = source,
                               !.by = IF @ = NoUser THEN u ELSE @, !.base = RecordedBase(r)]
<1>1. RollbackReady(r, retry) /\ UNCHANGED <<required, routed, submitted, astray>>
  BY DEF QueueRollback
<1>2. /\ heads[TargetOf[r]] # NoJob /\ source # NoJob
      /\ uploads[r] = NoUpload
      /\ RecordedBase(r) \in {"SUCCESS", "FAILED"}
      /\ r \notin astray =>
            /\ \A k \in JobsOf(r) : Verified(k) =>
                  RecordedBase(r) = "SUCCESS" /\ bound[k].rev = req[r].rev
            /\ req[r].retry = NoJob
  BY <1>1, RollbackFacts
<1>3. /\ source \in Job /\ Verified(source)
      /\ jobs[source].release \in Release
      /\ jobs[source].release \notin astray => rev = bound[source].rev
  BY <1>2, SourceFacts
<1>4. req \in [Release -> Request] /\ req[r] \in Request
  BY DEF WInv, TypeOK
<1>5. rev \in 0 .. MaxRev
  BY <1>3, <1>4 DEF Request
<1>6. req' = [req EXCEPT ![r] = x]
  BY <1>4 DEF QueueRollback
<1>7. /\ x \in Request /\ x.op = "ROLLBACK" /\ x.source = source /\ x.base = RecordedBase(r)
      /\ x.rev = req[r].rev /\ x.retry = req[r].retry
      /\ x.quick = req[r].quick /\ x.quickBase = req[r].quickBase
  BY <1>2, <1>3, <1>4, ZenonT(60) DEF Request
<1>8. QueueStep(j, r, "ROLLBACK", rev, NoJob)
  BY <1>2 DEF QueueRollback, QueueStep
<1>9. FrozenSource(r, "ROLLBACK") = source
  BY DEF FrozenSource
<1>10. astray' \in {astray, astray \cup {r}}
  BY <1>1
<1> HIDE DEF x, source, rev
<1> QED BY <1>1, <1>2, <1>3, <1>5, <1>6, <1>7, <1>8, <1>9, <1>10, QueueKeeps, ZenonT(60)

-------------------------------------------------------------------------------
(***************************************************************************)
(* Quick releases, and requests that wait for an upload                    *)
(***************************************************************************)

\* What a quick release that stores its artifact starts from.
LEMMA QuickFacts ==
    ASSUME WInv, NEW r \in Release, QuickReady(r)
    PROVE  /\ uploads[r] # NoUpload /\ JobsOf(r) = {} /\ r \notin astray
           /\ uploads[r].job \in Job /\ ~Present(uploads[r].job)
           /\ QuickRow(r) \in Request
           /\ QuickRow(r).op = "DEPLOY" /\ QuickRow(r).base = "NONE" /\ QuickRow(r).retry = NoJob
           /\ QuickRow(r).rev = 1 /\ 1 \in 0 .. MaxRev /\ QuickRow(r).quick
           /\ QuickRow(r).quickBase = uploads[r].base
<1>1. /\ uploads[r] # NoUpload /\ relStatus[r] = "ABSENT"
      /\ uploads[r].job \in Job /\ ~Present(uploads[r].job)
  BY DEF WInv, UploadInv, UploadOK, QuickReady
<1>2. JobsOf(r) = {} /\ r \notin astray
  BY <1>1 DEF WInv, ReqOK, LifeOK
<1>3. /\ uploads[r].by \in User \cup {NoUser} /\ uploads[r].auto \in BOOLEAN
      /\ uploads[r].base \in Job \cup {NoJob}
  BY DEF WInv, TypeOK, Upload
<1>4. 1 \in 0 .. MaxRev
  BY ReleaseWorkflowAssumption
<1>5. NewRequest(uploads[r].by) \in Request
  BY <1>3, ReleaseWorkflowAssumption DEF NewRequest, Request
<1>6. QuickRow(r) \in Request
  BY <1>3, <1>4, <1>5 DEF QuickRow, Request
<1>7. /\ QuickRow(r).op = "DEPLOY" /\ QuickRow(r).base = "NONE" /\ QuickRow(r).retry = NoJob
      /\ QuickRow(r).rev = 1 /\ QuickRow(r).quick
      /\ QuickRow(r).quickBase = uploads[r].base
  BY DEF QuickRow, NewRequest
<1> QED BY <1>1, <1>2, <1>4, <1>6, <1>7

LEMMA QuickQueueKeeps ==
    ASSUME WInv, NEW r \in Release, QuickQueue(r)
    PROVE  WInv'
<1> DEFINE j == uploads[r].job
           x == QuickRow(r)
<1>1. /\ QuickReady(r) /\ uploads[r] # NoUpload /\ uploads[r].base = heads[TargetOf[r]]
      /\ Queue(j, r, "DEPLOY", 1, NoJob)
      /\ req' = [req EXCEPT ![r] = x]
      /\ uploads' = [uploads EXCEPT ![r] = NoUpload]
      /\ UNCHANGED <<required, routed, submitted, astray>>
  BY DEF QuickQueue, QuickReady
<1>2. /\ JobsOf(r) = {} /\ r \notin astray /\ j \in Job
      /\ x \in Request
      /\ x.op = "DEPLOY" /\ x.base = "NONE" /\ x.retry = NoJob
      /\ x.rev = 1 /\ 1 \in 0 .. MaxRev
      /\ x.quickBase = uploads[r].base
  BY <1>1, QuickFacts
<1>3. QueueStep(j, r, "DEPLOY", 1, NoJob)
  BY <1>1 DEF QueueStep
<1>4. astray' \in {astray, astray \cup {r}}
  BY <1>1
<1> HIDE DEF j, x
<1> QED BY <1>1, <1>2, <1>3, <1>4, QueueKeeps

\* A transaction that lasts begins: of a quick release, or of a deployment that
\* waits for the row of its release.
LEMMA BeginKeeps ==
    ASSUME WInv, NEW r \in Release, NEW j \in Job, NEW w \in Upload, w.job = j,
           uploads[r] = NoUpload, ~Present(j), ~Reserved(j),
           uploads' = [uploads EXCEPT ![r] = w], Begin(j, TargetOf[r]),
           relStatus[r] \in {"ABSENT", "UPLOADED", "REJECTED"},
           relStatus[r] = "ABSENT" => w.policy = required,
           relStatus[r] # "ABSENT" => ~req[r].quick,
           UNCHANGED <<relStatus, jobs, latest, heads, req, bound, required, routed,
                       submitted, astray>>
    PROVE  WInv'
<1> DEFINE t == TargetOf[r]
<1>1. t \in Target /\ uploads \in [Release -> Upload]
  BY TargetJobsAssumption DEF WInv, TypeOK
<1>2. /\ uploads' \in [Release -> Upload]
      /\ uploads'[r] = w
      /\ \A q \in Release \ {r} : uploads'[q] = uploads[q] /\ uploads[q].job # j
  BY <1>1 DEF Reserved
<1>3. uploads[r].job = NoJob
  BY DEF NoUpload
<1>4. \A i \in Job : Present(i)' \/ Reserved(i)' <=> Present(i) \/ Reserved(i) \/ i = j
  BY <1>2, <1>3, TargetJobsAssumption DEF Present, Reserved
<1>5. \A v \in Target : Begun(v)' = IF v = t THEN Begun(v) \cup {j} ELSE Begun(v)
  BY <1>2, <1>3, TargetJobsAssumption DEF Begun, JobsOn
<1>6. /\ OrderInv' /\ older' \in [Job -> SUBSET Job]
      /\ older'[j] = Begun(t)
      /\ \A i \in Job \ {j} : older'[i] = older[i]
  BY <1>1, <1>4, <1>5, BeginOrder
<1>7. TypeOK'
  BY <1>2, <1>6 DEF WInv, TypeOK, RowsTypeOK
<1>8. \A q \in Release : JobsOf(q)' = JobsOf(q)
  BY DEF JobsOf
<1>9. UploadInv'
  <2> SUFFICES ASSUME NEW q \in Release, uploads'[q] # NoUpload PROVE UploadOK(q)'
    BY DEF UploadInv
  <2>1. CASE q = r
    <3>1. JobsOf(r) \subseteq Begun(t)
      BY OwnJobs DEF WInv, Begun
    <3>2. JobsOf(r)' \subseteq older'[uploads'[r].job]
      BY <3>1, <1>2, <1>6, <1>8
    <3> QED BY <2>1, <3>2, <1>2 DEF UploadOK, Present
  <2>2. CASE q # r
    <3>1. UploadOK(q) /\ uploads'[q] = uploads[q] /\ uploads[q].job # j
      BY <2>2, <1>2 DEF WInv, UploadInv
    <3> QED BY <2>2, <3>1, <1>2, <1>6, <1>8 DEF UploadOK, Present
  <2> QED BY <2>1, <2>2
<1>10. \A i, k \in Job : Present(i) /\ Present(k) => (i \in older'[k] <=> i \in older[k])
  BY <1>6
<1>11. req[r].op = "DEPLOY" /\ ReqOK(r) /\ RowCore
  BY DEF WInv, ReqOK, LifeOK, Editable
<1>12. Untouched(r)
  <2>1. \A k \in JobsOf(r) : k \in Job \ {j} /\ jobs[k].release = r
    BY <1>11, OwnJobs
  <2> QED BY <2>1, <1>6, <1>8 DEF Untouched, NewestOwn
<1>13. ReqOK(r)'
  BY <1>11, <1>12, BystanderKeeps
<1> QED BY <1>7, <1>6, <1>9, <1>10, <1>13, NoJobWritten

LEMMA QuickBeginKeeps ==
    ASSUME WInv, NEW r \in Release, NEW u \in User, NEW j \in Job, NEW auto \in BOOLEAN,
           QuickBegin(u, j, r, auto)
    PROVE  WInv'
<1> DEFINE w == [job |-> j, by |-> u, auto |-> auto, base |-> heads[TargetOf[r]],
                 policy |-> required, stale |-> FALSE]
<1>1. heads[TargetOf[r]] \in Job \cup {NoJob} /\ required \in BOOLEAN
  BY TargetJobsAssumption DEF WInv, TypeOK, RowsTypeOK
<1>2. w \in Upload /\ w.job = j /\ w.policy = required
  BY <1>1 DEF Upload
<1>3. /\ relStatus[r] = "ABSENT" /\ uploads[r] = NoUpload /\ ~Present(j) /\ ~Reserved(j)
      /\ uploads' = [uploads EXCEPT ![r] = w]
      /\ Begin(j, TargetOf[r])
      /\ UNCHANGED <<relStatus, jobs, latest, heads, req, bound, required, routed, submitted, astray>>
  BY DEF QuickBegin, rowVars
<1> HIDE DEF w
<1> QED BY <1>2, <1>3, BeginKeeps

LEMMA DeployWaitsKeeps ==
    ASSUME WInv, NEW r \in Release, NEW j \in Job, DeployWaits(j, r)
    PROVE  WInv'
<1> DEFINE w == [NoUpload EXCEPT !.job = j, !.policy = required]
<1>1. w \in Upload /\ w.job = j
  BY DEF WInv, TypeOK, Upload, NoUpload
<1>2. /\ relStatus[r] \in {"UPLOADED", "REJECTED"} /\ ~req[r].quick
      /\ uploads[r] = NoUpload /\ ~Present(j) /\ ~Reserved(j)
      /\ uploads' = [uploads EXCEPT ![r] = w]
      /\ Begin(j, TargetOf[r])
      /\ UNCHANGED <<relStatus, jobs, latest, heads, req, bound, required, routed, submitted, astray>>
  BY DEF DeployWaits, rowVars
<1> HIDE DEF w
<1> QED BY <1>1, <1>2, BeginKeeps

\* Dropping what is gone leaves an order on the rest.
LEMMA ForgetOrder ==
    ASSUME WInv, NEW G \in SUBSET Job, Forget(G),
           \A i \in Job \ G : Present(i) \/ Reserved(i) => Present(i)' \/ Reserved(i)',
           \A u \in Target : Begun(u)' \subseteq Begun(u) \ G
    PROVE  /\ OrderInv'
           /\ older' \in [Job -> SUBSET Job]
           /\ \A i \in Job : older'[i] = IF i \in G THEN {} ELSE older[i] \ G
<1>1. /\ older' \in [Job -> SUBSET Job]
      /\ \A i \in Job : older'[i] = IF i \in G THEN {} ELSE older[i] \ G
  BY DEF WInv, TypeOK, Forget
<1>2. \A i \in Job : older[i] \subseteq {k \in Job : Present(k) \/ Reserved(k)}
  BY DEF WInv, OrderInv
<1>3. \A i, k \in Job : i \in older[k] => k \notin older[i]
  BY DEF WInv, OrderInv
<1>4. \A i \in Job : older'[i] \subseteq {k \in Job : Present(k)' \/ Reserved(k)'}
  BY <1>1, <1>2
<1>5. \A i, k \in Job : i \in older'[k] => k \notin older'[i]
  BY <1>1, <1>3
<1>6. ASSUME NEW u \in Target, NEW S \in SUBSET (Begun(u)'), S # {}
      PROVE  \E k \in S : S \ {k} \subseteq older'[k]
  <2>1. S \in SUBSET Begun(u) /\ S \cap G = {} /\ S \subseteq Job
    BY <1>6, BegunFacts
  <2>2. PICK k \in S : S \ {k} \subseteq older[k]
    BY <2>1, <1>6 DEF WInv, OrderInv
  <2> QED BY <2>1, <2>2, <1>1
<1>7. OrderInv'
  BY <1>4, <1>5, <1>6 DEF OrderInv
<1> QED BY <1>1, <1>7

\* The place given up in the order is none of the jobs of r.
LEMMA ForgottenIsUntouched ==
    ASSUME WInv, NEW r \in Release, uploads[r] # NoUpload, Forget({uploads[r].job}),
           UNCHANGED <<relStatus, jobs, req, bound, submitted>>
    PROVE  Untouched(r)
<1>1. \A k \in JobsOf(r) : k \in Job /\ k # uploads[r].job /\ jobs[k].release = r
  BY OwnJobs DEF WInv, UploadInv, UploadOK
<1>2. JobsOf(r)' = JobsOf(r)
  BY DEF JobsOf
<1>3. \A k \in JobsOf(r) : older'[k] = older[k] \ {uploads[r].job}
  BY <1>1 DEF Forget
<1>4. \A k \in JobsOf(r) : NewestOwn(k)' <=> NewestOwn(k)
  BY <1>1, <1>2, <1>3 DEF NewestOwn
<1> QED BY <1>2, <1>4 DEF Untouched

\* Such a transaction ends without a job.
LEMMA EndKeeps ==
    ASSUME WInv, NEW r \in Release, uploads[r] # NoUpload,
           uploads' = [uploads EXCEPT ![r] = NoUpload], Forget({uploads[r].job}),
           UNCHANGED <<jobs, latest, heads, bound, required, routed, astray>>,
           relStatus' \in [Release -> ReleaseStatus], req' \in [Release -> Request],
           submitted' \in [Release -> Review],
           \A q \in Release \ {r} : /\ relStatus'[q] = relStatus[q]
                                    /\ req'[q] = req[q]
                                    /\ submitted'[q] = submitted[q],
           \/ JobsOf(r) = {}
           \/ req'[r].quick = req[r].quick /\ req'[r].quickBase = req[r].quickBase,
           ReqOK(r)'
    PROVE  WInv'
<1> DEFINE j == uploads[r].job
<1>1. j \in Job /\ ~Present(j)
  BY DEF WInv, UploadInv, UploadOK
<1>2. /\ uploads' \in [Release -> Upload]
      /\ uploads'[r] = NoUpload
      /\ \A q \in Release \ {r} : uploads'[q] = uploads[q]
  <2>1. NoUpload \in Upload
    BY DEF NoUpload, Upload
  <2> QED BY <2>1 DEF WInv, TypeOK
<1>3. uploads'[r].job = NoJob /\ \A q \in Release \ {r} : uploads[q].job # j
  BY <1>2 DEF WInv, UploadInv, UploadOK, NoUpload
<1>4. \A i \in Job \ {j} : Present(i) \/ Reserved(i) => Present(i)' \/ Reserved(i)'
  BY <1>2, <1>3 DEF Present, Reserved
<1>5. \A u \in Target : Begun(u)' \subseteq Begun(u) \ {j}
  <2>1. \A u \in Target : j \notin JobsOn(u) /\ JobsOn(u)' = JobsOn(u)
    BY <1>1, TargetJobsAssumption DEF JobsOn, WInv, RowCore, RowsOK, NoRow
  <2> QED BY <2>1, <1>2, <1>3, TargetJobsAssumption DEF Begun
<1>6. /\ OrderInv' /\ older' \in [Job -> SUBSET Job]
      /\ \A i \in Job : older'[i] = IF i \in {j} THEN {} ELSE older[i] \ {j}
  <2> DEFINE G == {j}
  <2>1. G \in SUBSET Job /\ Forget(G)
    BY <1>1
  <2>2. /\ \A i \in Job \ G : Present(i) \/ Reserved(i) => Present(i)' \/ Reserved(i)'
        /\ \A u \in Target : Begun(u)' \subseteq Begun(u) \ G
    BY <1>4, <1>5
  <2> HIDE DEF G
  <2>3. /\ OrderInv' /\ older' \in [Job -> SUBSET Job]
        /\ \A i \in Job : older'[i] = IF i \in G THEN {} ELSE older[i] \ G
    BY <2>1, <2>2, ForgetOrder
  <2> QED BY <2>3 DEF G
<1>7. TypeOK'
  BY <1>2, <1>6 DEF WInv, TypeOK, RowsTypeOK
<1>8. UploadInv'
  <2> SUFFICES ASSUME NEW q \in Release, uploads'[q] # NoUpload PROVE UploadOK(q)'
    BY DEF UploadInv
  <2>1. q # r /\ uploads'[q] = uploads[q] /\ UploadOK(q) /\ uploads[q].job # j
    BY <1>2, <1>3 DEF WInv, UploadInv
  <2>2. JobsOf(q)' = JobsOf(q) /\ j \notin JobsOf(q)
    BY <1>1, OwnJobs DEF WInv, JobsOf
  <2>3. JobsOf(q)' \subseteq older'[uploads'[q].job]
    BY <2>1, <2>2, <1>6 DEF UploadOK
  <2> QED BY <2>1, <2>3, <1>2, <1>3, TargetJobsAssumption DEF UploadOK, Present
<1>9. \A i, k \in Job : Present(i) /\ Present(k) => (i \in older'[k] <=> i \in older[k])
  BY <1>1, <1>6
<1> QED BY <1>1, <1>6, <1>7, <1>8, <1>9, NoJobWritten

LEMMA QuickSubmitKeeps ==
    ASSUME WInv, NEW r \in Release, QuickSubmit(r)
    PROVE  WInv'
<1>1. /\ uploads[r] # NoUpload /\ QuickReady(r)
      /\ SetRelease(r, "PENDING_REVIEW")
      /\ req' = [req EXCEPT ![r] = QuickRow(r)]
      /\ submitted' = [submitted EXCEPT ![r] =
             [op |-> "DEPLOY", source |-> NoJob, retry |-> NoJob, rev |-> 1]]
      /\ uploads' = [uploads EXCEPT ![r] = NoUpload]
      /\ Forget({uploads[r].job})
      /\ UNCHANGED <<jobs, latest, heads, bound, required, routed, astray>>
  BY DEF QuickSubmit, QuickReady
<1>2. /\ JobsOf(r) = {} /\ r \notin astray
      /\ QuickRow(r) \in Request
      /\ QuickRow(r).op = "DEPLOY" /\ QuickRow(r).base = "NONE" /\ QuickRow(r).retry = NoJob
      /\ QuickRow(r).rev = 1 /\ 1 \in 0 .. MaxRev
  BY <1>1, QuickFacts
<1>3. /\ relStatus' \in [Release -> ReleaseStatus]
      /\ relStatus'[r] = "PENDING_REVIEW"
      /\ \A q \in Release \ {r} : relStatus'[q] = relStatus[q]
  BY <1>1, SetReleaseIs DEF WInv, ReleaseStatus, Requested
<1>4. /\ req' \in [Release -> Request] /\ req'[r] = QuickRow(r)
      /\ \A q \in Release \ {r} : req'[q] = req[q]
  BY <1>1, <1>2 DEF WInv, TypeOK
<1>5. /\ submitted' \in [Release -> Review]
      /\ submitted'[r] = [op |-> "DEPLOY", source |-> NoJob, retry |-> NoJob, rev |-> 1]
      /\ \A q \in Release \ {r} : submitted'[q] = submitted[q]
  BY <1>1, <1>2 DEF WInv, TypeOK, Review
<1>6. JobsOf(r)' = {}
  BY <1>1, <1>2 DEF JobsOf
<1>7. ReqOK(r)'
  BY <1>2, <1>3, <1>4, <1>5, <1>6
     DEF ReqOK, LifeOK, RollbackOK, RevOK, OrderlyOK, ReviewOK, Editable, UnderApproval, InReview
<1> QED BY <1>1, <1>2, <1>3, <1>4, <1>5, <1>7, EndKeeps

LEMMA AbandonKeeps ==
    ASSUME WInv, NEW r \in Release, Abandon(r)
    PROVE  WInv'
<1>1. /\ uploads[r] # NoUpload
      /\ uploads' = [uploads EXCEPT ![r] = NoUpload]
      /\ Forget({uploads[r].job})
      /\ UNCHANGED <<relStatus, jobs, latest, heads, req, bound, required, routed, submitted, astray>>
  BY DEF Abandon, rowVars
<1>2. ReqOK(r) /\ RowCore /\ req[r].op = "DEPLOY"
  BY <1>1 DEF WInv, UploadInv, UploadOK, ReqOK, LifeOK, Editable
<1>3. Untouched(r)
  BY <1>1, ForgottenIsUntouched
<1>4. ReqOK(r)'
  BY <1>1, <1>2, <1>3, BystanderKeeps
<1> QED BY <1>1, <1>4, EndKeeps DEF WInv, TypeOK, RowsTypeOK

\* After the wait the release is as an unsubmitted one.
LEMMA WaitedFacts ==
    ASSUME WInv, NEW r \in Release, Waited(r)
    PROVE  /\ uploads[r] # NoUpload /\ uploads[r].job \in Job
           /\ relStatus[r] \in Editable /\ ~req[r].quick
           /\ req[r] \in Request /\ req[r].rev \in 0 .. MaxRev
           /\ req[r].op = "DEPLOY" /\ req[r].retry = NoJob /\ req[r].base = "NONE"
           /\ \A j \in JobsOf(r) : ~Active(j)
           /\ r \notin astray => \A j \in JobsOf(r) : ~Verified(j)
<1>1. /\ uploads[r] # NoUpload /\ uploads[r].job \in Job
      /\ relStatus[r] \in Editable /\ ~req[r].quick
  BY DEF Waited, WInv, UploadInv, UploadOK, Editable
<1>2. req[r] \in Request /\ req[r].rev \in 0 .. MaxRev
  BY DEF WInv, TypeOK, Request
<1> QED BY <1>1, <1>2, EditableFacts

LEMMA WaitedQueueKeeps ==
    ASSUME WInv, NEW r \in Release, WaitedQueue(r)
    PROVE  WInv'
<1> DEFINE j == uploads[r].job
           x == req[r]
<1>1. /\ Waited(r)
      /\ Queue(j, r, "DEPLOY", req[r].rev, NoJob)
      /\ uploads' = [uploads EXCEPT ![r] = NoUpload]
      /\ UNCHANGED <<req, required, routed, submitted, astray>>
  BY DEF WaitedQueue
<1>2. /\ uploads[r] # NoUpload /\ j \in Job
      /\ x \in Request /\ req[r].rev \in 0 .. MaxRev /\ req[r].rev = x.rev
      /\ x.op = "DEPLOY" /\ x.base = "NONE" /\ x.retry = NoJob /\ ~x.quick
      /\ r \notin astray => \A k \in JobsOf(r) : ~Verified(k)
      /\ x.quick = req[r].quick /\ x.quickBase = req[r].quickBase
  BY <1>1, WaitedFacts
<1>3. QueueStep(j, r, "DEPLOY", req[r].rev, NoJob)
  BY <1>1, <1>2 DEF QueueStep
<1>4. req' = [req EXCEPT ![r] = x] /\ astray' \in {astray, astray \cup {r}}
  BY <1>1 DEF WInv, TypeOK
<1>5. /\ "DEPLOY" \in {"DEPLOY", "ROLLBACK"} /\ NoJob \in Job \cup {NoJob}
      /\ UNCHANGED <<required, routed, submitted>>
      /\ x.op # "ROLLBACK"
      /\ r \notin astray' =>
            /\ "DEPLOY" = x.op /\ x.retry = NoJob
            /\ \A k \in JobsOf(r) : Verified(k) =>
                  bound[k].rev = x.rev /\ x.op = "ROLLBACK" /\ x.base = "SUCCESS"
  BY <1>1, <1>2
<1> DEFINE rev == req[r].rev
<1>6. QueueStep(j, r, "DEPLOY", rev, NoJob) /\ rev \in 0 .. MaxRev /\ rev = x.rev
  BY <1>2, <1>3
<1> HIDE DEF j, x, rev
<1> QED BY <1>2, <1>4, <1>5, <1>6, QueueKeeps

LEMMA WaitedSubmitKeeps ==
    ASSUME WInv, NEW r \in Release, WaitedSubmit(r)
    PROVE  WInv'
<1> DEFINE x == [req[r] EXCEPT !.approver = NoUser]
<1>1. /\ Waited(r)
      /\ SetRelease(r, "PENDING_REVIEW")
      /\ req' = [req EXCEPT ![r].approver = NoUser]
      /\ submitted' = [submitted EXCEPT ![r] =
             [op |-> "DEPLOY", source |-> NoJob, retry |-> NoJob, rev |-> req[r].rev]]
      /\ uploads' = [uploads EXCEPT ![r] = NoUpload]
      /\ Forget({uploads[r].job})
      /\ UNCHANGED <<jobs, latest, heads, bound, required, routed, astray>>
  BY DEF WaitedSubmit, Submit
<1>2. /\ uploads[r] # NoUpload
      /\ req[r] \in Request /\ req[r].rev \in 0 .. MaxRev
      /\ req[r].op = "DEPLOY" /\ req[r].retry = NoJob /\ req[r].base = "NONE"
      /\ \A j \in JobsOf(r) : ~Active(j) /\ j \in Job
      /\ r \notin astray => \A j \in JobsOf(r) : ~Verified(j)
  BY <1>1, WaitedFacts DEF JobsOf
<1>3. /\ relStatus' \in [Release -> ReleaseStatus]
      /\ relStatus'[r] = "PENDING_REVIEW"
      /\ \A q \in Release \ {r} : relStatus'[q] = relStatus[q]
  BY <1>1, SetReleaseIs DEF WInv, ReleaseStatus, Requested
<1>4. /\ x \in Request /\ x.op = "DEPLOY" /\ x.retry = NoJob /\ x.base = "NONE"
      /\ x.rev = req[r].rev /\ x.quick = req[r].quick /\ x.quickBase = req[r].quickBase
  BY <1>2 DEF Request
<1>5. req' = [req EXCEPT ![r] = x] /\ req \in [Release -> Request]
  BY <1>1 DEF WInv, TypeOK
<1> HIDE DEF x
<1>6. /\ req' \in [Release -> Request] /\ req'[r] = x
      /\ \A q \in Release \ {r} : req'[q] = req[q]
  BY <1>4, <1>5
<1>7. /\ submitted' \in [Release -> Review]
      /\ submitted'[r] = [op |-> "DEPLOY", source |-> NoJob, retry |-> NoJob, rev |-> req[r].rev]
      /\ \A q \in Release \ {r} : submitted'[q] = submitted[q]
  BY <1>1, <1>2 DEF WInv, TypeOK, Review
<1>8. JobsOf(r)' = JobsOf(r) /\ \A j \in JobsOf(r) : jobs'[j] = jobs[j]
  BY <1>1 DEF JobsOf
<1>9. /\ \A j \in JobsOf(r) : ~Active(j)'
      /\ r \notin astray => \A j \in JobsOf(r) : ~Verified(j)'
  BY <1>2, <1>8 DEF Active, Verified
<1>10. LifeOK(r)' /\ RollbackOK(r)' /\ RevOK(r)'
  BY <1>3, <1>4, <1>6, <1>8, <1>9 DEF LifeOK, RollbackOK, RevOK, Editable, Requested
<1>11. r \notin astray => OrderlyOK(r)' /\ ReviewOK(r)'
  BY <1>3, <1>4, <1>6, <1>7, <1>8, <1>9 DEF OrderlyOK, ReviewOK, UnderApproval, InReview
<1>12. ReqOK(r)'
  BY <1>1, <1>10, <1>11 DEF ReqOK
<1> QED BY <1>1, <1>2, <1>3, <1>4, <1>6, <1>7, <1>12, EndKeeps

-------------------------------------------------------------------------------
(***************************************************************************)
(* Deleting a release                                                      *)
(***************************************************************************)

\* What the step does to the rows.
Deleted(r) ==
    /\ \A i \in JobsOf(r) : /\ jobs'[i] = NoRow /\ bound'[i] = Unbound
                            /\ i \in Job /\ Present(i) /\ ~Active(i)
    /\ \A i \in Job \ JobsOf(r) : jobs'[i] = jobs[i] /\ bound'[i] = bound[i]
    /\ \A i \in Job : Present(i)' <=> Present(i) /\ i \notin JobsOf(r)
    /\ \A i \in Job : Active(i)' <=> Active(i)
    /\ \A i \in Job \ JobsOf(r) : Verified(i)' <=> Verified(i)
    /\ JobsOf(r)' = {}
    /\ \A q \in Release \ {r} : JobsOf(q)' = JobsOf(q) /\ JobsOf(q) \cap JobsOf(r) = {}
    /\ \A u \in Target : JobsOn(u)' = JobsOn(u) \ JobsOf(r)
    /\ \A u \in Target \ {TargetOf[r]} : JobsOn(u) \cap JobsOf(r) = {}
    /\ heads' = heads
    /\ \A u \in Target : heads[u] \notin JobsOf(r)
    /\ \A i \in Job \ JobsOf(r) : jobs[i].source \notin JobsOf(r)
    /\ \A q \in Release \ {r} : req[q].source \notin JobsOf(r)

LEMMA DeleteRows ==
    ASSUME WInv, NEW r \in Release, DeleteRelease(r)
    PROVE  Deleted(r)
<1>1. /\ jobs' = [j \in Job |-> IF j \in JobsOf(r) THEN NoRow ELSE jobs[j]]
      /\ bound' = [j \in Job |-> IF j \in JobsOf(r) THEN Unbound ELSE bound[j]]
      /\ heads' = heads /\ ~Referenced(r) /\ relStatus[r] \in Editable
  BY DEF DeleteRelease
<1>2. \A i \in JobsOf(r) : /\ i \in Job /\ Present(i) /\ ~Active(i)
                           /\ jobs[i].release = r /\ jobs[i].target = TargetOf[r]
  BY <1>1, OwnJobs, EditableFacts DEF WInv
<1>3. /\ \A i \in JobsOf(r) : jobs'[i] = NoRow /\ bound'[i] = Unbound
      /\ \A i \in Job \ JobsOf(r) : jobs'[i] = jobs[i] /\ bound'[i] = bound[i]
  BY <1>1, <1>2
<1>4. /\ \A i \in Job : Present(i)' <=> Present(i) /\ i \notin JobsOf(r)
      /\ \A i \in Job : Active(i)' <=> Active(i)
      /\ \A i \in Job \ JobsOf(r) : Verified(i)' <=> Verified(i)
  <2>1. NoRow.status = "ABSENT"
    BY DEF NoRow
  <2> QED BY <2>1, <1>2, <1>3 DEF Present, Active, Verified, Running
<1>5. /\ JobsOf(r)' = {}
      /\ \A q \in Release \ {r} : JobsOf(q)' = JobsOf(q) /\ JobsOf(q) \cap JobsOf(r) = {}
  <2>1. NoRow.release = NoRelease
    BY DEF NoRow
  <2> QED BY <2>1, <1>3, TargetJobsAssumption DEF JobsOf
<1>6. /\ \A u \in Target : JobsOn(u)' = JobsOn(u) \ JobsOf(r)
      /\ \A u \in Target \ {TargetOf[r]} : JobsOn(u) \cap JobsOf(r) = {}
  <2>1. NoRow.target = NoTarget
    BY DEF NoRow
  <2> QED BY <2>1, <1>2, <1>3, TargetJobsAssumption DEF JobsOn
<1>7. /\ \A u \in Target : heads[u] \notin JobsOf(r)
      /\ \A i \in Job \ JobsOf(r) : jobs[i].source \notin JobsOf(r)
      /\ \A q \in Release \ {r} : req[q].source \notin JobsOf(r)
  BY <1>1 DEF Referenced
<1> QED BY <1>1, <1>2, <1>3, <1>4, <1>5, <1>6, <1>7 DEF Deleted

LEMMA DeleteOrder ==
    ASSUME WInv, NEW r \in Release, DeleteRelease(r), Deleted(r)
    PROVE  /\ OrderInv' /\ LatestInv' /\ UploadInv'
           /\ older' \in [Job -> SUBSET Job]
           /\ \A i \in Job \ JobsOf(r) : older'[i] = older[i] \ JobsOf(r)
           /\ latest' \in [Target -> Job \cup {NoJob}]
<1> DEFINE G == JobsOf(r)
           t == TargetOf[r]
<1>1. /\ G \in SUBSET Job /\ t \in Target
      /\ \A i \in G : Present(i)
      /\ \A i \in Job : Present(i)' <=> Present(i) /\ i \notin G
      /\ \A u \in Target : JobsOn(u)' = JobsOn(u) \ G
      /\ \A u \in Target \ {t} : JobsOn(u) \cap G = {}
  BY TargetJobsAssumption DEF Deleted
<1>2. /\ Forget(G) /\ UNCHANGED uploads /\ SetRelease(r, "ABSENT")
      /\ latest' = [latest EXCEPT ![t] = Newest(older, JobsOn(t) \ G)]
  BY DEF DeleteRelease
<1>3. \A i \in Job \ G : Present(i) \/ Reserved(i) => Present(i)' \/ Reserved(i)'
  BY <1>1, <1>2 DEF Reserved
<1>4. \A q \in Release : uploads[q].job \notin G
  <2>1. \A q \in Release : uploads[q] # NoUpload => ~Present(uploads[q].job)
    BY DEF WInv, UploadInv, UploadOK
  <2>2. \A q \in Release : uploads[q] = NoUpload => uploads[q].job \notin G
    BY <1>1, TargetJobsAssumption DEF NoUpload
  <2> QED BY <2>1, <2>2, <1>1
<1>5. \A u \in Target : Begun(u)' \subseteq Begun(u) \ G
  BY <1>1, <1>2, <1>4 DEF Begun
<1> HIDE DEF G
<1>6. /\ OrderInv' /\ older' \in [Job -> SUBSET Job]
      /\ \A i \in Job : older'[i] = IF i \in G THEN {} ELSE older[i] \ G
  BY <1>1, <1>2, <1>3, <1>5, ForgetOrder
<1>7. /\ latest'[t] = Newest(older, JobsOn(t)')
      /\ \A u \in Target \ {t} : latest'[u] = latest[u]
  BY <1>1, <1>2 DEF WInv, TypeOK, RowsTypeOK
<1>8. JobsOn(t)' # {} =>
        /\ latest'[t] \in JobsOn(t)'
        /\ JobsOn(t)' \ {latest'[t]} \subseteq older[latest'[t]]
  <2> SUFFICES ASSUME JobsOn(t)' # {}
               PROVE  /\ latest'[t] \in JobsOn(t)'
                      /\ JobsOn(t)' \ {latest'[t]} \subseteq older[latest'[t]]
    OBVIOUS
  <2>1. JobsOn(t)' \in SUBSET Begun(t)
    BY <1>1 DEF Begun
  <2>2. \E k \in JobsOn(t)' : JobsOn(t)' \ {k} \subseteq older[k]
    BY <2>1, <1>1 DEF WInv, OrderInv
  <2> QED BY <2>2, <1>7, NewestIs
<1>9. JobsOn(t)' = {} => latest'[t] = NoJob
  BY <1>7 DEF Newest
<1>10. \A u \in Target : JobsOn(u) \subseteq Job
  BY DEF JobsOn
<1>11. LatestInv'
  <2> SUFFICES ASSUME NEW u \in Target
               PROVE  IF JobsOn(u)' = {} THEN latest'[u] = NoJob
                      ELSE latest'[u] \in JobsOn(u)' /\ JobsOn(u)' \ {latest'[u]} \subseteq older'[latest'[u]]
    BY DEF LatestInv
  <2>1. CASE u = t
    BY <2>1, <1>1, <1>6, <1>8, <1>9, <1>10
  <2>2. CASE u # t
    <3>1. JobsOn(u)' = JobsOn(u) /\ JobsOn(u) \cap G = {} /\ latest'[u] = latest[u]
      BY <2>2, <1>1, <1>7
    <3>2. IF JobsOn(u) = {} THEN latest[u] = NoJob
          ELSE latest[u] \in JobsOn(u) /\ JobsOn(u) \ {latest[u]} \subseteq older[latest[u]]
      BY DEF WInv, LatestInv
    <3> QED BY <3>1, <3>2, <1>6, <1>10
  <2> QED BY <2>1, <2>2
<1>12. latest' \in [Target -> Job \cup {NoJob}]
  <2>1. Newest(older, JobsOn(t) \ G) \in Job \cup {NoJob}
    BY <1>1, <1>7, <1>8, <1>9, <1>10
  <2> QED BY <2>1, <1>2 DEF WInv, TypeOK, RowsTypeOK
<1>13. UploadInv'
  <2> SUFFICES ASSUME NEW q \in Release, uploads[q] # NoUpload PROVE UploadOK(q)'
    BY <1>2 DEF UploadInv
  <2>1. q # r /\ UploadOK(q) /\ UNCHANGED required
    BY DEF WInv, UploadInv, DeleteRelease
  <2>2. relStatus'[q] = relStatus[q] /\ req'[q] = req[q]
    BY <2>1 DEF WInv, TypeOK, RowsTypeOK, SetRelease, DeleteRelease
  <2>3. JobsOf(q)' = JobsOf(q) /\ JobsOf(q) \cap G = {}
    BY <2>1 DEF Deleted, G
  <2>4. JobsOf(q)' \subseteq older'[uploads[q].job]
    BY <2>1, <2>3, <1>4, <1>6 DEF UploadOK
  <2> QED BY <2>1, <2>2, <2>4, <1>1, <1>2 DEF UploadOK
<1> QED BY <1>6, <1>11, <1>12, <1>13 DEF G

\* Nothing the database keeps refers to a job that goes.
LEMMA DeletedRowCore ==
    ASSUME RowCore, NEW r \in Release, Deleted(r), RowsTypeOK'
    PROVE  RowCore'
<1> USE DEF RowCore
<1>1. RowsOK'
  <2> SUFFICES ASSUME NEW i \in Job
               PROVE  /\ Present(i)' => /\ jobs'[i].release \in Release
                                        /\ jobs'[i].target = TargetOf[jobs'[i].release]
                      /\ ~Present(i)' => jobs'[i] = NoRow
    BY DEF RowsOK
  <2> QED BY DEF RowsOK, Deleted
<1>2. OneActivePerTarget'
  <2>1. \A i \in Job : Active(i)' => Active(i) /\ jobs'[i] = jobs[i]
    BY DEF Deleted
  <2> QED BY <2>1 DEF OneActivePerTarget
<1>3. HeadIsVerified'
  <2>1. ASSUME NEW u \in Target, heads[u] # NoJob
        PROVE  Verified(heads[u])' /\ jobs'[heads[u]].target = u
    <3>1. Verified(heads[u]) /\ heads[u] \in Job \ JobsOf(r) /\ jobs[heads[u]].target = u
      BY <2>1 DEF HeadIsVerified, Deleted, Verified
    <3> QED BY <3>1 DEF Deleted, Verified
  <2>2. ASSUME NEW i \in Job, jobs'[i].source # NoJob
        PROVE  Verified(jobs[i].source)' /\ jobs'[jobs'[i].source].target = jobs'[i].target
    <3>1. i \notin JobsOf(r) /\ jobs'[i] = jobs[i]
      BY <2>2 DEF Deleted, NoRow
    <3>2. /\ Verified(jobs[i].source) /\ jobs[i].source \in Job \ JobsOf(r)
          /\ jobs[jobs[i].source].target = jobs[i].target
      BY <2>2, <3>1 DEF HeadIsVerified, Deleted, Verified
    <3> QED BY <3>1, <3>2 DEF Deleted, Verified
  <2> QED BY <2>1, <2>2 DEF HeadIsVerified, Deleted
<1>4. FrozenBasisStaysCurrent'
  <2> SUFFICES ASSUME NEW i \in Job, Active(i)'
               PROVE  /\ jobs'[i].source = FrozenSource(jobs[i].release, jobs[i].op)'
                      /\ HeadSyncAccepted(i)'
    BY DEF FrozenBasisStaysCurrent
  <2>1. /\ Active(i) /\ jobs'[i] = jobs[i] /\ i \notin JobsOf(r)
        /\ jobs[i].release \in Release
        /\ jobs[i].target = TargetOf[jobs[i].release]
        /\ jobs[i].target \in Target
        /\ jobs[i].source = FrozenSource(jobs[i].release, jobs[i].op)
        /\ HeadSyncAccepted(i)
    BY TargetJobsAssumption
       DEF Deleted, RowsOK, FrozenBasisStaysCurrent, Present, Active, Running
  <2> DEFINE h == heads[jobs[i].target]
  <2>2. heads'[jobs[i].target] = h /\ (h # NoJob => h \in Job /\ jobs'[h] = jobs[h])
    BY <2>1 DEF Deleted, RowsTypeOK
  <2>3. FrozenSource(jobs[i].release, jobs[i].op)' = FrozenSource(jobs[i].release, jobs[i].op)
    BY <2>1, <2>2 DEF FrozenSource, ExpectedSource, IsHeadRelease
  <2>4. jobs[i].source \notin JobsOf(r)
    BY <2>1 DEF Deleted
  <2>5. Verified(jobs[i].source) =>
          Verified(jobs[i].source)' /\ jobs'[jobs[i].source] = jobs[jobs[i].source]
    BY <2>1, <2>4 DEF Deleted, Verified
  <2>6. HeadSyncAccepted(i)'
    BY <2>1, <2>2, <2>5 DEF HeadSyncAccepted
  <2> QED BY <2>1, <2>3, <2>6
<1> QED BY <1>1, <1>2, <1>3, <1>4

LEMMA DeleteReleaseKeeps ==
    ASSUME WInv, NEW r \in Release, DeleteRelease(r)
    PROVE  WInv'
<1>1. Deleted(r)
  BY DeleteRows
<1>2. /\ OrderInv' /\ LatestInv' /\ UploadInv'
      /\ older' \in [Job -> SUBSET Job]
      /\ \A i \in Job \ JobsOf(r) : older'[i] = older[i] \ JobsOf(r)
      /\ latest' \in [Target -> Job \cup {NoJob}]
  BY <1>1, DeleteOrder
<1>3. /\ relStatus' \in [Release -> ReleaseStatus]
      /\ relStatus'[r] = "ABSENT"
      /\ \A q \in Release \ {r} : relStatus'[q] = relStatus[q]
  BY SetReleaseIs DEF WInv, DeleteRelease, ReleaseStatus
<1>4. /\ req' \in [Release -> Request] /\ req'[r] = NewRequest(NoUser)
      /\ \A q \in Release \ {r} : req'[q] = req[q]
  BY ReleaseWorkflowAssumption DEF DeleteRelease, WInv, TypeOK, NewRequest, Request
<1>5. /\ submitted' \in [Release -> Review]
      /\ \A q \in Release \ {r} : submitted'[q] = submitted[q]
  <2>1. NoReview \in Review
    BY ReleaseWorkflowAssumption DEF NoReview, Review
  <2> QED BY <2>1 DEF DeleteRelease, WInv, TypeOK
<1>6. astray' = astray \ {r} /\ routed' = routed \ {r} /\ UNCHANGED <<heads, required, uploads>>
  BY DEF DeleteRelease
<1>7. RowsTypeOK' /\ bound' \in [Job -> Binding]
  <2>1. NoRow \in JobRow
    BY DEF NoRow, JobRow
  <2>2. jobs' \in [Job -> JobRow]
    BY <2>1 DEF DeleteRelease, WInv, TypeOK, RowsTypeOK
  <2>3. Unbound \in Binding
    BY ReleaseWorkflowAssumption DEF Unbound, Binding
  <2>4. bound' \in [Job -> Binding]
    BY <2>3 DEF DeleteRelease, WInv, TypeOK
  <2> QED BY <2>2, <2>4, <1>2, <1>3, <1>6 DEF WInv, TypeOK, RowsTypeOK
<1>8. TypeOK'
  BY <1>2, <1>4, <1>5, <1>6, <1>7 DEF WInv, TypeOK
<1>9. RowCore'
  BY <1>1, <1>7, DeletedRowCore DEF WInv
<1>10. ReqOK(r)'
  <2>1. JobsOf(r)' = {} /\ r \notin astray'
    BY <1>1, <1>6 DEF Deleted
  <2> QED BY <2>1, <1>3, <1>4
          DEF ReqOK, LifeOK, RollbackOK, RevOK, OrderlyOK, ReviewOK, NewRequest, UnderApproval,
              InReview
<1>11. ASSUME NEW q \in Release, q # r
       PROVE  ReqOK(q)'
  <2>1. \A k \in JobsOf(q) : k \in Job \ JobsOf(r) /\ jobs[k].release = q
    BY <1>11 DEF JobsOf
  <2>2. Untouched(q)
    <3>1. JobsOf(q)' = JobsOf(q) /\ JobsOf(q) \cap JobsOf(r) = {}
      BY <1>1, <1>11 DEF Deleted
    <3>2. \A k \in JobsOf(q) : jobs'[k] = jobs[k] /\ bound'[k] = bound[k]
      BY <2>1, <1>1 DEF Deleted
    <3>3. \A k \in JobsOf(q) : JobsOf(jobs[k].release)' = JobsOf(jobs[k].release)
      BY <2>1, <3>1, <3>2 DEF JobsOf
    <3>4. \A k \in JobsOf(q) : NewestOwn(k)' <=> NewestOwn(k)
      BY <2>1, <3>1, <3>3, <1>2 DEF NewestOwn
    <3>5. relStatus'[q] = relStatus[q] /\ req'[q] = req[q] /\ submitted'[q] = submitted[q]
      BY <1>3, <1>4, <1>5, <1>11
    <3> QED BY <3>1, <3>2, <3>4, <3>5 DEF Untouched
  <2>3. ReqOK(q) /\ RowCore
    BY DEF WInv
  <2>4. req[q].op = "ROLLBACK" =>
          /\ Verified(req[q].source)'
          /\ bound'[req[q].source] = bound[req[q].source]
          /\ jobs'[req[q].source].release = jobs[req[q].source].release
          /\ jobs[req[q].source].release # r
    <3> SUFFICES ASSUME req[q].op = "ROLLBACK"
                 PROVE  /\ Verified(req[q].source)'
                        /\ bound'[req[q].source] = bound[req[q].source]
                        /\ jobs'[req[q].source].release = jobs[req[q].source].release
                        /\ jobs[req[q].source].release # r
      OBVIOUS
    <3>1. Verified(req[q].source) /\ req[q].source \in Job \ JobsOf(r)
      BY <2>3, <1>1, <1>11 DEF ReqOK, RollbackOK, Deleted, Verified
    <3>2. jobs[req[q].source].release # r
      BY <3>1 DEF JobsOf
    <3> QED BY <3>1, <3>2, <1>1, <1>4, <1>11 DEF Deleted, Verified
  <2> QED BY <2>2, <2>3, <2>4, <1>6, <1>11, BystanderKeeps
<1>12. \A i \in Job : JobOK(i)'
  <2> SUFFICES ASSUME NEW i \in Job PROVE JobOK(i)'
    OBVIOUS
  <2>1. CASE i \in JobsOf(r)
    BY <2>1, <1>1 DEF JobOK, Deleted
  <2>2. CASE i \notin JobsOf(r)
    BY <2>2, <1>1 DEF WInv, JobOK, Deleted
  <2> QED BY <2>1, <2>2
<1>13. QuickReplacesItsBase'
  <2> SUFFICES ASSUME NEW i \in Job, Present(i)', jobs'[i].op = "DEPLOY",
                      req'[jobs'[i].release].quick
               PROVE  jobs'[i].source = req'[jobs'[i].release].quickBase
    BY DEF QuickReplacesItsBase
  <2>1. /\ i \notin JobsOf(r) /\ jobs'[i] = jobs[i] /\ Present(i)
        /\ jobs[i].release \in Release \ {r}
    BY <1>1 DEF Deleted, WInv, RowCore, RowsOK, JobsOf
  <2> QED BY <2>1, <1>4 DEF WInv, QuickReplacesItsBase
<1>14. BoundContentIsTheSame'
  <2> SUFFICES ASSUME NEW i \in Job
               PROVE  /\ /\ jobs'[i].op = "ROLLBACK" /\ jobs'[jobs'[i].source].release \notin astray'
                         /\ ~bound'[jobs'[i].source].stale
                         => bound'[i].rev = bound'[jobs'[i].source].rev /\ ~bound'[i].stale
                      /\ bound'[i].retryOf # NoJob =>
                            /\ jobs'[bound'[i].retryOf].release = jobs'[i].release
                            /\ ~bound'[bound'[i].retryOf].stale =>
                                  bound'[i].rev = bound'[bound'[i].retryOf].rev /\ ~bound'[i].stale
    BY DEF BoundContentIsTheSame, RepeatsContent
  <2>1. CASE i \in JobsOf(r)
    BY <2>1, <1>1 DEF Deleted, NoRow, Unbound
  <2>2. CASE i \notin JobsOf(r)
    <3>1. jobs'[i] = jobs[i] /\ bound'[i] = bound[i] /\ jobs[i].release # r
      BY <2>2, <1>1 DEF Deleted, JobsOf
    <3>2. jobs[i].op = "ROLLBACK" => Verified(jobs[i].source) /\ jobs[i].source \in Job \ JobsOf(r)
      <4>1. jobs[i].op = "ROLLBACK" => Verified(jobs[i].source)
        BY DEF WInv, RowCore, RowsOK, HeadIsVerified, JobOK, NoRow
      <4> QED BY <4>1, <2>2, <1>1 DEF Deleted, Verified
    <3>3. jobs[i].op = "ROLLBACK" =>
             LET s == jobs[i].source IN
             jobs'[s] = jobs[s] /\ bound'[s] = bound[s] /\ jobs[s].release # r
      BY <3>2, <1>1 DEF Deleted, JobsOf
    <3>4. bound[i].retryOf # NoJob =>
            /\ bound[i].retryOf \in Job
            /\ jobs[bound[i].retryOf].release = jobs[i].release
      BY DEF WInv, TypeOK, Binding, BoundContentIsTheSame
    <3>5. bound[i].retryOf # NoJob =>
             LET s == bound[i].retryOf IN jobs'[s] = jobs[s] /\ bound'[s] = bound[s]
      BY <3>1, <3>4, <1>1 DEF Deleted, JobsOf
    <3> QED BY <3>1, <3>3, <3>5, <1>6 DEF WInv, BoundContentIsTheSame, RepeatsContent
  <2> QED BY <2>1, <2>2
<1> QED BY <1>2, <1>8, <1>9, <1>10, <1>11, <1>12, <1>13, <1>14 DEF WInv

-------------------------------------------------------------------------------
(***************************************************************************)
(* The runners                                                             *)
(***************************************************************************)

\* An unfinished job and its release get a new status, and the head may move.
LEMMA JobMovesKeeps ==
    ASSUME WInv, NEW j \in Job, Active(j), NEW s \in Running \cup Terminal,
           s = "SUCCESS" => jobs[j].op = "DEPLOY",
           RowCore', SameColumns,
           \A i \in Job : jobs'[i].status = IF i = j THEN s ELSE jobs[i].status,
           \A i \in Job \ {j} : jobs'[i] = jobs[i],
           \A q \in Release : relStatus'[q] = IF q = jobs[j].release THEN s ELSE relStatus[q],
           UNCHANGED <<latest, req, older, bound, required, uploads, routed, submitted, astray>>
    PROVE  WInv'
<1>0. PICK r \in Release : r = jobs[j].release
  BY ActiveIsPresent DEF WInv, RowCore, RowsOK
<1>1. j \in JobsOf(r) /\ Present(j) /\ ~Verified(j) /\ jobs[j].release = r
  BY <1>0, ActiveIsPresent DEF JobsOf
<1>2. /\ NewestOwn(j)
      /\ relStatus[r] \in Running \cup {"QUEUED", "FAILED"}
      /\ r \notin astray => relStatus[r] \in Running \cup {"QUEUED"}
  BY <1>1, ActiveFacts
<1>3. \A i \in Job : /\ Present(i)' <=> Present(i)
                     /\ i # j => (Active(i)' <=> Active(i)) /\ (Verified(i)' <=> Verified(i))
                     /\ Verified(i) => Verified(i)'
  <2>1. s # "ABSENT"
    BY DEF Running, Terminal
  <2> QED BY <2>1, <1>1 DEF Present, Active, Verified
<1>4. /\ \A q \in Release : JobsOf(q)' = JobsOf(q)
      /\ \A t \in Target : JobsOn(t)' = JobsOn(t)
  BY DEF SameColumns, JobsOf, JobsOn
<1>5. \A q \in Release : \A k \in JobsOf(q) :
         k \in Job /\ jobs[k].release = q /\ (NewestOwn(k)' <=> NewestOwn(k))
  BY <1>4 DEF SameColumns, NewestOwn, JobsOf
<1>6. TypeOK'
  BY DEF WInv, TypeOK, RowCore
<1>7. OrderInv'
  BY <1>3, <1>4 DEF WInv, OrderInv, Reserved, Begun
<1>8. LatestInv'
  BY <1>4 DEF WInv, LatestInv
<1>9. UploadInv'
  <2>1. uploads[r] = NoUpload
    BY <1>1, <1>2 DEF WInv, UploadInv, UploadOK, Running
  <2> QED BY <2>1, <1>1, <1>3, <1>4 DEF WInv, UploadInv, UploadOK
<1>10. \A k \in JobsOf(r) : k # j => ~Active(k)
  BY <1>1, <1>2, <1>5, OneNewestOwn DEF WInv, ReqOK, LifeOK
<1>11. ReqOK(r)'
  <2>1. relStatus'[r] = s /\ jobs'[j].status = s /\ jobs'[j].release = r /\ jobs'[j].op = jobs[j].op
    BY <1>1 DEF SameColumns
  <2>2. Active(j)' => FollowsJob(j)'
    BY <2>1 DEF FollowsJob, Active, Running, Terminal
  <2>3. \A k \in JobsOf(r) : Active(k)' => k = j
    BY <1>3, <1>5, <1>10
  <2>4. LifeOK(r)'
    BY <2>1, <2>2, <2>3, <1>1, <1>2, <1>4, <1>5 DEF LifeOK, Editable, Running, Terminal
  <2>5. RollbackOK(r)'
    BY <1>1, <1>3 DEF WInv, ReqOK, RollbackOK, Verified
  <2>6. \A k \in JobsOf(r) : NewestOwn(k) /\ jobs[k].op = "DEPLOY" => bound[k].rev = req[r].rev
    BY <1>1, <1>2 DEF WInv, ReqOK, RevOK, Requested, Running
  <2>7. RevOK(r)'
    BY <2>6, <1>1, <1>4, <1>5 DEF RevOK, SameColumns
  <2>8. ASSUME r \notin astray
        PROVE  OrderlyOK(r)'
    <3>1. /\ jobs[j].op = req[r].op /\ req[r].op \in {"DEPLOY", "ROLLBACK"}
          /\ req[r].retry = NoJob
          /\ \A k \in JobsOf(r) : Verified(k) =>
                bound[k].rev = req[r].rev /\ req[r].op = "ROLLBACK" /\ req[r].base = "SUCCESS"
      <4>1. OrderlyOK(r)
        BY <2>8, <1>1 DEF WInv, ReqOK
      <4>2. req[r].op \in {"DEPLOY", "ROLLBACK"}
        BY <1>1 DEF WInv, TypeOK, Request
      <4> QED BY <4>1, <4>2, <2>8, <1>1, <1>2 DEF OrderlyOK, Running, UnderApproval, InReview
    <3>2. \A k \in JobsOf(r) : Verified(k)' =>
             Verified(k) \/ (k = j /\ s = "SUCCESS" /\ jobs[j].op = "DEPLOY")
      BY <2>1, <1>3, <1>5 DEF Verified
    <3>3. \A k \in JobsOf(r) : Verified(k)' =>
             /\ bound[k].rev = req[r].rev
             /\ req[r].op = "DEPLOY" => relStatus'[r] = "SUCCESS"
             /\ req[r].op = "ROLLBACK" => req[r].base = "SUCCESS"
      BY <3>1, <3>2, <2>1, <2>6, <1>2
    <3> QED BY <3>1, <3>3, <2>1, <2>2, <2>3, <1>1, <1>2, <1>4, <1>5 DEF OrderlyOK
  <2>9. ReviewOK(r)'
    BY <2>1 DEF ReviewOK, UnderApproval, InReview, Running, Terminal
  <2> QED BY <2>4, <2>5, <2>7, <2>8, <2>9 DEF ReqOK
<1>12. ASSUME NEW q \in Release, q # r
       PROVE  ReqOK(q)'
  <2>1. \A k \in JobsOf(q) : k # j
    BY <1>1, <1>5, <1>12
  <2>2. Untouched(q)
    BY <2>1, <1>1, <1>4, <1>5, <1>12 DEF Untouched
  <2>3. ReqOK(q) /\ RowCore
    BY DEF WInv
  <2>4. req[q].op = "ROLLBACK" => Verified(req[q].source) /\ Verified(req[q].source)'
                                  /\ req[q].source \in Job
    BY <2>3, <1>3 DEF ReqOK, RollbackOK, Verified
  <2> QED BY <2>2, <2>3, <2>4, BystanderKeeps DEF SameColumns
<1>13. \A i \in Job : JobOK(i)'
  BY <1>3 DEF WInv, JobOK, SameColumns
<1>14. QuickReplacesItsBase'
  BY <1>3 DEF WInv, QuickReplacesItsBase, SameColumns
<1>15. BoundContentIsTheSame'
  <2>1. \A i \in Job : jobs[i].op = "ROLLBACK" => jobs[i].source \in Job
    BY DEF WInv, RowCore, RowsOK, HeadIsVerified, JobOK, NoRow, Verified
  <2>2. \A i \in Job : bound[i].retryOf # NoJob => bound[i].retryOf \in Job
    BY DEF WInv, TypeOK, Binding
  <2> QED BY <2>1, <2>2 DEF WInv, BoundContentIsTheSame, RepeatsContent, SameColumns
<1> QED BY <1>6, <1>7, <1>8, <1>9, <1>11, <1>12, <1>13, <1>14, <1>15 DEF WInv

LEMMA RunnerStartsKeeps ==
    ASSUME WInv, NEW j \in Job, RunnerStarts(j)
    PROVE  WInv'
<1>1. /\ Active(j) /\ "VALIDATING" \in Running
      /\ SetStatus(j, "VALIDATING")
      /\ UNCHANGED <<latest, heads, req, older, bound, required, uploads, routed, submitted, astray>>
  BY DEF RunnerStarts, workVars, Active, Running
<1>2. RowCore'
  BY <1>1, SetRunningRows DEF WInv
<1>3. /\ jobs \in [Job -> JobRow] /\ relStatus \in [Release -> ReleaseStatus]
      /\ jobs[j].release \in Release
  BY <1>1, ActiveIsPresent DEF WInv, TypeOK, RowsTypeOK, RowCore, RowsOK
<1>4. /\ SameColumns
      /\ \A i \in Job : jobs'[i].status = IF i = j THEN "VALIDATING" ELSE jobs[i].status
      /\ \A i \in Job \ {j} : jobs'[i] = jobs[i]
  BY <1>1, <1>3 DEF SetStatus, JobRow, SameColumns
<1>5. \A q \in Release : relStatus'[q] = IF q = jobs[j].release THEN "VALIDATING" ELSE relStatus[q]
  BY <1>1, <1>3 DEF SetStatus
<1> QED BY <1>1, <1>2, <1>4, <1>5, JobMovesKeeps

LEMMA RunnerFinishesKeeps ==
    ASSUME WInv, NEW j \in Job, RunnerFinishes(j)
    PROVE  WInv'
<1>1. UNCHANGED <<req, older, bound, required, uploads, routed, submitted, astray>>
  BY DEF RunnerFinishes, workVars
<1>2. jobs \in [Job -> JobRow] /\ relStatus \in [Release -> ReleaseStatus]
  BY DEF WInv, TypeOK, RowsTypeOK
<1>3. CASE InFlight(j) /\ FinishSucceeded(j)
  <2> DEFINE s == SuccessStatus(j)
  <2>1. /\ Active(j) /\ s \in Running \cup Terminal /\ (s = "SUCCESS" => jobs[j].op = "DEPLOY")
        /\ SetStatus(j, s) /\ UNCHANGED latest
    BY <1>3 DEF InFlight, Active, SuccessStatus, Terminal, FinishSucceeded
  <2>2. jobs[j].release \in Release
    BY <2>1, ActiveIsPresent DEF WInv, RowCore, RowsOK
  <2>3. RowCore'
    BY <1>3, <2>1, FinishSucceededRows DEF WInv
  <2> HIDE DEF s
  <2>4. /\ SameColumns
        /\ \A i \in Job : jobs'[i].status = IF i = j THEN s ELSE jobs[i].status
        /\ \A i \in Job \ {j} : jobs'[i] = jobs[i]
    BY <1>2, <2>1 DEF SetStatus, JobRow, SameColumns
  <2>5. \A q \in Release : relStatus'[q] = IF q = jobs[j].release THEN s ELSE relStatus[q]
    BY <1>2, <2>1, <2>2 DEF SetStatus
  <2> QED BY <1>1, <2>1, <2>3, <2>4, <2>5, JobMovesKeeps
<1>4. CASE Active(j) /\ FinishFailed({j})
  <2>1. "FAILED" \in Running \cup Terminal /\ UNCHANGED latest
    BY <1>4 DEF Terminal, FinishFailed
  <2>2. RowCore'
    BY <1>4, FinishFailedRows DEF WInv
  <2>3. /\ SameColumns
        /\ \A i \in Job : jobs'[i].status = IF i = j THEN "FAILED" ELSE jobs[i].status
        /\ \A i \in Job \ {j} : jobs'[i] = jobs[i]
    BY <1>2, <1>4 DEF FinishFailed, JobRow, SameColumns
  <2>4. \A q \in Release : relStatus'[q] = IF q = jobs[j].release THEN "FAILED" ELSE relStatus[q]
    BY <1>4 DEF FinishFailed
  <2> QED BY <1>1, <1>4, <2>1, <2>2, <2>3, <2>4, JobMovesKeeps
<1> QED BY <1>3, <1>4 DEF RunnerFinishes

-------------------------------------------------------------------------------

LEMMA WInvNext == WInv /\ [Next]_vars => WInv'
<1> SUFFICES ASSUME WInv, [Next]_vars PROVE WInv'
  OBVIOUS
<1>1. ASSUME NEW r \in Release, Prepare(r) PROVE WInv'
  BY <1>1, CreateReleaseKeeps, EditKeeps, DeleteReleaseKeeps DEF Prepare
<1>2. ASSUME NEW r \in Release, Decide(r) PROVE WInv'
  BY <1>2, StartReviewKeeps, ApproveKeeps, ApproveAndQueueKeeps, RejectKeeps DEF Decide
<1>3. ASSUME NEW r \in Release, Deploy(r) PROVE WInv'
  <2>1. CASE RouteEnqueue(r)
    BY <2>1, PolicyKeeps DEF WInv, TypeOK, RouteEnqueue, rowVars
  <2> QED BY <2>1, <1>3, InvalidateRetryKeeps, SubmitDeployKeeps, QueueDeployKeeps,
            DeployWaitsKeeps, WaitedSubmitKeeps, WaitedQueueKeeps DEF Deploy
<1>4. ASSUME NEW r \in Release, Rollback(r) PROVE WInv'
  BY <1>4, InvalidateRollbackKeeps, SubmitRollbackKeeps, QueueRollbackKeeps DEF Rollback
<1>5. ASSUME NEW r \in Release, Quick(r) PROVE WInv'
  BY <1>5, QuickBeginKeeps, QuickSubmitKeeps, QuickQueueKeeps, AbandonKeeps DEF Quick
<1>6. ASSUME NEW j \in Job, RunnerStarts(j) \/ RunnerFinishes(j) PROVE WInv'
  BY <1>6, RunnerStartsKeeps, RunnerFinishesKeeps
<1>7. CASE ChangePolicy
  BY <1>7, PolicyKeeps DEF WInv, TypeOK, ChangePolicy, rowVars
<1>8. CASE UNCHANGED vars
  BY <1>8, PolicyKeeps DEF WInv, TypeOK, vars
<1> QED BY <1>1, <1>2, <1>3, <1>4, <1>5, <1>6, <1>7, <1>8 DEF Next

-------------------------------------------------------------------------------
(***************************************************************************)
(* What an approval is worth when the job is queued                        *)
(***************************************************************************)

\* Only a step that queues a job adds one.
LEMMA NoJobAdded ==
    ASSUME WInv, NEW j \in Job, ~Present(j), Present(j)', [Next]_vars
    PROVE  \E r \in Release :
              \/ \E retry \in BOOLEAN : QueueDeploy(j, r, retry)
              \/ \E u \in User : ApproveAndQueue(u, j, r)
              \/ \E u \in User, retry \in BOOLEAN : QueueRollback(u, j, r, retry)
              \/ (QuickQueue(r) \/ WaitedQueue(r)) /\ uploads[r] # NoUpload /\ uploads[r].job = j
<1>1. jobs' # jobs
  BY DEF Present
<1>2. ASSUME NEW r \in Release, DeleteRelease(r) PROVE FALSE
  <2>1. Deleted(r)
    BY <1>2, DeleteRows
  <2> QED BY <2>1 DEF Deleted
<1>3. ASSUME NEW i \in Job, RunnerStarts(i) \/ RunnerFinishes(i) PROVE FALSE
  <2>1. Present(i) /\ Present(i) \in BOOLEAN
    BY <1>3 DEF RunnerStarts, RunnerFinishes, InFlight, Active, Present, Running
  <2>2. \A k \in Job \ {i} : jobs'[k] = jobs[k]
    BY <1>3 DEF RunnerStarts, RunnerFinishes, FinishSucceeded, FinishFailed, SetStatus,
                WInv, TypeOK, RowsTypeOK
  <2> QED BY <2>1, <2>2 DEF Present
<1>4. ASSUME NEW i \in Job, NEW r \in Release, NEW op \in {"DEPLOY", "ROLLBACK"}, InsertJob(i, r, op)
      PROVE  i = j
  BY <1>4 DEF InsertJob, Present, WInv, TypeOK, RowsTypeOK
<1>5. PICK r \in Release : Prepare(r) \/ Decide(r) \/ Deploy(r) \/ Rollback(r) \/ Quick(r)
  BY <1>1, <1>3 DEF Next, vars, ChangePolicy, rowVars
<1>6. CASE Prepare(r)
  BY <1>1, <1>2, <1>6 DEF Prepare, CreateRelease, UploadArtifact, UpdateRelease, rowVars
<1>7. CASE Decide(r)
  <2>1. PICK u \in User, i \in Job : ApproveAndQueue(u, i, r)
    BY <1>1, <1>7 DEF Decide, StartReview, Approve, Reject
  <2>2. i = j
    BY <2>1, <1>4 DEF ApproveAndQueue, Queue
  <2> QED BY <2>1, <2>2
<1>8. CASE Deploy(r)
  <2>1. CASE WaitedQueue(r)
    <3>1. Waited(r) /\ InsertJob(uploads[r].job, r, "DEPLOY")
      BY <2>1 DEF WaitedQueue, Queue
    <3> QED BY <2>1, <3>1, <1>4, WaitedFacts
  <2>2. ASSUME NEW i \in Job, NEW retry \in BOOLEAN, QueueDeploy(i, r, retry)
        PROVE  i = j
    BY <2>2, <1>4 DEF QueueDeploy, Queue
  <2>3. \/ WaitedQueue(r)
        \/ \E i \in Job, retry \in BOOLEAN : QueueDeploy(i, r, retry)
    BY <1>1, <1>8 DEF Deploy, RouteEnqueue, InvalidateRetry, SubmitDeploy, DeployWaits,
                      WaitedSubmit, rowVars
  <2> QED BY <2>1, <2>2, <2>3
<1>9. CASE Rollback(r)
  <2>1. PICK u \in User, i \in Job, retry \in BOOLEAN : QueueRollback(u, i, r, retry)
    BY <1>1, <1>9 DEF Rollback, InvalidateRollback, SubmitRollback
  <2>2. i = j
    BY <2>1, <1>4 DEF QueueRollback, Queue
  <2> QED BY <2>1, <2>2
<1>10. CASE Quick(r)
  <2>1. QuickQueue(r)
    BY <1>1, <1>10 DEF Quick, QuickBegin, QuickSubmit, Abandon, rowVars
  <2>2. QuickReady(r) /\ InsertJob(uploads[r].job, r, "DEPLOY")
    BY <2>1 DEF QuickQueue, Queue
  <2> QED BY <2>1, <2>2, <1>4, QuickFacts
<1> QED BY <1>5, <1>6, <1>7, <1>8, <1>9, <1>10

LEMMA DeployReviewed ==
    ASSUME WInv, required, NEW j \in Job, NEW r \in Release, NEW retry \in BOOLEAN,
           QueueDeploy(j, r, retry)
    PROVE  QueuedAsReviewed(j)
<1> DEFINE basis == RetryBasis(r, retry)
<1>1. /\ relStatus[r] = "APPROVED" /\ ~retry
      /\ IsRetry(r, retry) => req[r].retry \in {NoJob, latest[TargetOf[r]]}
      /\ Queue(j, r, "DEPLOY", req[r].rev, basis)
      /\ req' = [req EXCEPT ![r].retry = NoJob]
      /\ r \notin astray' => req[r].op = "DEPLOY" /\ r \notin astray
  BY DEF QueueDeploy, releaseCanQueue, DeployAsked, RetryIsCurrent
<1>2. /\ req[r] \in Request /\ basis \in Job \cup {NoJob} /\ req[r].rev \in 0 .. MaxRev
      /\ uploads[r] = NoUpload
  BY <1>1, TargetJobsAssumption
     DEF WInv, TypeOK, RowsTypeOK, Request, RetryBasis, QueueDeploy, DeployAsked
<1>3. basis = req[r].retry
  BY <1>1 DEF RetryBasis, IsRetry
<1>4. /\ jobs'[j].release = r /\ jobs'[j].op = "DEPLOY"
      /\ bound'[j].rev = req[r].rev /\ bound'[j].retryOf = basis /\ ~bound'[j].stale
  BY <1>1, <1>2 DEF Queue, InsertJob, WInv, TypeOK, RowsTypeOK, NoUpload
<1>5. req'[r].approver = req[r].approver
  BY <1>1, <1>2 DEF WInv, TypeOK, Request
<1>6. ASSUME r \notin astray'
      PROVE  /\ submitted[r] = [op |-> "DEPLOY", retry |-> basis, source |-> NoJob, rev |-> req[r].rev]
             /\ req[r].approver # NoUser
             /\ AllowSelfApproval \/ req[r].approver # Requester(r)
  <2>1. ReviewOK(r) /\ relStatus[r] \in UnderApproval /\ req[r].op = "DEPLOY"
    BY <1>1, <1>6 DEF WInv, ReqOK, UnderApproval
  <2>2. /\ submitted[r].op = "DEPLOY" /\ submitted[r].source = NoJob
        /\ submitted[r].retry = basis /\ submitted[r].rev = req[r].rev
    BY <2>1, <1>3 DEF ReviewOK
  <2>3. TypeOK
    BY DEF WInv
  <2>4. submitted[r] = [op |-> "DEPLOY", retry |-> basis, source |-> NoJob, rev |-> req[r].rev]
    BY <2>2, <2>3 DEF TypeOK, Review
  <2> QED BY <2>1, <2>4, <1>1 DEF ReviewOK
<1> QED BY <1>4, <1>5, <1>6 DEF QueuedAsReviewed

LEMMA AutomaticReviewed ==
    ASSUME WInv, NEW j \in Job, NEW r \in Release, NEW u \in User, ApproveAndQueue(u, j, r)
    PROVE  QueuedAsReviewed(j)
<1>1. /\ relStatus[r] \in UnderApproval /\ req[r].op = "DEPLOY" /\ req[r].retry = NoJob
      /\ Queue(j, r, "DEPLOY", req[r].rev, NoJob)
      /\ req' = [req EXCEPT ![r].approver = u]
      /\ MayApprove(u, r) /\ UNCHANGED astray
  BY DEF ApproveAndQueue, DeploysOnApproval, UnderApproval
<1>2. req[r] \in Request /\ req[r].rev \in 0 .. MaxRev /\ uploads[r] = NoUpload
  BY <1>1, ReviewedFacts DEF WInv, TypeOK, Request
<1>3. /\ jobs'[j].release = r /\ jobs'[j].op = "DEPLOY"
      /\ bound'[j].rev = req[r].rev /\ bound'[j].retryOf = NoJob /\ ~bound'[j].stale
  BY <1>1, <1>2 DEF Queue, InsertJob, WInv, TypeOK, RowsTypeOK, NoUpload
<1>4. req'[r].approver = u
  BY <1>1, <1>2 DEF WInv, TypeOK, Request
<1>5. u # NoUser /\ (AllowSelfApproval \/ u # Requester(r))
  BY <1>1, ReleaseWorkflowAssumption DEF MayApprove
<1>6. ASSUME r \notin astray
      PROVE  submitted[r] = [op |-> "DEPLOY", retry |-> NoJob, source |-> NoJob, rev |-> req[r].rev]
  <2>1. ReviewOK(r) /\ TypeOK
    BY <1>6 DEF WInv, ReqOK
  <2>2. /\ submitted[r].op = "DEPLOY" /\ submitted[r].source = NoJob
        /\ submitted[r].retry = NoJob /\ submitted[r].rev = req[r].rev
    BY <2>1, <1>1 DEF ReviewOK
  <2> QED BY <2>1, <2>2 DEF TypeOK, Review
<1> QED BY <1>1, <1>3, <1>4, <1>5, <1>6 DEF QueuedAsReviewed

LEMMA RollbackReviewed ==
    ASSUME WInv, required, NEW j \in Job, NEW r \in Release, NEW u \in User, NEW retry \in BOOLEAN,
           QueueRollback(u, j, r, retry)
    PROVE  QueuedAsReviewed(j)
<1> DEFINE source == ExpectedSource(r, TargetOf[r])
           rev == req[jobs[source].release].rev
<1>1. /\ RollbackReady(r, retry) /\ relStatus[r] = "APPROVED"
      /\ Queue(j, r, "ROLLBACK", rev, NoJob)
      /\ req' = [req EXCEPT ![r].op = "ROLLBACK", ![r].source = source,
                            ![r].by = IF @ = NoUser THEN u ELSE @, ![r].base = RecordedBase(r)]
      /\ UNCHANGED astray
  BY DEF QueueRollback
<1>2. req[r].op = "ROLLBACK" /\ req[r].source = source
  BY <1>1 DEF RollbackReady, RollbackAsked, RollbackOpen, SourceHolds, UnderApproval
<1>3. /\ heads[TargetOf[r]] # NoJob /\ source # NoJob /\ (r \notin astray => req[r].retry = NoJob)
      /\ uploads[r] = NoUpload
  BY <1>1, RollbackFacts
<1>4. source \in Job /\ (jobs[source].release \notin astray => rev = bound[source].rev)
  BY <1>3, SourceFacts
<1>5. /\ jobs'[j].release = r /\ jobs'[j].op = "ROLLBACK" /\ jobs'[j].source = source
      /\ bound'[j].rev = rev /\ bound'[j].retryOf = NoJob /\ ~bound'[j].stale
  BY <1>1, <1>3 DEF Queue, InsertJob, FrozenSource, WInv, TypeOK, RowsTypeOK, NoUpload
<1>6. req'[r].approver = req[r].approver
  <2>1. req[r] \in Request /\ req \in [Release -> Request]
    BY DEF WInv, TypeOK
  <2>2. req' = [req EXCEPT ![r] = [req[r] EXCEPT
                  !.op = "ROLLBACK", !.source = source,
                  !.by = IF @ = NoUser THEN u ELSE @, !.base = RecordedBase(r)]]
    BY <1>1, <2>1
  <2> QED BY <2>1, <2>2 DEF Request
<1>7. ASSUME r \notin astray, jobs[source].release \notin astray
      PROVE  /\ submitted[r] = [op |-> "ROLLBACK", retry |-> NoJob, source |-> source, rev |-> rev]
             /\ req[r].approver # NoUser
             /\ AllowSelfApproval \/ req[r].approver # Requester(r)
  <2>1. ReviewOK(r) /\ TypeOK /\ relStatus[r] \in UnderApproval
    BY <1>1, <1>7 DEF WInv, ReqOK, UnderApproval
  <2>2. /\ submitted[r].op = "ROLLBACK" /\ submitted[r].source = source
        /\ submitted[r].retry = NoJob /\ submitted[r].rev = rev
    BY <2>1, <1>2, <1>3, <1>4, <1>7 DEF ReviewOK
  <2>3. submitted[r] \in Review
    BY <2>1 DEF TypeOK
  <2> HIDE DEF source, rev
  <2>4. submitted[r] = [op |-> "ROLLBACK", retry |-> NoJob, source |-> source, rev |-> rev]
    BY <2>2, <2>3 DEF Review
  <2> QED BY <2>1, <2>4, <1>1 DEF ReviewOK
<1> HIDE DEF source, rev
<1> QED BY <1>1, <1>5, <1>6, <1>7 DEF QueuedAsReviewed

\* A request that reserved its place read the policy that applies to it.
LEMMA StepReviewed ==
    ASSUME WInv, [Next]_vars, NEW j \in Job, ~Present(j), Present(j)',
           PolicyRead(jobs'[j].release)
    PROVE  QueuedAsReviewed(j)
<1>1. PICK r \in Release :
         \/ \E retry \in BOOLEAN : QueueDeploy(j, r, retry)
         \/ \E u \in User : ApproveAndQueue(u, j, r)
         \/ \E u \in User, retry \in BOOLEAN : QueueRollback(u, j, r, retry)
         \/ (QuickQueue(r) \/ WaitedQueue(r)) /\ uploads[r] # NoUpload /\ uploads[r].job = j
  BY NoJobAdded
<1>2. \E op \in {"DEPLOY", "ROLLBACK"} : InsertJob(j, r, op)
  BY <1>1 DEF QueueDeploy, ApproveAndQueue, QueueRollback, QuickQueue, WaitedQueue, Queue
<1>3. jobs'[j].release = r
  BY <1>2 DEF InsertJob, WInv, TypeOK, RowsTypeOK
<1>4. ~QuickQueue(r) /\ ~WaitedQueue(r)
  <2>1. ~QuickQueue(r)
    BY <1>3 DEF QuickQueue, QuickReady, PolicyRead, WInv, UploadInv, UploadOK
  <2>2. ~WaitedQueue(r)
    BY <1>3 DEF WaitedQueue, Waited, PolicyRead
  <2> QED BY <2>1, <2>2
<1>5. ASSUME NEW retry \in BOOLEAN, QueueDeploy(j, r, retry) PROVE required
  BY <1>3, <1>5 DEF QueueDeploy, DeployAsked, PolicyRead
<1>6. ASSUME NEW u \in User, NEW retry \in BOOLEAN, QueueRollback(u, j, r, retry) PROVE required
  <2>1. uploads[r] = NoUpload
    BY <1>6, RollbackFacts DEF QueueRollback
  <2> QED BY <1>3, <2>1 DEF PolicyRead
<1> QED BY <1>1, <1>4, <1>5, <1>6, DeployReviewed, AutomaticReviewed, RollbackReviewed

-------------------------------------------------------------------------------
(***************************************************************************)
(* Theorems                                                                *)
(***************************************************************************)

\* The inductive invariant: rows, order of created_at, requests and reviews
\* agree in every reachable state.
THEOREM Invariance == Spec => []WInv
BY WInvInit, WInvNext, PTL DEF Spec

\* Every column keeps its domain; revisions never pass their bound.
THEOREM TypeCorrect == Spec => []TypeOK
<1>1. WInv => TypeOK
  BY DEF WInv
<1> QED BY <1>1, Invariance, PTL

\* Under the policy they have read, enqueueRelease, rollbackRelease and decision()
\* queue a job only for what was submitted and only after another approved it.
THEOREM ReviewedOnly == Spec => NothingRunsUnreviewed
<1>1. WInv /\ [Next]_vars =>
        [\A j \in Job : ~Present(j) /\ Present(j)' /\ PolicyRead(jobs'[j].release) =>
            QueuedAsReviewed(j)]_vars
  BY StepReviewed
<1> QED BY <1>1, Invariance, PTL DEF Spec, NothingRunsUnreviewed

\* A release verified on its target is never editable again, whatever is
\* requested, rejected, retried or rolled back afterwards.
THEOREM FrozenOnceVerified == Spec => []VerifiedReleaseIsFrozen
<1>1. WInv => VerifiedReleaseIsFrozen
  <2> SUFFICES ASSUME WInv, NEW j \in Job, Verified(j), jobs[j].release \notin astray
               PROVE  relStatus[jobs[j].release] \notin Editable \cup {"ABSENT"}
    BY DEF VerifiedReleaseIsFrozen
  <2>1. jobs[j].release \in Release /\ j \in JobsOf(jobs[j].release)
    BY ActiveIsPresent DEF WInv, RowCore, RowsOK, JobsOf
  <2>2. CASE relStatus[jobs[j].release] = "ABSENT"
    BY <2>1, <2>2 DEF WInv, ReqOK, LifeOK
  <2>3. CASE relStatus[jobs[j].release] \in Editable
    BY <2>1, <2>3, EditableFacts
  <2> QED BY <2>2, <2>3
<1> QED BY <1>1, Invariance, PTL

\* A rollback restores the content its source verified, and a retry repeats
\* the content of the attempt that failed, unless that job was queued by a
\* request that waited for an upload and bound the artifact from before it.
THEOREM SameContent == Spec => []BoundContentIsTheSame
<1>1. WInv => BoundContentIsTheSame
  BY DEF WInv
<1> QED BY <1>1, Invariance, PTL

\* A quick release replaces only the deployment it was checked against.
THEOREM QuickBaseKept == Spec => []QuickReplacesItsBase
<1>1. WInv => QuickReplacesItsBase
  BY DEF WInv
<1> QED BY <1>1, Invariance, PTL

\* An open rollback names a verified source and the status to return to.
THEOREM WholeRequests == Spec => []OpenRequestIsWhole
<1>1. WInv => OpenRequestIsWhole
  BY DEF WInv, ReqOK, RollbackOK, OpenRequestIsWhole, RollbackOpen
<1> QED BY <1>1, Invariance, PTL

\* An automatic release is never left approved without its job.
THEOREM NeverRests == Spec => []AutoDeployNeverRests
<1>1. WInv => AutoDeployNeverRests
  BY DEF WInv, ReqOK, LifeOK, AutoDeployNeverRests
<1> QED BY <1>1, Invariance, PTL

\* A release that was not led astray shows the status of its unfinished job.
THEOREM RequestFollows == Spec => []RequestFollowsJob
<1>1. WInv => RequestFollowsJob
  <2> SUFFICES ASSUME WInv, NEW j \in Job, Active(j), jobs[j].release \notin astray
               PROVE  FollowsJob(j)
    BY DEF RequestFollowsJob
  <2>1. jobs[j].release \in Release /\ j \in JobsOf(jobs[j].release)
    BY ActiveIsPresent DEF WInv, RowCore, RowsOK, JobsOf
  <2> QED BY <2>1 DEF WInv, ReqOK, OrderlyOK
<1> QED BY <1>1, Invariance, PTL

\* What a job was queued on still holds when it finishes, with the API's own
\* inserts and deletes in place of an arbitrary insertion.
THEOREM BasisStaysCurrent == Spec => []FrozenBasisStaysCurrent
<1>1. WInv => FrozenBasisStaysCurrent
  BY DEF WInv, RowCore
<1> QED BY <1>1, Invariance, PTL

-------------------------------------------------------------------------------
(***************************************************************************)
(* Refinement of DeploymentHistory                                         *)
(***************************************************************************)

\* A deleted release takes along only deployments that nothing refers to.
LEMMA DeleteHistory ==
    ASSUME WInv, NEW r \in Release, DeleteRelease(r)
    PROVE  History!Next
<1> DEFINE gone == JobsOf(r) \cap VerifiedJobs
<1>1. Deleted(r)
  BY DeleteRows
<1>2. /\ heads' = heads
      /\ \A t \in Target : heads[t] \notin JobsOf(r)
      /\ \A i \in Job \ JobsOf(r) : /\ jobs'[i] = jobs[i]
                                     /\ jobs[i].source \notin JobsOf(r)
      /\ \A i \in JobsOf(r) : i \in Job /\ jobs'[i] = NoRow
  BY <1>1 DEF Deleted
<1>3. VerifiedJobs' = VerifiedJobs \ gone
  BY <1>2 DEF VerifiedJobs, Verified, NoRow
<1>4. \A i \in Job : Replaced'[i] = IF i \in gone THEN NoJob ELSE Replaced[i]
  BY <1>2 DEF Replaced, VerifiedJobs, Verified, NoRow
<1>5. Replaced' = [i \in Job |-> IF i \in gone THEN NoJob ELSE Replaced[i]]
  BY <1>4 DEF Replaced
<1>6. \A d \in VerifiedJobs \ gone : Replaced[d] \notin gone
  BY <1>2 DEF Replaced, VerifiedJobs
<1>7. History!Forget(gone)
  BY <1>2, <1>3, <1>5, <1>6 DEF History!Forget
<1> QED BY <1>7 DEF History!Next

LEMMA StepRefines ==
    ASSUME WInv, [Next]_vars
    PROVE  [History!Next]_(History!vars)
<1>1. RowCore
  BY DEF WInv
<1>2. ASSUME UNCHANGED <<VerifiedJobs, Replaced, heads>>
      PROVE  [History!Next]_(History!vars)
  BY <1>2 DEF History!vars
<1>3. ASSUME UNCHANGED <<jobs, heads>>
      PROVE  [History!Next]_(History!vars)
  BY <1>2, <1>3, SameHistory DEF Verified
<1>4. ASSUME NEW j \in Job, NEW r \in Release, NEW op \in {"DEPLOY", "ROLLBACK"},
             NEW rev, NEW retryOf, Queue(j, r, op, rev, retryOf)
      PROVE  [History!Next]_(History!vars)
  BY <1>1, <1>2, <1>4, InsertHistory DEF Queue
<1>5. ASSUME NEW j \in Job, RunnerStarts(j)
      PROVE  [History!Next]_(History!vars)
  <2>1. Active(j) /\ "VALIDATING" \in Running /\ SetStatus(j, "VALIDATING") /\ UNCHANGED heads
    BY <1>5 DEF RunnerStarts, Active, Running
  <2> QED BY <2>1, <1>1, <1>2, RunningHistory
<1>6. ASSUME NEW j \in Job, RunnerFinishes(j)
      PROVE  [History!Next]_(History!vars)
  <2>1. CASE InFlight(j) /\ FinishSucceeded(j)
    BY <2>1, <1>1, SucceededHistory DEF InFlight, Active
  <2>2. CASE Active(j) /\ FinishFailed({j})
    BY <2>2, <1>1, <1>2, FailedHistory
  <2> QED BY <1>6, <2>1, <2>2 DEF RunnerFinishes
<1>7. ASSUME NEW r \in Release, Prepare(r)
      PROVE  [History!Next]_(History!vars)
  BY <1>3, <1>7, DeleteHistory DEF Prepare, CreateRelease, UploadArtifact, UpdateRelease, rowVars
<1>8. ASSUME NEW r \in Release, Decide(r)
      PROVE  [History!Next]_(History!vars)
  BY <1>3, <1>4, <1>8 DEF Decide, StartReview, Approve, Reject, ApproveAndQueue
<1>9. ASSUME NEW r \in Release, Deploy(r)
      PROVE  [History!Next]_(History!vars)
  <2>1. CASE WaitedQueue(r)
    <3>1. Queue(uploads[r].job, r, "DEPLOY", req[r].rev, NoJob) /\ uploads[r].job \in Job
      BY <2>1, WaitedFacts DEF WaitedQueue
    <3> QED BY <3>1, <1>4
  <2> QED BY <1>3, <1>4, <1>9, <2>1
          DEF Deploy, RouteEnqueue, InvalidateRetry, SubmitDeploy, QueueDeploy, DeployWaits,
              WaitedSubmit, rowVars
<1>10. ASSUME NEW r \in Release, Rollback(r)
       PROVE  [History!Next]_(History!vars)
  BY <1>3, <1>4, <1>10 DEF Rollback, InvalidateRollback, SubmitRollback, QueueRollback
<1>11. ASSUME NEW r \in Release, Quick(r)
       PROVE  [History!Next]_(History!vars)
  <2>1. CASE QuickQueue(r)
    <3>1. Queue(uploads[r].job, r, "DEPLOY", 1, NoJob) /\ uploads[r].job \in Job
      BY <2>1, QuickFacts DEF QuickQueue
    <3> QED BY <3>1, <1>4
  <2> QED BY <1>3, <1>11, <2>1 DEF Quick, QuickBegin, QuickSubmit, Abandon, rowVars
<1>12. CASE ChangePolicy \/ UNCHANGED vars
  BY <1>3, <1>12 DEF ChangePolicy, vars, rowVars
<1> QED BY <1>5, <1>6, <1>7, <1>8, <1>9, <1>10, <1>11, <1>12 DEF Next

\* What the API's handlers do to jobs and heads, deletions of whole releases
\* included, is a behaviour of DeploymentHistory.
THEOREM RefinesHistory == Spec => ImplementsHistory
<1>1. Init => History!Init
  BY NoJobsHistory DEF Init
<1>2. WInv /\ [Next]_vars => [History!Next]_(History!vars)
  BY StepRefines
<1> QED BY <1>1, <1>2, Invariance, PTL DEF Spec, ImplementsHistory, History!Spec

\* No sequence of requests, approvals, edits and deletions makes a target's
\* rollbacks go round in a circle, not even for a release that was led astray
\* and can be edited although it was deployed.
THEOREM HistoriesStayAcyclic == Spec => []HistoryStaysAcyclic
BY RefinesHistory, HistoryIsAcyclic, PTL

-------------------------------------------------------------------------------
(***************************************************************************)
(* What the requested operation depends on                                 *)
(***************************************************************************)

\* A DEPLOY is queued only while a DEPLOY is requested: enqueueRelease would
\* have to read requested_operation again in its transaction.
RoutingIsFresh ==
    \A j \in Job, r \in Release, retry \in BOOLEAN :
        QueueDeploy(j, r, retry) => req[r].op = "DEPLOY"

LEMMA NobodyLedAstray ==
    ASSUME astray = {}, [Next]_vars, [RoutingIsFresh]_vars
    PROVE  astray' = {}
<1>1. ASSUME NEW r \in Release, Prepare(r) PROVE astray' = {}
  BY <1>1 DEF Prepare, CreateRelease, UploadArtifact, UpdateRelease, DeleteRelease
<1>2. ASSUME NEW r \in Release, Decide(r) PROVE astray' = {}
  BY <1>2 DEF Decide, StartReview, Approve, Reject, ApproveAndQueue, workVars
<1>3. ASSUME NEW r \in Release, Deploy(r) PROVE astray' = {}
  <2>1. ASSUME NEW j \in Job, NEW retry \in BOOLEAN, QueueDeploy(j, r, retry)
        PROVE  astray' = {}
    <3>1. astray' = IF req[r].op = "DEPLOY" THEN astray ELSE astray \cup {r}
      BY <2>1 DEF QueueDeploy
    <3>2. CASE RoutingIsFresh
      BY <2>1, <3>1, <3>2 DEF RoutingIsFresh
    <3>3. CASE UNCHANGED vars
      BY <3>3 DEF vars
    <3> QED BY <3>2, <3>3
  <2> QED BY <1>3, <2>1 DEF Deploy, RouteEnqueue, InvalidateRetry, SubmitDeploy, DeployWaits,
                            WaitedSubmit, WaitedQueue
<1>4. ASSUME NEW r \in Release, Rollback(r) PROVE astray' = {}
  BY <1>4 DEF Rollback, InvalidateRollback, SubmitRollback, QueueRollback
<1>5. ASSUME NEW r \in Release, Quick(r) PROVE astray' = {}
  BY <1>5 DEF Quick, QuickBegin, QuickSubmit, QuickQueue, Abandon
<1>6. ASSUME NEW j \in Job, RunnerStarts(j) \/ RunnerFinishes(j) PROVE astray' = {}
  BY <1>6 DEF RunnerStarts, RunnerFinishes, workVars
<1>7. CASE ChangePolicy \/ UNCHANGED vars
  BY <1>7 DEF ChangePolicy, vars
<1> QED BY <1>1, <1>2, <1>3, <1>4, <1>5, <1>6, <1>7 DEF Next

\* The operation read before the transaction is the only way in which a job
\* comes to run another operation than the one requested: with a fresh one
\* no release is led astray, and jobs, requests and releases agree throughout.
THEOREM OperationsAreRequested ==
    Spec /\ [][RoutingIsFresh]_vars =>
        [](OperationIsAsRequested /\ ReleaseFollowsJob)
<1>1. Init => astray = {}
  BY DEF Init
<1>2. astray = {} /\ [Next]_vars /\ [RoutingIsFresh]_vars => (astray = {})'
  BY NobodyLedAstray
<1>3. WInv /\ astray = {} => OperationIsAsRequested /\ ReleaseFollowsJob
  <2> SUFFICES ASSUME WInv, astray = {}, NEW j \in Job, Active(j)
               PROVE  jobs[j].op = req[jobs[j].release].op /\ FollowsJob(j)
    BY DEF OperationIsAsRequested, ReleaseFollowsJob
  <2>1. jobs[j].release \in Release /\ j \in JobsOf(jobs[j].release)
    BY ActiveIsPresent DEF WInv, RowCore, RowsOK, JobsOf
  <2>2. OrderlyOK(jobs[j].release)
    BY <2>1 DEF WInv, ReqOK
  <2> QED BY <2>1, <2>2 DEF OrderlyOK
<1> QED BY <1>1, <1>2, <1>3, Invariance, PTL DEF Spec

===============================================================================

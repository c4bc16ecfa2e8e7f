---------------------------- MODULE SimpleRunProofs ----------------------------
(***************************************************************************)
(* The invariants of SimpleRun, for any number of uploads, targets,        *)
(* directories and slots.                                                  *)
(***************************************************************************)
EXTENDS SimpleRun, FiniteSetTheorems, TLAPS

-------------------------------------------------------------------------------
(***************************************************************************)
(* The inductive invariant                                                 *)
(***************************************************************************)

InProgress == {"PENDING", "RUNNING"}

\* The browser has done with the package and never looks at it again.
Closed == {"failed", "left", "seen"}

Holders == {r \in Run : pc[r] \in Holding}

\* A slot per handler or executor, and only finitely many of either.
SlotInv == IsFiniteSet(Holders) /\ slots = Cardinality(Holders)

\* Handlers and executors live in the server process.
ProcessInv == ~up => Holders = {}

\* An upload is sent once, after the one before it in its queue is closed.
QueueInv ==
    \A r \in Run :
        /\ client[r] = "waiting" => pc[r] = "none"
        /\ pc[r] = "uploading" => client[r] \in {"sent", "left"}
        /\ client[r] # "waiting" /\ Before[r] # NoRun => client[Before[r]] \in Closed

\* Only a request its browser gave up ends before its batch fields.
AloneInv == \A r \in alone : client[r] = "left"

\* The row says how far its handler or executor is.
RowInv ==
    \A r \in Run :
        /\ pc[r] \in {"none", "uploading"} => rows[r].status = "ABSENT"
        /\ pc[r] \in {"claimed", "start"} => rows[r].status = "PENDING"
        /\ pc[r] \in {"command", "stages", "closing"} => rows[r].status = "RUNNING"

\* simple_runs_active_target_idx, the failed statements included.
OneRunPerTarget ==
    \A p, q \in Run :
        /\ rows[p].status \in InProgress /\ rows[q].status \in InProgress
        /\ TargetFor[p] = TargetFor[q]
        => p = q

Bare(res) == res.repl = "NONE" /\ res.app = "NONE" /\ ~res.wide

\* What GreenRunIsComplete says of a row, said of a result not yet recorded.
Complete(r, res) ==
    /\ res.status = "SUCCESS" /\ batchLast(r) => "SKIPPED" \notin {res.repl, res.app}
    /\ res.app \in Ended => res.repl \in {"NONE", "SUCCESS"}

Others(r) == {q \in Run : q # r /\ UploadOf[q] = UploadOf[r]}

\* A stage of the whole upload: by the last package, after all other runs but
\* those of packages the browser left behind.
Follows(r, res) ==
    res.wide /\ r \notin alone =>
        /\ Marked(r)
        /\ \A q \in Others(r) : client[q] # "left" => rows[q].status \in {"ABSENT", "SUCCESS"}

ResultInv ==
    \A r \in Run :
        /\ rows[r].status \notin Ended => Bare(rows[r])
        /\ pc[r] = "stages" => outcome[r].status \in Ended /\ Bare(outcome[r])
        /\ pc[r] = "closing" => outcome[r].status \in Ended /\ Complete(r, outcome[r])
        /\ Complete(r, rows[r])

WideInv ==
    \A r \in Run :
        /\ Follows(r, rows[r])
        /\ pc[r] = "closing" => Follows(r, outcome[r])

\* Staged files belong to handlers that work or were cut off by a crash.
StagedInv == \A r \in partials : pc[r] \in {"uploading", "claimed", "lost"}

PublishedInv == \A x \in Dir \X Name : files[x] # NoRun => rows[files[x]].status # "ABSENT"

IInv ==
    /\ TypeOK
    /\ SlotInv /\ ProcessInv
    /\ QueueInv /\ AloneInv
    /\ RowInv /\ OneRunPerTarget
    /\ ResultInv /\ WideInv
    /\ StagedInv /\ PublishedInv
    /\ PackageIsNotSwapped

-------------------------------------------------------------------------------
(***************************************************************************)
(* Slots                                                                   *)
(***************************************************************************)

\* acquireSimpleRun for an upload that has no slot.
LEMMA SlotTaken ==
    ASSUME IInv, NEW r \in Run, pc[r] \notin Holding, slots < MaxRuns,
           slots' = slots + 1, pc' = [pc EXCEPT ![r] = "uploading"]
    PROVE  SlotInv' /\ slots' \in 0 .. MaxRuns
<1>1. Holders' = Holders \cup {r} /\ r \notin Holders
  BY DEF IInv, TypeOK, Holders, Holding
<1>2. slots \in Nat /\ MaxRuns \in Nat
  BY SimpleRunAssumption DEF IInv, TypeOK
<1> QED BY <1>1, <1>2, FS_AddElement DEF IInv, SlotInv

\* releaseSimpleRun by the one that has the slot.
LEMMA SlotReleased ==
    ASSUME IInv, NEW r \in Run, pc[r] \in Holding,
           slots' = slots - 1, pc' = [pc EXCEPT ![r] = "done"]
    PROVE  SlotInv' /\ slots' \in 0 .. MaxRuns
<1>1. Holders' = Holders \ {r} /\ r \in Holders
  BY DEF IInv, TypeOK, Holders, Holding, Executing
<1>2. IsFiniteSet(Holders \ {r}) /\ Cardinality(Holders \ {r}) = slots - 1
  BY <1>1, FS_RemoveElement DEF IInv, SlotInv
<1>3. slots - 1 \in Nat
  BY <1>2, FS_CardinalityType
<1> QED BY <1>1, <1>2, <1>3, SimpleRunAssumption DEF IInv, TypeOK, SlotInv

\* A handler or executor goes on.
LEMMA SlotKept ==
    ASSUME IInv, NEW r \in Run, pc[r] \in Holding, NEW s \in Holding,
           UNCHANGED slots, pc' = [pc EXCEPT ![r] = s]
    PROVE  SlotInv' /\ slots' \in 0 .. MaxRuns
<1>1. Holders' = Holders
  BY DEF IInv, TypeOK, Holders
<1> QED BY <1>1 DEF IInv, TypeOK, SlotInv

\* Writing the status of a row leaves its stage results and the other rows.
LEMMA RowTyped ==
    ASSUME IInv, NEW r \in Run, NEW s \in {"PENDING", "RUNNING", "FAILED"}
    PROVE  [rows EXCEPT ![r].status = s] \in [Run -> RunRow]
<1>1. rows[r] \in RunRow /\ rows \in [Run -> RunRow]
  BY DEF IInv, TypeOK
<1>2. [rows[r] EXCEPT !.status = s] \in RunRow
  BY <1>1 DEF RunRow, Ended
<1> QED BY <1>1, <1>2

LEMMA RowWritten ==
    ASSUME IInv, NEW r \in Run, NEW s, Bare(rows[r]), rows' = [rows EXCEPT ![r].status = s]
    PROVE  /\ \A q \in Run : q # r => rows'[q] = rows[q]
           /\ rows'[r].status = s
           /\ Bare(rows'[r])
<1>1. rows[r] \in RunRow /\ rows \in [Run -> RunRow]
  BY DEF IInv, TypeOK
<1>2. rows'[r] = [rows[r] EXCEPT !.status = s]
  BY <1>1
<1>3. rows'[r].status = s /\ rows'[r].repl = rows[r].repl /\ rows'[r].app = rows[r].app
      /\ rows'[r].wide = rows[r].wide
  BY <1>1, <1>2 DEF RunRow
<1> QED BY <1>1, <1>3 DEF Bare

-------------------------------------------------------------------------------
(***************************************************************************)
(* The queue                                                               *)
(***************************************************************************)

\* When the last package of an upload was sent, all others are closed.
LEMMA LastComesLast ==
    ASSUME IInv, NEW r \in Run, Marked(r), client[r] # "waiting", NEW q \in Others(r)
    PROVE  client[q] \in Closed
<1>1. ~Earlier(r, q)
  <2> SUFFICES ASSUME Earlier(r, q) PROVE FALSE
    OBVIOUS
  <2> DEFINE S == Run \ {r}
  <2>1. Before[q] \in S
    BY SimpleRunAssumption DEF Earlier, Marked, Others
  <2>2. \A p \in S : Before[p] # NoRun => Before[p] \in S
    BY SimpleRunAssumption DEF Marked
  <2> HIDE DEF S
  <2>3. S \in SUBSET Run => r \in S
    BY <2>1, <2>2 DEF Earlier
  <2> QED BY <2>3 DEF S
<1>2. Earlier(q, r)
  BY <1>1, SimpleRunAssumption DEF Others
<1> DEFINE T == {p \in Run : client[p] \in Closed}
<1>3. Before[r] \in T
  BY <1>2, SimpleRunAssumption DEF Earlier, IInv, QueueInv
<1>4. \A p \in T : Before[p] # NoRun => Before[p] \in T
  BY SimpleRunAssumption DEF IInv, QueueInv, Closed
<1> HIDE DEF T
<1>5. T \in SUBSET Run => q \in T
  BY <1>2, <1>3, <1>4 DEF Earlier
<1> QED BY <1>5 DEF T

\* A run that has not been recorded stays so once its upload is closed and not
\* left behind, a success stays one, and a package left behind stays that.
StatusesStay ==
    /\ alone \subseteq alone'
    /\ \A q \in Run :
        /\ rows[q].status = "ABSENT" /\ client[q] \in Closed \ {"left"} => rows'[q].status = "ABSENT"
        /\ rows[q].status = "SUCCESS" => rows'[q].status = "SUCCESS"
        /\ client[q] = "left" => client'[q] = "left"

\* What a stage of a whole upload relied on stays so.
LEMMA WideStays ==
    ASSUME IInv, StatusesStay,
           \A r \in Run : rows'[r].wide =>
              rows[r].wide \/ (pc[r] = "closing" /\ outcome[r].wide),
           \A r \in Run : pc'[r] = "closing" /\ outcome'[r].wide =>
              pc[r] = "closing" /\ outcome[r].wide
    PROVE  WideInv'
<1>1. ASSUME NEW r \in Run, rows[r].wide \/ (pc[r] = "closing" /\ outcome[r].wide),
             r \notin alone
      PROVE  /\ Marked(r)
             /\ \A q \in Others(r) : client'[q] # "left" => rows'[q].status \in {"ABSENT", "SUCCESS"}
  <2>1. /\ Marked(r)
        /\ \A q \in Others(r) : client[q] # "left" => rows[q].status \in {"ABSENT", "SUCCESS"}
    BY <1>1 DEF IInv, WideInv, Follows
  <2>2. client[r] # "waiting"
    BY <1>1 DEF IInv, QueueInv, RowInv, ResultInv, Bare, Ended
  <2>3. \A q \in Others(r) : client[q] \in Closed
    BY <2>1, <2>2, LastComesLast
  <2> QED BY <2>1, <2>3 DEF StatusesStay, Others
<1> QED BY <1>1 DEF WideInv, Follows, Others, Marked, StatusesStay

-------------------------------------------------------------------------------
(***************************************************************************)
(* The browser and the handler                                             *)
(***************************************************************************)

LEMMA BrowserPreserves ==
    ASSUME IInv, NEW r \in Run, Browser(r)
    PROVE  IInv'
<1> USE SimpleRunAssumption DEF IInv
<1>1. /\ UNCHANGED <<rows, pc, pathDir, outcome, alone, ungrouped, partials, files, slots, up, adminVars>>
      /\ \E s \in {"failed", "left", "seen", "unknown"} : client' = [client EXCEPT ![r] = s]
      /\ pc[r] = "uploading" => client' = [client EXCEPT ![r] = "left"]
      /\ client[r] \in {"waiting", "sent"}
  BY DEF Browser, SendRefused, SeeTerminal, ReplyLost, StopPolling, SetClient, MaySend,
         QueueInv, RowInv, Executing, Ended
<1>2. TypeOK'
  BY <1>1 DEF TypeOK, adminVars
<1>3. QueueInv'
  <2>1. client[r] \notin Closed
    BY <1>1 DEF Closed
  <2>2. Before[r] # NoRun => client[Before[r]] \in Closed
    BY DEF Browser, SendRefused, SeeTerminal, ReplyLost, StopPolling, MaySend, QueueInv, Closed
  <2> QED BY <1>1, <2>1, <2>2 DEF QueueInv, TypeOK, Closed
<1>4. AloneInv' /\ SlotInv' /\ ProcessInv'
  BY <1>1 DEF TypeOK, AloneInv, SlotInv, ProcessInv, Holders
<1>5. RowInv' /\ OneRunPerTarget' /\ ResultInv'
  BY <1>1 DEF RowInv, OneRunPerTarget, ResultInv, Bare, Complete, batchLast
<1>6. WideInv'
  BY <1>1 DEF TypeOK, WideInv, Follows, Others
<1>7. StagedInv' /\ PublishedInv' /\ PackageIsNotSwapped'
  BY <1>1 DEF StagedInv, PublishedInv, PackageIsNotSwapped, Path
<1> QED BY <1>2, <1>3, <1>4, <1>5, <1>6, <1>7

LEMMA AcceptUploadPreserves ==
    ASSUME IInv, NEW r \in Run, AcceptUpload(r)
    PROVE  IInv'
<1> USE SimpleRunAssumption DEF IInv, AcceptUpload, adminVars
<1>1. pc[r] = "none" /\ client[r] = "waiting" /\ rows[r].status = "ABSENT"
  BY DEF MaySend, QueueInv, RowInv
<1>2. SlotInv' /\ slots' \in 0 .. MaxRuns
  BY <1>1, SlotTaken DEF acquireSimpleRun, Holding, Executing
<1>3. TypeOK'
  BY <1>2 DEF TypeOK, Holding, SetClient
<1>4. ProcessInv'
  BY DEF ProcessInv
<1>5. QueueInv' /\ AloneInv'
  BY <1>1 DEF TypeOK, QueueInv, AloneInv, MaySend, SetClient, Closed
<1>6. RowInv' /\ OneRunPerTarget'
  BY <1>1 DEF TypeOK, RowInv, OneRunPerTarget
<1>7. ResultInv' /\ WideInv'
  BY <1>1 DEF TypeOK, ResultInv, Bare, Complete, batchLast, WideInv, Follows, Others, SetClient
<1>8. StagedInv' /\ PublishedInv'
  BY <1>1 DEF TypeOK, StagedInv, PublishedInv
<1>9. PackageIsNotSwapped'
  BY <1>1 DEF TypeOK, PackageIsNotSwapped, Path, Executing
<1> QED BY <1>1, <1>2, <1>3, <1>4, <1>5, <1>6, <1>7, <1>8, <1>9

LEMMA UploadRefusedPreserves ==
    ASSUME IInv, NEW r \in Run, UploadRefused(r)
    PROVE  IInv'
<1> USE SimpleRunAssumption DEF IInv, UploadRefused, EndHandler, AnswerError, adminVars
<1>1. SlotInv' /\ slots' \in 0 .. MaxRuns
  BY SlotReleased DEF Holding
<1>2. TypeOK'
  BY <1>1 DEF TypeOK, SetClient
<1>3. ProcessInv'
  BY DEF TypeOK, ProcessInv, Holders, Holding, Executing
<1>4. QueueInv' /\ AloneInv'
  BY DEF TypeOK, QueueInv, AloneInv, SetClient, Closed
<1>5. RowInv' /\ OneRunPerTarget'
  BY DEF TypeOK, RowInv, OneRunPerTarget
<1>6. ResultInv' /\ WideInv'
  BY DEF TypeOK, ResultInv, Bare, Complete, batchLast, WideInv, Follows, Others, SetClient
<1>7. StagedInv' /\ PublishedInv'
  BY DEF TypeOK, StagedInv, PublishedInv
<1>8. PackageIsNotSwapped'
  BY DEF TypeOK, PackageIsNotSwapped, Path, Executing
<1> QED BY <1>1, <1>2, <1>3, <1>4, <1>5, <1>6, <1>7, <1>8

\* The INSERT, acknowledged or not.
LEMMA ClaimPreserves ==
    ASSUME IInv, NEW r \in Run, InsertRun(r) \/ InsertUnacknowledged(r)
    PROVE  IInv'
<1> USE SimpleRunAssumption DEF IInv
<1>1. /\ pc[r] = "uploading" /\ client[r] \in {"sent", "left"} /\ rows[r].status = "ABSENT"
      /\ \A q \in Run : TargetFor[q] = TargetFor[r] => rows[q].status \notin InProgress
      /\ rows' = [rows EXCEPT ![r].status = "PENDING"]
      /\ UNCHANGED alone \/ (client[r] = "left" /\ alone' = alone \cup {r})
      /\ UNCHANGED <<pathDir, outcome, files, up, adminVars>>
  BY DEF InsertRun, InsertUnacknowledged, readSimpleUploadFields, MayClaim, Busy, SetRow,
         QueueInv, RowInv, InProgress
<1>1a. ungrouped' \subseteq alone'
  <2>1. ungrouped \subseteq alone
    BY DEF TypeOK
  <2>2. readSimpleUploadFields(r)
    BY DEF InsertRun, InsertUnacknowledged
  <2> HIDE DEF IInv
  <2> QED BY <2>1, <2>2 DEF readSimpleUploadFields
<1>2. \/ /\ pc' = [pc EXCEPT ![r] = "claimed"]
         /\ UNCHANGED <<client, partials, slots>>
      \/ /\ pc' = [pc EXCEPT ![r] = "done"]
         /\ client' = [client EXCEPT ![r] = IF client[r] = "sent" THEN "failed" ELSE client[r]]
         /\ partials' = partials \ {r}
         /\ slots' = slots - 1
  BY DEF InsertRun, InsertUnacknowledged, EndHandler, AnswerError, SetClient
<1>3. SlotInv' /\ slots' \in 0 .. MaxRuns
  <2>1. CASE pc' = [pc EXCEPT ![r] = "claimed"] /\ UNCHANGED slots
    BY <1>1, <2>1, SlotKept DEF Holding
  <2>2. CASE pc' = [pc EXCEPT ![r] = "done"] /\ slots' = slots - 1
    BY <1>1, <2>2, SlotReleased DEF Holding
  <2> QED BY <1>2, <2>1, <2>2
<1>4. \A q \in Run : /\ q # r => rows'[q] = rows[q]
                     /\ rows'[r].status = "PENDING"
                     /\ Bare(rows'[r])
  <2>1. Bare(rows[r])
    BY <1>1 DEF ResultInv, Ended
  <2> HIDE DEF IInv
  <2> QED BY <1>1, <2>1, RowWritten
<1>5. rows' \in [Run -> RunRow]
  BY <1>1, RowTyped
<1>6. TypeOK'
  BY <1>1, <1>2, <1>3, <1>5, <1>1a DEF TypeOK, Holding, adminVars
<1>7. ProcessInv'
  BY <1>1, <1>2 DEF TypeOK, ProcessInv, Holders, Holding, Executing
<1>8. QueueInv' /\ AloneInv'
  <2>1. \A q \in Run : /\ pc'[q] = pc[q] \/ pc'[q] \in {"claimed", "done"}
                       /\ pc'[q] # pc[q] => q = r
                       /\ \/ client'[q] = client[q]
                          \/ client[q] = "sent" /\ client'[q] = "failed" /\ pc'[q] = "done"
    BY <1>1, <1>2 DEF TypeOK
  <2>2. QueueInv'
    BY <1>1, <2>1 DEF QueueInv, Closed
  <2>3. AloneInv'
    BY <1>1, <2>1 DEF TypeOK, AloneInv
  <2> QED BY <2>2, <2>3
<1>9. RowInv'
  BY <1>1, <1>2, <1>4 DEF TypeOK, RowInv
<1>10. OneRunPerTarget'
  BY <1>1, <1>4 DEF OneRunPerTarget
<1>11. ResultInv'
  BY <1>1, <1>2, <1>4 DEF TypeOK, ResultInv, Bare, Complete, batchLast, Ended
<1>12. WideInv'
  <2>1. StatusesStay
    BY <1>1, <1>2, <1>4 DEF TypeOK, StatusesStay, Closed
  <2>2. \A q \in Run : rows'[q].wide => rows[q].wide
    BY <1>4 DEF Bare
  <2>3. \A q \in Run : pc'[q] = "closing" => pc[q] = "closing"
    BY <1>2 DEF TypeOK
  <2> QED BY <1>1, <2>1, <2>2, <2>3, WideStays
<1>13. StagedInv' /\ PublishedInv'
  BY <1>1, <1>2, <1>4 DEF TypeOK, StagedInv, PublishedInv
<1>14. PackageIsNotSwapped'
  BY <1>1, <1>2 DEF TypeOK, PackageIsNotSwapped, Path, Executing
<1> QED BY <1>3, <1>6, <1>7, <1>8, <1>9, <1>10, <1>11, <1>12, <1>13, <1>14

LEMMA PublishPackagePreserves ==
    ASSUME IInv, NEW r \in Run, PublishPackage(r)
    PROVE  IInv'
<1> USE SimpleRunAssumption DEF IInv, PublishPackage, adminVars
<1>1. Path(r) \in Dir \X Name
  BY DEF TypeOK, Path
<1>2. SlotInv' /\ slots' \in 0 .. MaxRuns
  BY SlotKept DEF Holding, Executing
<1>3. TypeOK'
  BY <1>1, <1>2 DEF TypeOK, Holding, Executing
<1>4. ProcessInv'
  BY DEF TypeOK, ProcessInv, Holders, Holding, Executing
<1>5. QueueInv' /\ AloneInv'
  BY DEF TypeOK, QueueInv, AloneInv
<1>6. RowInv' /\ OneRunPerTarget'
  BY DEF TypeOK, RowInv, OneRunPerTarget
<1>7. ResultInv' /\ WideInv'
  BY DEF TypeOK, ResultInv, Bare, Complete, batchLast, WideInv, Follows, Others
<1>8. StagedInv' /\ PublishedInv'
  BY <1>1 DEF TypeOK, StagedInv, PublishedInv, RowInv
<1>9. PackageIsNotSwapped'
  <2> SUFFICES ASSUME NEW q \in Run, pc'[q] \in Executing
               PROVE  /\ files'[Path(q)] # NoRun
                      /\ TargetFor[files'[Path(q)]] = TargetFor[q] => files'[Path(q)] = q
    BY DEF PackageIsNotSwapped, Path
  <2>1. CASE q = r
    BY <1>1, <2>1 DEF TypeOK
  <2>2. CASE q # r
    <3>1. pc[q] \in Executing /\ rows[q].status \in InProgress /\ rows[r].status \in InProgress
      BY <2>2 DEF TypeOK, RowInv, Executing, InProgress
    <3>2. TargetFor[q] # TargetFor[r]
      BY <2>2, <3>1 DEF OneRunPerTarget
    <3>3. Path(q) \in Dir \X Name
      BY DEF TypeOK, Path
    <3> QED BY <1>1, <3>1, <3>2, <3>3 DEF TypeOK, PackageIsNotSwapped
  <2> QED BY <2>1, <2>2
<1> QED BY <1>2, <1>3, <1>4, <1>5, <1>6, <1>7, <1>8, <1>9

LEMMA PublishFailsPreserves ==
    ASSUME IInv, NEW r \in Run, PublishFails(r)
    PROVE  IInv'
<1> USE SimpleRunAssumption DEF IInv
<1>1. /\ pc[r] = "claimed" /\ rows[r].status = "PENDING"
      /\ pc' = [pc EXCEPT ![r] = "done"] /\ slots' = slots - 1
      /\ partials' = partials \ {r}
      /\ client' = [client EXCEPT ![r] = IF client[r] = "sent" THEN "failed" ELSE client[r]]
      /\ UNCHANGED <<pathDir, outcome, alone, ungrouped, up, adminVars>>
  BY DEF PublishFails, EndHandler, AnswerError, SetClient, RowInv
<1>2. Path(r) \in Dir \X Name
  BY DEF TypeOK, Path
<1>3. \/ UNCHANGED files
      \/ files' = [files EXCEPT ![Path(r)] = r]
  BY DEF PublishFails
<1>4. /\ \A q \in Run : q # r => rows'[q] = rows[q]
      /\ rows'[r].status \in {"PENDING", "FAILED"} /\ Bare(rows'[r])
      /\ rows' \in [Run -> RunRow]
  <2>1. Bare(rows[r])
    BY <1>1 DEF ResultInv, Ended
  <2>2. CASE UNCHANGED rows
    BY <1>1, <2>1, <2>2 DEF TypeOK
  <2>3. CASE rows' = [rows EXCEPT ![r].status = "FAILED"]
    BY <2>1, <2>3, RowTyped, RowWritten
  <2> QED BY <2>2, <2>3 DEF PublishFails, SetRow
<1>5. SlotInv' /\ slots' \in 0 .. MaxRuns
  BY <1>1, SlotReleased DEF Holding
<1>6. TypeOK'
  <2>1. files' \in [Dir \X Name -> Run \cup {NoRun}]
    BY <1>2, <1>3 DEF TypeOK
  <2> QED BY <1>1, <1>4, <1>5, <2>1 DEF TypeOK, adminVars
<1>7. ProcessInv'
  BY <1>1 DEF TypeOK, ProcessInv, Holders, Holding, Executing
<1>8. QueueInv' /\ AloneInv'
  BY <1>1 DEF TypeOK, QueueInv, AloneInv, Closed
<1>9. RowInv'
  BY <1>1, <1>4 DEF TypeOK, RowInv
<1>10. OneRunPerTarget'
  BY <1>1, <1>4 DEF OneRunPerTarget, InProgress
<1>11. ResultInv'
  BY <1>1, <1>4 DEF TypeOK, ResultInv, Bare, Complete, batchLast, Ended
<1>12. WideInv'
  <2>1. StatusesStay
    BY <1>1, <1>4 DEF TypeOK, StatusesStay
  <2>2. \A q \in Run : rows'[q].wide => rows[q].wide
    BY <1>4 DEF Bare
  <2>3. \A q \in Run : pc'[q] = "closing" => pc[q] = "closing"
    BY <1>1 DEF TypeOK
  <2> QED BY <1>1, <2>1, <2>2, <2>3, WideStays
<1>13. StagedInv'
  BY <1>1 DEF TypeOK, StagedInv
<1>14. PublishedInv'
  <2> SUFFICES ASSUME NEW x \in Dir \X Name, files'[x] # NoRun
               PROVE  rows'[files'[x]].status # "ABSENT"
    BY DEF PublishedInv
  <2>1. CASE files'[x] = files[x]
    BY <1>4, <2>1 DEF PublishedInv, TypeOK
  <2>2. CASE files'[x] = r
    BY <1>4, <2>2
  <2> QED BY <1>2, <1>3, <2>1, <2>2 DEF TypeOK
<1>15. PackageIsNotSwapped'
  <2> SUFFICES ASSUME NEW q \in Run, pc'[q] \in Executing
               PROVE  /\ files'[Path(q)] # NoRun
                      /\ TargetFor[files'[Path(q)]] = TargetFor[q] => files'[Path(q)] = q
    BY <1>1 DEF PackageIsNotSwapped, Path
  <2>1. q # r /\ pc[q] \in Executing
    BY <1>1 DEF TypeOK, Executing
  <2>2. rows[q].status \in InProgress /\ rows[r].status \in InProgress
    BY <1>1, <2>1 DEF RowInv, Executing, InProgress
  <2>3. TargetFor[q] # TargetFor[r]
    BY <2>1, <2>2 DEF OneRunPerTarget
  <2>4. Path(q) \in Dir \X Name
    BY DEF TypeOK, Path
  <2>5. CASE UNCHANGED files
    BY <2>1, <2>5 DEF PackageIsNotSwapped
  <2>6. CASE files' = [files EXCEPT ![Path(r)] = r]
    BY <1>2, <2>1, <2>3, <2>4, <2>6 DEF TypeOK, PackageIsNotSwapped
  <2> QED BY <1>3, <2>5, <2>6
<1> QED BY <1>5, <1>6, <1>7, <1>8, <1>9, <1>10, <1>11, <1>12, <1>13, <1>14, <1>15

-------------------------------------------------------------------------------
(***************************************************************************)
(* The executor                                                            *)
(***************************************************************************)

LEMMA StartCommandPreserves ==
    ASSUME IInv, NEW r \in Run, StartCommand(r)
    PROVE  IInv'
<1> USE SimpleRunAssumption DEF IInv, StartCommand, SetRow, adminVars
<1>1. /\ rows[r].status = "PENDING" /\ rows' \in [Run -> RunRow]
      /\ \A q \in Run : q # r => rows'[q] = rows[q]
      /\ rows'[r].status = "RUNNING" /\ Bare(rows'[r])
  <2>1. rows[r].status = "PENDING" /\ Bare(rows[r])
    BY DEF RowInv, ResultInv, Ended
  <2> QED BY <2>1, RowTyped, RowWritten
<1>2. SlotInv' /\ slots' \in 0 .. MaxRuns
  BY SlotKept DEF Holding, Executing
<1>3. TypeOK'
  BY <1>1, <1>2 DEF TypeOK, Holding, Executing
<1>4. ProcessInv'
  BY DEF TypeOK, ProcessInv, Holders, Holding, Executing
<1>5. QueueInv' /\ AloneInv'
  BY DEF TypeOK, QueueInv, AloneInv
<1>6. RowInv' /\ OneRunPerTarget'
  BY <1>1 DEF TypeOK, RowInv, OneRunPerTarget, InProgress
<1>7. ResultInv'
  BY <1>1 DEF TypeOK, ResultInv, Bare, Complete, batchLast, Ended
<1>8. WideInv'
  BY <1>1, WideStays DEF TypeOK, StatusesStay, Bare
<1>9. StagedInv' /\ PublishedInv'
  BY <1>1 DEF TypeOK, StagedInv, PublishedInv
<1>10. PackageIsNotSwapped'
  BY DEF TypeOK, PackageIsNotSwapped, Path, Executing
<1> QED BY <1>2, <1>3, <1>4, <1>5, <1>6, <1>7, <1>8, <1>9, <1>10

LEMMA StartFailsPreserves ==
    ASSUME IInv, NEW r \in Run, StartFails(r)
    PROVE  IInv'
<1> USE SimpleRunAssumption DEF IInv, StartFails, EndExecutor, adminVars
<1>1. SlotInv' /\ slots' \in 0 .. MaxRuns
  BY SlotReleased DEF Holding, Executing
<1>2. outcome' \in [Run -> RunRow]
  BY DEF TypeOK, NoResult, Result, RunRow, StageStatus
<1>3. TypeOK'
  BY <1>1, <1>2 DEF TypeOK
<1>4. ProcessInv'
  BY DEF TypeOK, ProcessInv, Holders, Holding, Executing
<1>5. QueueInv' /\ AloneInv'
  BY DEF TypeOK, QueueInv, AloneInv
<1>6. RowInv' /\ OneRunPerTarget'
  BY DEF TypeOK, RowInv, OneRunPerTarget
<1>7. ResultInv' /\ WideInv'
  BY DEF TypeOK, ResultInv, Bare, Complete, batchLast, WideInv, Follows, Others
<1>8. StagedInv' /\ PublishedInv'
  BY DEF TypeOK, StagedInv, PublishedInv, Executing
<1>9. PackageIsNotSwapped'
  BY DEF TypeOK, PackageIsNotSwapped, Path, Executing
<1> QED BY <1>1, <1>3, <1>4, <1>5, <1>6, <1>7, <1>8, <1>9

LEMMA CommandEndsPreserves ==
    ASSUME IInv, NEW r \in Run, CommandEnds(r)
    PROVE  IInv'
<1> USE SimpleRunAssumption DEF IInv, CommandEnds, adminVars
<1>1. PICK s \in Ended : outcome' = [outcome EXCEPT ![r] = Result(s, "NONE", "NONE", FALSE)]
  OBVIOUS
<1>2. SlotInv' /\ slots' \in 0 .. MaxRuns
  BY SlotKept DEF Holding, Executing
<1>3. TypeOK'
  BY <1>1, <1>2 DEF TypeOK, Holding, Executing, Result, RunRow, StageStatus
<1>4. ProcessInv'
  BY DEF TypeOK, ProcessInv, Holders, Holding, Executing
<1>5. QueueInv' /\ AloneInv'
  BY DEF TypeOK, QueueInv, AloneInv
<1>6. RowInv' /\ OneRunPerTarget'
  BY DEF TypeOK, RowInv, OneRunPerTarget
<1>7. ResultInv' /\ WideInv'
  BY <1>1 DEF TypeOK, ResultInv, Bare, Complete, batchLast, WideInv, Follows, Others, Result
<1>8. StagedInv' /\ PublishedInv'
  BY DEF TypeOK, StagedInv, PublishedInv
<1>9. PackageIsNotSwapped'
  BY DEF TypeOK, PackageIsNotSwapped, Path, Executing
<1> QED BY <1>2, <1>3, <1>4, <1>5, <1>6, <1>7, <1>8, <1>9

\* What the stages of a run that deployed record.
LEMMA StageResultFacts ==
    ASSUME ungrouped \subseteq alone, NEW r \in Run,
           NEW replScope \in {"OFF", "EACH", "ONCE"}, NEW appScope \in {"OFF", "EACH", "ONCE"},
           NEW incomplete \in UploadIncomplete(r),
           NEW repl \in Replication(replScope, batchLast(r), incomplete),
           NEW app \in AppDeployment(appScope, batchLast(r), incomplete, repl),
           NEW res, res = StageResult(replScope, appScope, incomplete, repl, app)
    PROVE  /\ res \in RunRow /\ res.status \in Ended
           /\ Complete(r, res)
           /\ res.wide /\ r \notin alone => Marked(r) /\ ~uploadHasFailedPackages(r)
<1>1. incomplete \in BOOLEAN /\ batchLast(r) \in BOOLEAN
      /\ (batchLast(r) /\ ~incomplete /\ r \notin alone => Marked(r) /\ ~uploadHasFailedPackages(r))
      /\ (~batchLast(r) => ~incomplete)
  BY DEF UploadIncomplete, batchLast, Marked, uploadHasFailedPackages
<1> DEFINE last == batchLast(r)
<1>2. /\ repl \in {"NONE", "SKIPPED"} \cup Ended
      /\ replScope = "OFF" <=> repl = "NONE"
      /\ repl = "SKIPPED" => replScope = "ONCE" /\ (~last \/ incomplete)
      /\ replScope = "ONCE" /\ repl \in Ended => last /\ ~incomplete
  BY <1>1 DEF Replication, stageRuns, stageHeldForIncompleteUpload, Ended
<1>3. /\ app \in {"NONE", "SKIPPED"} \cup Ended
      /\ app \in Ended => ~stageFailed(repl) /\ repl # "SKIPPED"
      /\ app = "SKIPPED" => \/ repl = "SKIPPED"
                            \/ appScope = "ONCE" /\ (~last \/ incomplete) /\ ~stageFailed(repl)
      /\ appScope = "ONCE" /\ app \in Ended => last /\ ~incomplete
  BY <1>1 DEF AppDeployment, appDeployStageRuns, stageRuns, stageHeldForIncompleteUpload, Ended
<1> DEFINE held == incomplete /\ (replScope = "ONCE" \/ (appScope = "ONCE" /\ ~stageFailed(repl)))
           status == IF stageFailed(repl) \/ stageFailed(app) THEN "FAILED" ELSE "SUCCESS"
           final == outcomeWithHeldStages(status, held)
           wide == \/ replScope = "ONCE" /\ repl \in Ended
                   \/ appScope = "ONCE" /\ app \in Ended
<1>4. /\ final \in {"SUCCESS", "FAILED"}
      /\ final = "SUCCESS" => ~held
  BY DEF outcomeWithHeldStages
<1>5. /\ res.status = final /\ res.repl = repl /\ res.app = app
      /\ res.wide = wide /\ wide \in BOOLEAN
      /\ res = [status |-> final, repl |-> repl, app |-> app, wide |-> wide]
  <2>1. res = [status |-> final, repl |-> repl, app |-> app, wide |-> wide]
    BY DEF StageResult, Result, outcomeWithHeldStages, stageFailed
  <2>2. wide \in BOOLEAN
    OBVIOUS
  <2> HIDE DEF final, wide
  <2> QED BY <2>1, <2>2
<1>6. res \in RunRow /\ res.status \in Ended
  <2>1. /\ repl \in StageStatus /\ app \in StageStatus
        /\ final \in {"ABSENT", "PENDING", "RUNNING"} \cup Ended
    BY <1>2, <1>3, <1>4 DEF StageStatus, Ended
  <2> HIDE DEF final, wide
  <2> QED BY <1>4, <1>5, <2>1 DEF RunRow, Ended
<1> HIDE DEF final
<1>7. Complete(r, res)
  <2>1. final = "SUCCESS" /\ last => repl # "SKIPPED" /\ app # "SKIPPED"
    BY <1>1, <1>2, <1>3, <1>4 DEF stageFailed
  <2>2. app \in Ended => repl \in {"NONE", "SUCCESS"}
    BY <1>2, <1>3 DEF stageFailed
  <2> QED BY <1>5, <2>1, <2>2 DEF Complete
<1>8. res.wide /\ r \notin alone => Marked(r) /\ ~uploadHasFailedPackages(r)
  BY <1>1, <1>2, <1>3, <1>5
<1> QED BY <1>6, <1>7, <1>8

LEMMA RunStagesPreserves ==
    ASSUME IInv, NEW r \in Run, RunStages(r)
    PROVE  IInv'
<1> USE SimpleRunAssumption DEF IInv, adminVars
<1>1. /\ pc[r] = "stages" /\ pc' = [pc EXCEPT ![r] = "closing"]
      /\ outcome[r].status \in Ended /\ Bare(outcome[r])
      /\ UNCHANGED <<rows, pathDir, client, alone, ungrouped, partials, files, slots, up, adminVars>>
  BY DEF RunStages, ResultInv
<1>2. /\ outcome' \in [Run -> RunRow]
      /\ \A q \in Run : q # r => outcome'[q] = outcome[q]
      /\ outcome'[r].status \in Ended
      /\ Complete(r, outcome'[r])
      /\ outcome'[r].wide /\ r \notin alone => Marked(r) /\ ~uploadHasFailedPackages(r)
  <2>1. CASE UNCHANGED outcome
    BY <1>1, <2>1 DEF TypeOK, Bare, Complete, Ended
  <2>2. CASE outcome' = [outcome EXCEPT ![r].status = "FAILED"]
    <3>1. outcome[r] \in RunRow /\ outcome \in [Run -> RunRow]
      BY DEF TypeOK
    <3>2. outcome'[r] = [outcome[r] EXCEPT !.status = "FAILED"]
      BY <2>2, <3>1
    <3>3. /\ outcome'[r] \in RunRow /\ outcome'[r].status = "FAILED"
          /\ outcome'[r].app = "NONE" /\ ~outcome'[r].wide
      BY <1>1, <3>1, <3>2 DEF RunRow, Bare, Ended
    <3>4. \A q \in Run : q # r => outcome'[q] = outcome[q]
      BY <2>2, <3>1
    <3>5. outcome' \in [Run -> RunRow]
      BY <2>2, <3>1, <3>2, <3>3
    <3> QED BY <3>3, <3>4, <3>5 DEF Complete, Ended
  <2>3. ASSUME NEW replScope \in {"OFF", "EACH", "ONCE"}, NEW appScope \in {"OFF", "EACH", "ONCE"},
               NEW incomplete \in UploadIncomplete(r),
               NEW repl \in Replication(replScope, batchLast(r), incomplete),
               NEW app \in AppDeployment(appScope, batchLast(r), incomplete, repl),
               outcome' = [outcome EXCEPT ![r] =
                             StageResult(replScope, appScope, incomplete, repl, app)]
        PROVE  /\ outcome' \in [Run -> RunRow]
               /\ \A q \in Run : q # r => outcome'[q] = outcome[q]
               /\ outcome'[r].status \in Ended
               /\ Complete(r, outcome'[r])
               /\ outcome'[r].wide /\ r \notin alone => Marked(r) /\ ~uploadHasFailedPackages(r)
    <3> DEFINE res == StageResult(replScope, appScope, incomplete, repl, app)
    <3>0. ungrouped \subseteq alone
      BY DEF TypeOK
    <3>1. /\ res \in RunRow /\ res.status \in Ended
          /\ Complete(r, res)
          /\ res.wide /\ r \notin alone => Marked(r) /\ ~uploadHasFailedPackages(r)
      BY <3>0, StageResultFacts
    <3>2. outcome \in [Run -> RunRow] /\ outcome' = [outcome EXCEPT ![r] = res]
      BY <2>3 DEF TypeOK
    <3> HIDE DEF res
    <3> QED BY <3>1, <3>2
  <2> QED BY <2>1, <2>2, <2>3 DEF RunStages
<1>3. SlotInv' /\ slots' \in 0 .. MaxRuns
  BY <1>1, SlotKept DEF Holding, Executing
<1>4. TypeOK'
  BY <1>1, <1>2, <1>3 DEF TypeOK, Holding, Executing
<1>5. ProcessInv'
  BY <1>1 DEF TypeOK, ProcessInv, Holders, Holding, Executing
<1>6. QueueInv' /\ AloneInv'
  BY <1>1 DEF TypeOK, QueueInv, AloneInv
<1>7. RowInv' /\ OneRunPerTarget'
  BY <1>1 DEF TypeOK, RowInv, OneRunPerTarget
<1>8. ResultInv'
  BY <1>1, <1>2 DEF TypeOK, ResultInv, Bare, Complete, batchLast
<1>9. WideInv'
  BY <1>1, <1>2 DEF TypeOK, AloneInv, WideInv, Follows, Others, uploadHasFailedPackages
<1>10. StagedInv' /\ PublishedInv'
  BY <1>1 DEF TypeOK, StagedInv, PublishedInv
<1>11. PackageIsNotSwapped'
  BY <1>1 DEF TypeOK, PackageIsNotSwapped, Path, Executing
<1> QED BY <1>3, <1>4, <1>5, <1>6, <1>7, <1>8, <1>9, <1>10, <1>11

LEMMA RecordOutcomePreserves ==
    ASSUME IInv, NEW r \in Run, RecordOutcome(r)
    PROVE  IInv'
<1> USE SimpleRunAssumption DEF IInv
<1>1. /\ pc[r] = "closing" /\ rows[r].status = "RUNNING"
      /\ outcome[r].status \in Ended /\ Complete(r, outcome[r])
      /\ pc' = [pc EXCEPT ![r] = "done"] /\ slots' = slots - 1
      /\ outcome' = [outcome EXCEPT ![r] = NoResult]
      /\ UNCHANGED <<pathDir, client, alone, ungrouped, partials, files, up, adminVars>>
  BY DEF RecordOutcome, EndExecutor, RowInv, ResultInv
<1>2. /\ rows' \in [Run -> RunRow]
      /\ \A q \in Run : q # r => rows'[q] = rows[q]
      /\ rows'[r] = rows[r] \/ rows'[r] = outcome[r]
  BY DEF RecordOutcome, TypeOK
<1>3. rows'[r].status \notin {"ABSENT", "PENDING"}
  BY <1>1, <1>2 DEF Ended
<1>4. SlotInv' /\ slots' \in 0 .. MaxRuns
  BY <1>1, SlotReleased DEF Holding, Executing
<1>5. TypeOK'
  <2>1. outcome' \in [Run -> RunRow]
    BY <1>1 DEF TypeOK, NoResult, Result, RunRow, StageStatus
  <2> QED BY <1>1, <1>2, <1>4, <2>1 DEF TypeOK, adminVars
<1>6. ProcessInv'
  BY <1>1 DEF TypeOK, ProcessInv, Holders, Holding, Executing
<1>7. QueueInv' /\ AloneInv'
  BY <1>1 DEF TypeOK, QueueInv, AloneInv
<1>8. RowInv'
  BY <1>1, <1>2 DEF TypeOK, RowInv
<1>9. OneRunPerTarget'
  BY <1>1, <1>2 DEF OneRunPerTarget, InProgress
<1>10. ResultInv'
  BY <1>1, <1>2 DEF TypeOK, ResultInv, Bare, Complete, batchLast
<1>11. WideInv'
  <2>1. StatusesStay
    BY <1>1, <1>2 DEF StatusesStay
  <2>2. \A q \in Run : rows'[q].wide => rows[q].wide \/ (pc[q] = "closing" /\ outcome[q].wide)
    BY <1>1, <1>2
  <2>3. \A q \in Run : pc'[q] = "closing" /\ outcome'[q].wide =>
                       pc[q] = "closing" /\ outcome[q].wide
    BY <1>1 DEF TypeOK
  <2> QED BY <2>1, <2>2, <2>3, WideStays
<1>12. StagedInv'
  BY <1>1 DEF TypeOK, StagedInv
<1>13. PublishedInv'
  <2> SUFFICES ASSUME NEW x \in Dir \X Name, files[x] # NoRun
               PROVE  rows'[files[x]].status # "ABSENT"
    BY <1>1 DEF PublishedInv
  <2> QED BY <1>2, <1>3 DEF TypeOK, PublishedInv
<1>14. PackageIsNotSwapped'
  BY <1>1 DEF TypeOK, PackageIsNotSwapped, Path, Executing
<1> QED BY <1>4, <1>5, <1>6, <1>7, <1>8, <1>9, <1>10, <1>11, <1>12, <1>13, <1>14

-------------------------------------------------------------------------------
(***************************************************************************)
(* The process and the administrators                                      *)
(***************************************************************************)

LEMMA CrashPreserves ==
    ASSUME IInv, Crash
    PROVE  IInv'
<1> USE SimpleRunAssumption DEF IInv
<1>1. /\ pc' = [r \in Run |-> IF pc[r] \in Holding THEN "lost" ELSE pc[r]]
      /\ slots' = 0 /\ up' = FALSE /\ revoking' = {}
      /\ outcome' = [r \in Run |-> NoResult]
      /\ client' = [r \in Run |-> IF pc[r] \in {"uploading", "claimed"} /\ client[r] = "sent"
                                    THEN "failed" ELSE client[r]]
      /\ UNCHANGED <<rows, pathDir, alone, ungrouped, partials, files, dirOf, revoked>>
  BY DEF Crash
<1>2. \A r \in Run : /\ pc'[r] \in {"none", "done", "lost"}
                     /\ pc'[r] = "lost" \/ pc'[r] = pc[r]
                     /\ pc'[r] = "none" <=> pc[r] = "none"
  BY <1>1 DEF TypeOK, Holding, Executing
<1>3. Holders' = {}
  BY <1>2 DEF Holders, Holding, Executing
<1>4. SlotInv' /\ ProcessInv'
  BY <1>1, <1>3, FS_EmptySet DEF SlotInv, ProcessInv
<1>5. TypeOK'
  <2>1. outcome' \in [Run -> RunRow]
    BY <1>1 DEF TypeOK, NoResult, Result, RunRow, StageStatus
  <2>2. pc' \in [Run -> {"none", "done", "lost"} \cup Holding]
    BY <1>1, <1>2
  <2>3. client' \in [Run -> {"waiting", "sent", "failed", "left", "seen", "unknown"}]
    BY <1>1 DEF TypeOK
  <2>4. slots' \in 0 .. MaxRuns
    BY <1>1
  <2>5. up' \in BOOLEAN /\ revoking' \subseteq Target
    BY <1>1
  <2> QED BY <1>1, <2>1, <2>2, <2>3, <2>4, <2>5 DEF TypeOK
<1>6. QueueInv' /\ AloneInv'
  <2> SUFFICES ASSUME NEW r \in Run
               PROVE  /\ client'[r] = "waiting" => pc'[r] = "none"
                      /\ pc'[r] = "uploading" => client'[r] \in {"sent", "left"}
                      /\ client'[r] # "waiting" /\ Before[r] # NoRun => client'[Before[r]] \in Closed
    BY <1>1 DEF TypeOK, QueueInv, AloneInv
  <2>1. \A q \in Run : /\ client'[q] = "waiting" => client[q] = "waiting"
                       /\ client'[q] # "waiting" => client[q] # "waiting"
                       /\ client[q] \in Closed => client'[q] \in Closed
    BY <1>1 DEF QueueInv, Closed
  <2> QED BY <1>2, <2>1 DEF QueueInv
<1>7. RowInv' /\ OneRunPerTarget'
  BY <1>1, <1>2 DEF RowInv, OneRunPerTarget
<1>8. ResultInv' /\ WideInv'
  BY <1>1, <1>2 DEF TypeOK, ResultInv, Bare, Complete, batchLast, WideInv, Follows, Others
<1>9. StagedInv' /\ PublishedInv'
  <2>1. \A r \in partials : pc'[r] = "lost"
    BY <1>1 DEF TypeOK, StagedInv, Holding
  <2> QED BY <1>1, <2>1 DEF StagedInv, PublishedInv
<1>10. PackageIsNotSwapped'
  BY <1>2 DEF PackageIsNotSwapped, Executing
<1> QED BY <1>4, <1>5, <1>6, <1>7, <1>8, <1>9, <1>10

LEMMA RestartPreserves ==
    ASSUME IInv, Restart
    PROVE  IInv'
<1> USE SimpleRunAssumption DEF IInv
<1>1. /\ up' = TRUE /\ partials' \subseteq partials
      /\ UNCHANGED <<pc, pathDir, outcome, client, alone, ungrouped, files, slots, adminVars>>
  BY DEF Restart, RemoveStagedSimpleUploads
<1>2. \A r \in Run : pc[r] \notin Holding
  BY DEF Restart, ProcessInv, Holders
<1>3. /\ rows' \in [Run -> RunRow]
      /\ \A r \in Run :
            \/ rows'[r] = rows[r]
            \/ /\ rows[r].status \in InProgress
               /\ rows'[r].status = "FAILED"
               /\ Bare(rows'[r])
  <2>1. CASE UNCHANGED rows
    BY <2>1 DEF TypeOK
  <2>2. CASE rows' = RecoverSimpleRuns
    <3>1. ASSUME NEW r \in Run, rows[r].status \in InProgress
          PROVE  /\ [rows[r] EXCEPT !.status = "FAILED"] \in RunRow
                 /\ [rows[r] EXCEPT !.status = "FAILED"].status = "FAILED"
                 /\ Bare([rows[r] EXCEPT !.status = "FAILED"])
      <4>1. rows[r] \in RunRow /\ Bare(rows[r])
        BY <3>1 DEF TypeOK, ResultInv, InProgress, Ended
      <4> QED BY <4>1 DEF RunRow, Bare, Ended
    <3>2. \A r \in Run : rows'[r] = IF rows[r].status \in InProgress
                                     THEN [rows[r] EXCEPT !.status = "FAILED"] ELSE rows[r]
      BY <2>2 DEF RecoverSimpleRuns, InProgress
    <3>3. ASSUME NEW r \in Run PROVE rows'[r] \in RunRow
      <4>1. rows[r] \in RunRow
        BY DEF TypeOK
      <4>2. CASE rows[r].status \in InProgress
        BY <3>1, <3>2, <4>2
      <4>3. CASE rows[r].status \notin InProgress
        BY <3>2, <4>1, <4>3
      <4> QED BY <4>2, <4>3
    <3>4. rows' \in [Run -> RunRow]
      BY <2>2, <3>3 DEF RecoverSimpleRuns
    <3> QED BY <3>1, <3>2, <3>4
  <2> QED BY <2>1, <2>2 DEF Restart
<1>4. TypeOK'
  BY <1>1, <1>3 DEF TypeOK, adminVars
<1>5. SlotInv' /\ ProcessInv'
  BY <1>1 DEF SlotInv, ProcessInv, Holders
<1>6. QueueInv' /\ AloneInv'
  BY <1>1 DEF QueueInv, AloneInv
<1>7. RowInv'
  <2>1. \A r \in Run : pc[r] \notin {"uploading", "claimed", "start", "command", "stages", "closing"}
    BY <1>2 DEF Holding, Executing
  <2>2. \A r \in Run : rows[r].status = "ABSENT" => rows'[r].status = "ABSENT"
    BY <1>3 DEF InProgress
  <2> QED BY <1>1, <2>1, <2>2 DEF RowInv
<1>8. OneRunPerTarget'
  <2>1. \A r \in Run : rows'[r].status \in InProgress => rows[r].status \in InProgress
    BY <1>3
  <2> QED BY <2>1 DEF OneRunPerTarget
<1>9. ResultInv'
  <2>1. \A r \in Run : pc[r] \notin {"stages", "closing"}
    BY <1>2 DEF Holding, Executing
  <2> QED BY <1>1, <1>3, <2>1 DEF ResultInv, Bare, Complete, batchLast, Ended
<1>10. WideInv'
  <2>1. StatusesStay
    BY <1>1, <1>3 DEF StatusesStay, InProgress
  <2>2. \A r \in Run : rows'[r].wide => rows[r].wide
    BY <1>3 DEF Bare
  <2> QED BY <1>1, <2>1, <2>2, WideStays
<1>11. StagedInv'
  BY <1>1 DEF StagedInv
<1>12. PublishedInv'
  BY <1>1, <1>3 DEF TypeOK, PublishedInv
<1>13. PackageIsNotSwapped'
  BY <1>1 DEF PackageIsNotSwapped, Path
<1> QED BY <1>4, <1>5, <1>6, <1>7, <1>8, <1>9, <1>10, <1>11, <1>12, <1>13

LEMMA AdminPreserves ==
    ASSUME IInv, NEW t \in Target, Admin(t)
    PROVE  IInv'
<1> USE DEF IInv
<1>1. UNCHANGED <<rows, pc, pathDir, outcome, client, alone, ungrouped, partials, files, slots, up>>
  BY DEF Admin, RevokeCheck, RevokeWrite, MoveTarget
<1>2. dirOf' \in [Target -> Dir] /\ revoked' \subseteq Target /\ revoking' \subseteq Target
  BY DEF Admin, RevokeCheck, RevokeWrite, MoveTarget, TypeOK
<1>3. TypeOK'
  BY <1>1, <1>2 DEF TypeOK
<1>4. SlotInv' /\ ProcessInv' /\ QueueInv' /\ AloneInv' /\ RowInv' /\ OneRunPerTarget'
  BY <1>1 DEF SlotInv, ProcessInv, Holders, QueueInv, AloneInv, RowInv, OneRunPerTarget
<1>5. ResultInv' /\ WideInv'
  BY <1>1 DEF ResultInv, Bare, Complete, batchLast, WideInv, Follows, Others
<1>6. StagedInv' /\ PublishedInv' /\ PackageIsNotSwapped'
  BY <1>1 DEF StagedInv, PublishedInv, PackageIsNotSwapped, Path
<1> QED BY <1>3, <1>4, <1>5, <1>6

-------------------------------------------------------------------------------
(***************************************************************************)
(* The theorems                                                            *)
(***************************************************************************)

LEMMA IInvInit == Init => IInv
<1> SUFFICES ASSUME Init PROVE IInv
  OBVIOUS
<1> USE SimpleRunAssumption DEF Init
<1>1. NoResult \in RunRow /\ NoResult.status = "ABSENT" /\ Bare(NoResult)
  BY DEF NoResult, Result, RunRow, StageStatus, Bare
<1>2. TypeOK
  BY <1>1 DEF TypeOK
<1>3. Holders = {}
  BY DEF Holders, Holding, Executing
<1>4. SlotInv /\ ProcessInv
  BY <1>3, FS_EmptySet DEF SlotInv, ProcessInv
<1>5. QueueInv /\ AloneInv
  BY DEF QueueInv, AloneInv
<1>6. RowInv /\ OneRunPerTarget
  BY <1>1 DEF RowInv, OneRunPerTarget, InProgress
<1>7. ResultInv /\ WideInv
  BY <1>1 DEF ResultInv, Bare, Complete, WideInv, Follows, Ended
<1>8. StagedInv /\ PublishedInv /\ PackageIsNotSwapped
  BY DEF StagedInv, PublishedInv, PackageIsNotSwapped, Executing
<1> QED BY <1>2, <1>4, <1>5, <1>6, <1>7, <1>8 DEF IInv

LEMMA IInvStep == IInv /\ [Next]_vars => IInv'
<1> SUFFICES ASSUME IInv, [Next]_vars PROVE IInv'
  OBVIOUS
<1>1. ASSUME NEW r \in Run, AcceptUpload(r) PROVE IInv'
  BY <1>1, AcceptUploadPreserves
<1>2. ASSUME NEW r \in Run, Browser(r) PROVE IInv'
  BY <1>2, BrowserPreserves
<1>3. ASSUME NEW r \in Run, Handler(r) PROVE IInv'
  BY <1>3, UploadRefusedPreserves, ClaimPreserves, PublishPackagePreserves,
     PublishFailsPreserves DEF Handler
<1>4. ASSUME NEW r \in Run, Executor(r) PROVE IInv'
  BY <1>4, StartCommandPreserves, StartFailsPreserves, CommandEndsPreserves,
     RunStagesPreserves, RecordOutcomePreserves DEF Executor
<1>5. ASSUME NEW t \in Target, Admin(t) PROVE IInv'
  BY <1>5, AdminPreserves
<1>6. CASE Crash
  BY <1>6, CrashPreserves
<1>7. CASE Restart
  BY <1>7, RestartPreserves
<1>8. CASE UNCHANGED vars
  <2> USE <1>8 DEF IInv, vars
  <2>1. /\ TypeOK' /\ SlotInv' /\ ProcessInv' /\ QueueInv' /\ AloneInv' /\ RowInv'
        /\ OneRunPerTarget'
    BY DEF TypeOK, SlotInv, ProcessInv, Holders, QueueInv, AloneInv, RowInv, OneRunPerTarget
  <2>2. ResultInv' /\ WideInv'
    BY DEF ResultInv, Bare, Complete, batchLast, WideInv, Follows, Others
  <2>3. StagedInv' /\ PublishedInv' /\ PackageIsNotSwapped'
    BY DEF StagedInv, PublishedInv, PackageIsNotSwapped, Path
  <2> QED BY <2>1, <2>2, <2>3
<1> QED BY <1>1, <1>2, <1>3, <1>4, <1>5, <1>6, <1>7, <1>8 DEF Next

\* In every reachable state the conjunction of the parts above holds.
THEOREM Invariance == Spec => []IInv
BY IInvInit, IInvStep, PTL DEF Spec

\* Rows, handlers, files and counters keep their types.
THEOREM TypeCorrect == Spec => []TypeOK
BY Invariance, PTL DEF IInv

\* At most one command works on a target: a command's row is in progress, and
\* the partial unique index admits one such row per target.
THEOREM OneCommand == Spec => []OneCommandPerTarget
<1>1. IInv => OneCommandPerTarget
  BY DEF IInv, RowInv, OneRunPerTarget, OneCommandPerTarget, Executing, InProgress
<1> QED BY <1>1, Invariance, PTL

\* simpleActive is exactly the number of uploads and commands in progress.
THEOREM ExactSlots == Spec => []SlotsAreExact
<1>1. IInv => SlotsAreExact
  BY DEF IInv, SlotInv, Holders, SlotsAreExact
<1> QED BY <1>1, Invariance, PTL

\* An upload that ended leaves no staged file, one without a run no package.
THEOREM RefusedLeavesNothing == Spec => []RefusedUploadLeavesNothing
<1>1. IInv => RefusedUploadLeavesNothing
  BY DEF IInv, StagedInv, PublishedInv, RefusedUploadLeavesNothing
<1> QED BY <1>1, Invariance, PTL

\* A green last package held back none of its stages.
THEOREM GreenIsComplete == Spec => []GreenRunIsComplete
<1>1. IInv => GreenRunIsComplete
  BY DEF IInv, ResultInv, Complete, GreenRunIsComplete
<1> QED BY <1>1, Invariance, PTL

\* A stage of a whole upload came after every run of that upload, for queues
\* of any length and whatever requests the browser gives up: the queue is sent in
\* order, so only a package left behind before its INSERT can start after its last.
THEOREM StagesFollow == Spec => []StagesFollowEveryRun
<1>1. IInv => StagesFollowEveryRun
  BY DEF IInv, WideInv, Follows, Others, StagesFollowEveryRun
<1> QED BY <1>1, Invariance, PTL

\* The browser gives up no upload, and sees none end, that left no row.
EveryUploadIsRecorded == \A r \in Run : client[r] \in Closed => rows[r].status # "ABSENT"

NoneLeft == \A r \in Run : client[r] # "left"

\* Uploads that are all recorded are none of them given up before the INSERT.
LEMMA NoneLeftStep ==
    IInv /\ NoneLeft /\ [Next]_vars /\ EveryUploadIsRecorded' => NoneLeft'
<1> SUFFICES ASSUME IInv, NoneLeft, [Next]_vars, EveryUploadIsRecorded',
                    NEW q \in Run, client'[q] = "left"
             PROVE  FALSE
  BY DEF NoneLeft
<1> USE DEF IInv, TypeOK, NoneLeft
<1>1. ASSUME NEW r \in Run, Browser(r) PROVE FALSE
  <2>1. UNCHANGED rows /\ r = q /\ pc[r] = "uploading"
    BY <1>1 DEF Browser, SendRefused, SeeTerminal, ReplyLost, StopPolling, SetClient
  <2> QED BY <2>1 DEF EveryUploadIsRecorded, Closed, RowInv
<1>2. ASSUME NEW r \in Run, AcceptUpload(r) \/ Handler(r) PROVE FALSE
  BY <1>2 DEF AcceptUpload, Handler, UploadRefused, InsertRun, InsertUnacknowledged,
              PublishPackage, PublishFails, AnswerError, SetClient
<1>3. ASSUME NEW r \in Run, Executor(r) PROVE FALSE
  BY <1>3 DEF Executor, StartCommand, StartFails, CommandEnds, RunStages, RecordOutcome, EndExecutor
<1>4. ASSUME NEW t \in Target, Admin(t) PROVE FALSE
  BY <1>4 DEF Admin, RevokeCheck, RevokeWrite, MoveTarget
<1>5. CASE Crash \/ Restart \/ UNCHANGED vars
  BY <1>5 DEF Crash, Restart, vars
<1> QED BY <1>1, <1>2, <1>3, <1>4, <1>5 DEF Next

\* What uploadHasFailedPackages misses is exactly the uploads without a row: as
\* long as every upload that ended for the browser is recorded, a stage of a whole
\* upload runs only when all of its packages were deployed.
THEOREM StagesFollowRecorded ==
    Spec /\ []EveryUploadIsRecorded => []StagesFollowEveryPackage
<1>1. IInv /\ NoneLeft /\ EveryUploadIsRecorded => StagesFollowEveryPackage
  <2> SUFFICES ASSUME IInv, NoneLeft, EveryUploadIsRecorded,
                      NEW r \in Run, NEW q \in Others(r), rows[r].wide, r \notin alone
               PROVE  rows[q].status = "SUCCESS"
    BY DEF StagesFollowEveryPackage, Others
  <2>1. rows[r].status # "ABSENT"
    BY DEF IInv, ResultInv, Bare, Ended
  <2>2. client[r] # "waiting"
    BY <2>1 DEF IInv, QueueInv, RowInv
  <2>3. Marked(r) /\ rows[q].status \in {"ABSENT", "SUCCESS"}
    BY DEF IInv, WideInv, Follows, NoneLeft, Others
  <2>4. client[q] \in Closed
    BY <2>2, <2>3, LastComesLast
  <2> QED BY <2>3, <2>4 DEF EveryUploadIsRecorded, Others
<1>2. Init => NoneLeft
  BY DEF Init, NoneLeft
<1>3. Spec /\ []EveryUploadIsRecorded => []NoneLeft
  BY <1>2, NoneLeftStep, Invariance, PTL DEF Spec
<1> QED BY <1>1, <1>3, Invariance, PTL

\* The package of a command is there, and no upload to its target replaced it,
\* whenever targets are moved, revoked and registered.
THEOREM NotSwapped == Spec => []PackageIsNotSwapped
BY Invariance, PTL DEF IInv

-------------------------------------------------------------------------------
(***************************************************************************)
(* Directories: a target may be moved while it works and another registered *)
(* in the directory it left.  Where administrators move targets only when   *)
(* nothing is in progress in either place, packages are left alone by all.  *)
(***************************************************************************)

\* A target without an upload or command moves to a directory without one.
MovedWhenIdle ==
    \A t \in Target : dirOf'[t] # dirOf[t] =>
        \A r \in Holders : TargetFor[r] # t /\ pathDir[r] # dirOf'[t]

ActiveDirsDiffer ==
    \A s, t \in Target : s # t /\ dirOf[s] = dirOf[t] => s \in revoked \/ t \in revoked

\* A handler works in its target's directory, and targets that share that
\* directory are revoked and idle.
HoldersApart ==
    \A r \in Holders :
        /\ pathDir[r] = dirOf[TargetFor[r]]
        /\ \A t \in Target : dirOf[t] = pathDir[r] => t = TargetFor[r] \/ t \in revoked
        /\ \A q \in Holders : pathDir[q] = pathDir[r] => TargetFor[q] = TargetFor[r]

PackageIsUntouched == \A r \in Run : pc[r] \in Executing => files[Path(r)] = r

DirInv == ActiveDirsDiffer /\ HoldersApart /\ PackageIsUntouched

LEMMA DirInvInit == Init => DirInv
BY SimpleRunAssumption
   DEF Init, DirInv, ActiveDirsDiffer, HoldersApart, Holders, PackageIsUntouched, Holding, Executing

\* Steps that move nothing, accept nothing and publish nothing.
LEMMA DirKept ==
    ASSUME IInv, DirInv, Holders' \subseteq Holders, UNCHANGED <<pathDir, dirOf, files>>,
           revoked \subseteq revoked',
           \A r \in Run : pc'[r] \in Executing => pc[r] \in Executing
    PROVE  DirInv'
<1>1. ActiveDirsDiffer' /\ HoldersApart'
  BY DEF DirInv, ActiveDirsDiffer, HoldersApart
<1>2. PackageIsUntouched'
  BY DEF DirInv, PackageIsUntouched, Path
<1> QED BY <1>1, <1>2 DEF DirInv

\* The package put in place by the handler of r.
LEMMA PublishedApart ==
    ASSUME IInv, DirInv, NEW r \in Run, pc[r] = "claimed",
           files' = [files EXCEPT ![Path(r)] = r],
           UNCHANGED <<pathDir, dirOf, revoked>>, Holders' \subseteq Holders,
           \A q \in Run : pc'[q] \in Executing => q = r \/ pc[q] \in Executing
    PROVE  DirInv'
<1>1. ActiveDirsDiffer' /\ HoldersApart'
  BY DEF DirInv, ActiveDirsDiffer, HoldersApart
<1>2. ASSUME NEW q \in Run, pc'[q] \in Executing PROVE files'[Path(q)] = q
  <2>1. Path(r) \in Dir \X Name /\ Path(q) \in Dir \X Name
    BY SimpleRunAssumption DEF IInv, TypeOK, Path
  <2>2. CASE q = r
    BY <2>1, <2>2 DEF IInv, TypeOK
  <2>3. CASE q # r
    <3>1. pc[q] \in Executing /\ rows[q].status \in InProgress /\ rows[r].status \in InProgress
      BY <1>2, <2>3 DEF IInv, RowInv, Executing, InProgress
    <3>2. TargetFor[q] # TargetFor[r]
      BY <2>3, <3>1 DEF IInv, OneRunPerTarget
    <3>3. q \in Holders /\ r \in Holders
      BY <3>1 DEF Holders, Holding
    <3>4. Path(q) # Path(r)
      BY <3>2, <3>3 DEF DirInv, HoldersApart, Path
    <3> QED BY <2>1, <3>1, <3>4 DEF IInv, TypeOK, DirInv, PackageIsUntouched
  <2> QED BY <2>2, <2>3
<1>3. PackageIsUntouched'
  BY <1>2 DEF PackageIsUntouched, Path
<1> QED BY <1>1, <1>3 DEF DirInv

LEMMA DirInvStep == IInv /\ DirInv /\ [Next]_vars /\ [MovedWhenIdle]_vars => DirInv'
<1> SUFFICES ASSUME IInv, DirInv, [Next]_vars, [MovedWhenIdle]_vars PROVE DirInv'
  OBVIOUS
<1> USE SimpleRunAssumption
<1>1. ASSUME NEW r \in Run, AcceptUpload(r) PROVE DirInv'
  <2>1. /\ pc[r] = "none" /\ pc' = [pc EXCEPT ![r] = "uploading"]
        /\ TargetFor[r] \notin revoked
        /\ pathDir' = [pathDir EXCEPT ![r] = dirOf[TargetFor[r]]]
        /\ UNCHANGED <<files, dirOf, revoked>>
    BY <1>1 DEF AcceptUpload, IInv, QueueInv, MaySend, adminVars
  <2>2. Holders' = Holders \cup {r} /\ r \notin Holders
    BY <2>1 DEF IInv, TypeOK, Holders, Holding, Executing
  <2>3. pathDir'[r] = dirOf[TargetFor[r]] /\ \A q \in Holders : pathDir'[q] = pathDir[q]
    BY <2>1, <2>2 DEF IInv, TypeOK, Holders
  <2>4. \A t \in Target : dirOf[t] = dirOf[TargetFor[r]] => t = TargetFor[r] \/ t \in revoked
    BY <2>1 DEF DirInv, ActiveDirsDiffer
  <2>5. \A q \in Holders : pathDir[q] = dirOf[TargetFor[r]] => TargetFor[q] = TargetFor[r]
    BY <2>1 DEF DirInv, HoldersApart
  <2>6. HoldersApart'
    BY <2>1, <2>2, <2>3, <2>4, <2>5 DEF DirInv, HoldersApart
  <2>7. ActiveDirsDiffer'
    BY <2>1 DEF DirInv, ActiveDirsDiffer
  <2>8. PackageIsUntouched'
    BY <2>1 DEF DirInv, IInv, TypeOK, PackageIsUntouched, Path, Executing
  <2> QED BY <2>6, <2>7, <2>8 DEF DirInv
<1>2. ASSUME NEW r \in Run, Browser(r) PROVE DirInv'
  BY <1>2, DirKept DEF Browser, SendRefused, SeeTerminal, ReplyLost, StopPolling, Holders, adminVars
<1>3. ASSUME NEW r \in Run, Handler(r) PROVE DirInv'
  <2>1. ASSUME UploadRefused(r) \/ InsertRun(r) \/ InsertUnacknowledged(r) PROVE DirInv'
    <3>1. /\ \/ pc' = [pc EXCEPT ![r] = "done"]
             \/ pc' = [pc EXCEPT ![r] = "claimed"]
          /\ pc[r] = "uploading"
          /\ UNCHANGED <<pathDir, files, dirOf, revoked>>
      BY <2>1 DEF UploadRefused, InsertRun, InsertUnacknowledged, EndHandler, MayClaim, adminVars
    <3>2. Holders' \subseteq Holders /\ \A q \in Run : pc'[q] \in Executing => pc[q] \in Executing
      BY <3>1 DEF IInv, TypeOK, Holders, Holding, Executing
    <3> QED BY <3>1, <3>2, DirKept
  <2>2. ASSUME PublishPackage(r) \/ PublishFails(r) PROVE DirInv'
    <3>1. /\ pc[r] = "claimed"
          /\ \/ pc' = [pc EXCEPT ![r] = "start"] /\ files' = [files EXCEPT ![Path(r)] = r]
             \/ /\ pc' = [pc EXCEPT ![r] = "done"]
                /\ files' = [files EXCEPT ![Path(r)] = r] \/ UNCHANGED files
          /\ UNCHANGED <<pathDir, dirOf, revoked>>
      BY <2>2 DEF PublishPackage, PublishFails, EndHandler, adminVars
    <3>2. /\ Holders' \subseteq Holders
          /\ \A q \in Run : pc'[q] \in Executing => q = r \/ pc[q] \in Executing
      BY <3>1 DEF IInv, TypeOK, Holders, Holding, Executing
    <3>3. CASE files' = [files EXCEPT ![Path(r)] = r]
      BY <3>1, <3>2, <3>3, PublishedApart
    <3>4. CASE UNCHANGED files /\ pc' = [pc EXCEPT ![r] = "done"]
      <4>1. \A q \in Run : pc'[q] \in Executing => pc[q] \in Executing
        BY <3>4 DEF IInv, TypeOK, Executing
      <4> QED BY <3>1, <3>2, <3>4, <4>1, DirKept
    <3> QED BY <3>1, <3>3, <3>4
  <2> QED BY <1>3, <2>1, <2>2 DEF Handler
<1>4. ASSUME NEW r \in Run, Executor(r) PROVE DirInv'
  <2>1. /\ \E s \in Executing \cup {"done"} : pc' = [pc EXCEPT ![r] = s]
        /\ pc[r] \in Executing
        /\ UNCHANGED <<pathDir, files, dirOf, revoked>>
    BY <1>4 DEF Executor, StartCommand, StartFails, CommandEnds, RunStages, RecordOutcome,
                EndExecutor, Executing, adminVars
  <2>2. Holders' \subseteq Holders /\ \A q \in Run : pc'[q] \in Executing => pc[q] \in Executing
    BY <2>1 DEF IInv, TypeOK, Holders, Holding, Executing
  <2> QED BY <2>1, <2>2, DirKept
<1>5. ASSUME NEW t \in Target, Admin(t) PROVE DirInv'
  <2>1. UNCHANGED <<pc, pathDir, files>> /\ Holders' = Holders
    BY <1>5 DEF Admin, RevokeCheck, RevokeWrite, MoveTarget, Holders
  <2>2. CASE RevokeCheck(t) \/ RevokeWrite(t)
    BY <2>1, <2>2, DirKept DEF RevokeCheck, RevokeWrite
  <2>3. ASSUME NEW d \in Dir, MoveTarget(t, d) PROVE DirInv'
    <3>1. /\ dirOf' = [dirOf EXCEPT ![t] = d] /\ dirOf[t] # d /\ dirOf \in [Target -> Dir]
          /\ \A s \in Target \ revoked : dirOf[s] # d
          /\ UNCHANGED revoked
      BY <2>3 DEF MoveTarget, IInv, TypeOK
    <3>2. dirOf'[t] = d /\ \A s \in Target : s # t => dirOf'[s] = dirOf[s]
      BY <3>1
    <3>3. \A r \in Holders : TargetFor[r] # t /\ pathDir[r] # d
      BY <3>1, <3>2 DEF MovedWhenIdle, vars
    <3>4. ActiveDirsDiffer'
      BY <3>1, <3>2 DEF DirInv, ActiveDirsDiffer
    <3>5. \A r \in Holders : TargetFor[r] \in Target
      BY DEF Holders
    <3>6. HoldersApart'
      BY <2>1, <3>1, <3>2, <3>3, <3>5 DEF DirInv, HoldersApart
    <3>7. PackageIsUntouched'
      BY <2>1 DEF DirInv, PackageIsUntouched, Path
    <3> QED BY <3>4, <3>6, <3>7 DEF DirInv
  <2> QED BY <1>5, <2>2, <2>3 DEF Admin
<1>6. CASE Crash
  <2>1. \A r \in Run : pc'[r] \in Holding => pc[r] \in Holding /\ pc'[r] = pc[r]
    BY <1>6 DEF Crash, Holding, Executing
  <2>2. Holders' \subseteq Holders /\ \A r \in Run : pc'[r] \in Executing => pc[r] \in Executing
    BY <2>1 DEF Holders, Holding
  <2> QED BY <1>6, <2>2, DirKept DEF Crash
<1>7. CASE Restart
  BY <1>7, DirKept DEF Restart, Holders, adminVars
<1>8. CASE UNCHANGED vars
  BY <1>8, DirKept DEF vars, Holders
<1> QED BY <1>1, <1>2, <1>3, <1>4, <1>5, <1>6, <1>7, <1>8 DEF Next

\* Where targets are moved only when idle, the package a command was handed
\* keeps its content and its name until the command and its stages are done.
THEOREM Untouched == Spec /\ [][MovedWhenIdle]_vars => []PackageIsUntouched
<1>1. DirInv => PackageIsUntouched
  BY DEF DirInv
<1> QED BY <1>1, Invariance, DirInvInit, DirInvStep, PTL DEF Spec

===============================================================================

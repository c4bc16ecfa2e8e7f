---------------------------- MODULE ArtifactStore ----------------------------
(***************************************************************************)
(* Packages of releases: files below the storage root on one side, rows of *)
(* release_artifacts on the other.  A row may be committed only when the   *)
(* file it names survives a loss of power; a COMMIT whose outcome is not   *)
(* known, a crash, a concurrent deletion or a change of the storage root   *)
(* may fall between any two steps of an upload.                            *)
(*                                                                         *)
(* Every artifact has a fresh identifier, so an upload and its artifact    *)
(* are one.  A release row is locked from LockRelease to the end of the    *)
(* upload's transaction, and the storage settings are locked with it.      *)
(***************************************************************************)
EXTENDS Naturals, FiniteSets

CONSTANTS Release, Artifact, Root, None,
          MaxCrashes   \* bound: crashes and losses of power

ASSUME StoreAssumption ==
    /\ None \notin Release \cup Root
    /\ MaxCrashes \in Nat

VARIABLES
    root,      \* app_settings.artifact_storage_path
    status,    \* releases.status; "QUEUED" stands for all that is not editable
    meta,      \* releases with metadata-only artifacts (storage_path = '')
    row,       \* uploaded artifacts: the release of each row
    up,        \* the request that stores the artifact
    tx,        \* its transaction: none, open, or COMMIT sent and unanswered
    dir,       \* <root>/<release id>: none, made, and synced into the root
    file,      \* <root>/<release id>/<artifact id>
    removing,  \* files a committed deletion still has to remove
    excused,   \* history: files known to be left behind
    crashes

rowVars == <<status, meta, row>>
diskVars == <<dir, file>>
vars == <<root, rowVars, up, tx, diskVars, removing, excused, crashes>>

Editable == {"DRAFT", "UPLOADED"}

NoRequest == [at |-> "idle", kind |-> "none", rel |-> None, root |-> None]

InTransaction == {"locked", "directory", "staging", "partial", "renamed", "synced", "inserted"}
InFlight == InTransaction \cup {"created", "verifying", "cleanup", "discard"}

TypeOK ==
    /\ root \in Root
    /\ status \in [Release -> {"none", "DRAFT", "UPLOADED", "QUEUED", "deleted"}]
    /\ meta \subseteq Release
    /\ row \in [Artifact -> Release \cup {None}]
    /\ up \in [Artifact -> [at : InFlight \cup {"idle", "done", "refused", "unknown", "crashed"},
                            kind : {"none", "upload", "multipart", "quick"},
                            rel : Release \cup {None}, root : Root \cup {None}]]
    /\ tx \in [Artifact -> {"none", "open", "sent"}]
    /\ dir \in [Root -> [Release -> {"none", "made", "synced"}]]
    /\ file \in [Artifact -> {"none", "partial", "renamed", "stored"}]
    /\ removing \subseteq Artifact
    /\ excused \subseteq Artifact
    /\ crashes \in 0..MaxCrashes

Init ==
    /\ root \in Root
    /\ status = [r \in Release |-> "none"]
    /\ meta = {}
    /\ row = [a \in Artifact |-> None]
    /\ up = [a \in Artifact |-> NoRequest]
    /\ tx = [a \in Artifact |-> "none"]
    /\ dir = [d \in Root |-> [r \in Release |-> "none"]]
    /\ file = [a \in Artifact |-> "none"]
    /\ removing = {}
    /\ excused = {}
    /\ crashes = 0

-------------------------------------------------------------------------------
(***************************************************************************)
(* Requests                                                                *)
(***************************************************************************)

Goto(a, at) == up' = [up EXCEPT ![a].at = at]

\* SELECT ... FOR UPDATE on the release waits for these.
Locked(r) == \E a \in Artifact : tx[a] # "none" /\ up[a].rel = r

IsQuick(r) == \E a \in Artifact : up[a].kind = "quick" /\ up[a].rel = r

Fresh(r) == status[r] = "none" /\ ~IsQuick(r)

Uploaded(r) == {a \in Artifact : row[a] = r}

createRelease(r) ==
    /\ Fresh(r)
    /\ status' = [status EXCEPT ![r] = "DRAFT"]
    /\ UNCHANGED <<root, meta, row, up, tx, diskVars, removing, excused, crashes>>

\* createMultipartRelease: the release is committed before its package.
insertRelease(a, r) ==
    /\ up[a].at = "idle"
    /\ Fresh(r)
    /\ status' = [status EXCEPT ![r] = "DRAFT"]
    /\ up' = [up EXCEPT ![a] = [at |-> "created", kind |-> "multipart", rel |-> r, root |-> None]]
    /\ UNCHANGED <<root, meta, row, tx, diskVars, removing, excused, crashes>>

createArtifactMetadata(r) ==
    /\ status[r] \in Editable /\ ~Locked(r)
    /\ Uploaded(r) = {}
    /\ meta' = meta \cup {r}
    /\ UNCHANGED <<root, status, row, up, tx, diskVars, removing, excused, crashes>>

\* Review, queueing and execution, and a rejection that gives the release back.
Submit(r) ==
    /\ ~Locked(r)
    /\ \/ /\ status[r] = "UPLOADED"
          /\ status' = [status EXCEPT ![r] = "QUEUED"]
       \/ /\ status[r] = "QUEUED"
          /\ status' = [status EXCEPT ![r] = "UPLOADED"]
    /\ UNCHANGED <<root, meta, row, up, tx, diskVars, removing, excused, crashes>>

\* FOR UPDATE on the settings waits for every upload's FOR SHARE.
ensureArtifactStorageChange(d) ==
    d # root => \A a \in Artifact : tx[a] = "none" /\ row[a] = None

\* updateSettings and putStorageSettings.
updateSettings(d) ==
    /\ ensureArtifactStorageChange(d)
    /\ root' = d
    /\ UNCHANGED <<rowVars, up, tx, diskVars, removing, excused, crashes>>

-------------------------------------------------------------------------------
(***************************************************************************)
(* persistArtifactTx                                                       *)
(***************************************************************************)

\* The release row is locked and the root read with a shared lock.  A quick
\* release has its row in the same transaction.
LockRelease(a, r, kind) ==
    /\ IF kind = "multipart" THEN up[a].at = "created" /\ up[a].rel = r
                             ELSE up[a].at = "idle"
    /\ IF kind = "quick" THEN Fresh(r)
                         ELSE status[r] \in Editable /\ ~Locked(r) /\ ~IsQuick(r)
    /\ up' = [up EXCEPT ![a] = [at |-> "locked", kind |-> kind, rel |-> r, root |-> root]]
    /\ tx' = [tx EXCEPT ![a] = "open"]
    /\ UNCHANGED <<root, rowVars, diskVars, removing, excused, crashes>>

\* The release of a multipart creation is gone or no longer editable.
LockRefused(a) ==
    /\ up[a].at = "created"
    /\ ~Locked(up[a].rel)
    /\ status[up[a].rel] \notin Editable
    /\ Goto(a, "discard")
    /\ UNCHANGED <<root, rowVars, tx, diskVars, removing, excused, crashes>>

DirOf(a) == dir[up[a].root][up[a].rel]

SetDir(a, d) == dir' = [dir EXCEPT ![up[a].root][up[a].rel] = d]

SetFile(a, f) == file' = [file EXCEPT ![a] = f]

MakeDirectory(a) ==
    /\ up[a].at = "locked"
    /\ IF DirOf(a) = "none" THEN SetDir(a, "made") ELSE UNCHANGED dir
    /\ Goto(a, "directory")
    /\ UNCHANGED <<root, rowVars, tx, file, removing, excused, crashes>>

\* syncDirectory(root), after a look that the directory is there.
SyncRoot(a) ==
    /\ up[a].at = "directory"
    /\ DirOf(a) # "none"
    /\ SetDir(a, "synced")
    /\ Goto(a, "staging")
    /\ UNCHANGED <<root, rowVars, tx, file, removing, excused, crashes>>

\* The content is written to a staging name and synced.
WritePartial(a) ==
    /\ up[a].at = "staging"
    /\ DirOf(a) # "none"
    /\ SetFile(a, "partial")
    /\ Goto(a, "partial")
    /\ UNCHANGED <<root, rowVars, tx, dir, removing, excused, crashes>>

Rename(a) ==
    /\ up[a].at = "partial"
    /\ SetFile(a, "renamed")
    /\ Goto(a, "renamed")
    /\ UNCHANGED <<root, rowVars, tx, dir, removing, excused, crashes>>

\* Mutant: the new name is not synced.
NoSync(a) ==
    /\ up[a].at = "renamed"
    /\ Goto(a, "synced")
    /\ UNCHANGED <<root, rowVars, tx, diskVars, removing, excused, crashes>>

syncDirectory(a) ==
    /\ up[a].at = "renamed"
    /\ SetFile(a, "stored")
    /\ Goto(a, "synced")
    /\ UNCHANGED <<root, rowVars, tx, dir, removing, excused, crashes>>

\* The DELETE, INSERT and UPDATE; what they write is seen after the COMMIT.
InsertArtifact(a) ==
    /\ up[a].at = "synced"
    /\ Goto(a, "inserted")
    /\ UNCHANGED <<root, rowVars, tx, diskVars, removing, excused, crashes>>

\* os.Remove of a directory fails while something is in it.
Emptied(a, files) ==
    IF \E b \in Artifact : files[b] # "none" /\ up[b].rel = up[a].rel /\ up[b].root = up[a].root
    THEN dir ELSE [dir EXCEPT ![up[a].root][up[a].rel] = "none"]

\* A multipart creation that failed goes on to delete its release.
Failed(a) == Goto(a, IF up[a].kind = "multipart" THEN "discard" ELSE "refused")

\* Mutant: only the staging name is removed.
RefuseKeepingTarget(a) ==
    /\ up[a].at \in InTransaction
    /\ file' = IF file[a] = "partial" THEN [file EXCEPT ![a] = "none"] ELSE file
    /\ UNCHANGED dir
    /\ tx' = [tx EXCEPT ![a] = "none"]
    /\ Failed(a)
    /\ UNCHANGED <<root, rowVars, removing, excused, crashes>>

\* Any step fails, for a quick release also what follows the upload: the file
\* and an empty directory are removed, then the transaction is rolled back.
\* The clean-up is deferred only once the directory is synced.
Refuse(a) ==
    /\ up[a].at \in InTransaction
    /\ up[a].at = "inserted" => up[a].kind = "quick"
    /\ SetFile(a, "none")
    /\ dir' = IF up[a].at \in {"locked", "directory"} THEN dir ELSE Emptied(a, file')
    /\ tx' = [tx EXCEPT ![a] = "none"]
    /\ Failed(a)
    /\ UNCHANGED <<root, rowVars, removing, excused, crashes>>

-------------------------------------------------------------------------------
(***************************************************************************)
(* persistArtifact and quickRelease: the COMMIT                            *)
(***************************************************************************)

Committed(a) ==
    /\ row' = [row EXCEPT ![a] = up[a].rel]
    /\ status' = [status EXCEPT ![up[a].rel] = IF up[a].kind = "quick" THEN "QUEUED" ELSE "UPLOADED"]
    /\ meta' = meta \ {up[a].rel}

CommitSucceeds(a) ==
    /\ up[a].at = "inserted"
    /\ Committed(a)
    /\ tx' = [tx EXCEPT ![a] = "none"]
    /\ Goto(a, "done")
    /\ UNCHANGED <<root, diskVars, removing, excused, crashes>>

\* commitDefinitelyRolledBack: PostgreSQL said so.
CommitRolledBack(a) ==
    /\ up[a].at = "inserted"
    /\ tx' = [tx EXCEPT ![a] = "none"]
    /\ Goto(a, "cleanup")
    /\ UNCHANGED <<root, rowVars, diskVars, removing, excused, crashes>>

CommitLost(a) ==
    /\ up[a].at = "inserted"
    /\ tx' = [tx EXCEPT ![a] = "sent"]
    /\ Goto(a, "verifying")
    /\ UNCHANGED <<root, rowVars, diskVars, removing, excused, crashes>>

\* PostgreSQL ends the transaction whether or not somebody waits for it.
Decide(a, committed) ==
    /\ tx[a] = "sent"
    /\ tx' = [tx EXCEPT ![a] = "none"]
    /\ IF committed THEN Committed(a) ELSE UNCHANGED rowVars
    /\ UNCHANGED <<root, up, diskVars, removing, excused, crashes>>

\* artifactCommitVisible finds the row.
CommitVisible(a) ==
    /\ up[a].at = "verifying"
    /\ row[a] # None
    /\ Goto(a, "done")
    /\ UNCHANGED <<root, rowVars, tx, diskVars, removing, excused, crashes>>

\* The outcome stays unknown: the file is preserved.
CommitUnknown(a) ==
    /\ up[a].at = "verifying"
    /\ row[a] = None
    /\ Goto(a, IF up[a].kind = "multipart" THEN "discard" ELSE "unknown")
    /\ excused' = excused \cup {a}
    /\ UNCHANGED <<root, rowVars, tx, diskVars, removing, crashes>>

\* persistedArtifactResult.cleanup, without the lock on the release.
Cleanup(a) ==
    /\ up[a].at = "cleanup"
    /\ SetFile(a, "none")
    /\ dir' = Emptied(a, file')
    /\ Failed(a)
    /\ UNCHANGED <<root, rowVars, tx, removing, excused, crashes>>

DeleteRows(r) ==
    /\ status' = [status EXCEPT ![r] = "deleted"]
    /\ row' = [a \in Artifact |-> IF row[a] = r THEN None ELSE row[a]]
    /\ meta' = meta \ {r}

\* createMultipartRelease deletes its release, in whatever state it is and
\* with every artifact it has got meanwhile; or fails to.
Discard(a, deleted) ==
    LET r == up[a].rel IN
    /\ up[a].at = "discard"
    /\ IF deleted
         THEN /\ ~Locked(r)
              /\ DeleteRows(r)
              /\ excused' = excused \cup Uploaded(r)
         ELSE UNCHANGED <<rowVars, excused>>
    /\ Goto(a, "refused")
    /\ UNCHANGED <<root, tx, diskVars, removing, crashes>>

-------------------------------------------------------------------------------
(***************************************************************************)
(* Deletion and faults                                                     *)
(***************************************************************************)

\* The rows go with the COMMIT; without its acknowledgement no file is removed.
deleteRelease(r, acknowledged) ==
    /\ status[r] \in Editable /\ ~Locked(r)
    /\ DeleteRows(r)
    /\ IF acknowledged THEN /\ removing' = removing \cup Uploaded(r)
                            /\ UNCHANGED excused
                       ELSE /\ excused' = excused \cup Uploaded(r)
                            /\ UNCHANGED removing
    /\ UNCHANGED <<root, up, tx, diskVars, crashes>>

\* Under the root the deletion read, which is where the file was stored.
removeStoredArtifact(a) ==
    /\ a \in removing
    /\ removing' = removing \ {a}
    /\ SetFile(a, "none")
    /\ UNCHANGED <<root, rowVars, up, tx, dir, excused, crashes>>

\* What a loss of power may leave of a file and of a directory.
Remains(f) ==
    CASE f = "none"    -> {"none"}
      [] f = "partial" -> {"none", "partial"}
      [] f = "renamed" -> {"none", "partial", "stored"}
      [] f = "stored"  -> {"stored"}

\* The server dies: its requests are gone, and with them the transactions
\* whose COMMIT had not been sent.
Crash(power) ==
    /\ crashes < MaxCrashes /\ crashes' = crashes + 1
    /\ up' = [a \in Artifact |-> IF up[a].at \in InFlight
                                 THEN [up[a] EXCEPT !.at = "crashed"] ELSE up[a]]
    /\ tx' = [a \in Artifact |-> IF tx[a] = "open" THEN "none" ELSE tx[a]]
    /\ excused' = excused \cup removing \cup {a \in Artifact : up[a].at \in InFlight}
    /\ removing' = {}
    /\ IF power
         THEN /\ dir' \in [Root -> [Release -> {"none", "synced"}]]
              /\ \A d \in Root, r \in Release : dir[d][r] # "made" => dir'[d][r] = dir[d][r]
              /\ file' \in [Artifact -> {"none", "partial", "stored"}]
              /\ \A a \in Artifact :
                    file'[a] \in IF file[a] # "none" /\ dir'[up[a].root][up[a].rel] = "none"
                                 THEN {"none"} ELSE Remains(file[a])
         ELSE UNCHANGED diskVars
    /\ UNCHANGED <<root, rowVars>>

-------------------------------------------------------------------------------

Storing(a) ==
    \/ \E r \in Release, kind \in {"upload", "multipart", "quick"} : LockRelease(a, r, kind)
    \/ LockRefused(a)
    \/ MakeDirectory(a) \/ SyncRoot(a) \/ WritePartial(a) \/ Rename(a) \/ syncDirectory(a)
    \/ InsertArtifact(a)
    \/ Refuse(a)

Committing(a) ==
    \/ CommitSucceeds(a) \/ CommitRolledBack(a) \/ CommitLost(a)
    \/ \E b \in BOOLEAN : Decide(a, b) \/ Discard(a, b)
    \/ CommitVisible(a) \/ CommitUnknown(a) \/ Cleanup(a)

Next ==
    \/ \E a \in Artifact :
          \/ \E r \in Release : insertRelease(a, r)
          \/ Storing(a) \/ Committing(a)
          \/ removeStoredArtifact(a)
    \/ \E r \in Release :
          \/ createRelease(r) \/ createArtifactMetadata(r) \/ Submit(r)
          \/ \E b \in BOOLEAN : deleteRelease(r, b)
    \/ \E d \in Root : updateSettings(d)
    \/ \E power \in BOOLEAN : Crash(power)

Spec == Init /\ [][Next]_vars

-------------------------------------------------------------------------------
(***************************************************************************)
(* Properties                                                              *)
(***************************************************************************)

\* Every committed artifact row names a whole file below the root that is
\* configured now, through crashes, losses of power, lost COMMIT answers and
\* concurrent uploads, deletions and root changes; and a release has no
\* metadata-only artifact beside its content (persistArtifactTx,
\* ensureArtifactStorageChange: "a relative artifact can never be recorded
\* against a different root than the one it was written under").
RowsHaveTheirContent ==
    \A a \in Artifact : row[a] # None =>
        /\ file[a] = "stored"
        /\ up[a].root = root
        /\ dir[root][row[a]] = "synced"
        /\ row[a] \notin meta

\* A file without a row is one a request is still working on, or one left by
\* a crash, by a COMMIT with unknown outcome, or by the deletion of a multipart
\* release: no refused upload and no acknowledged deletion leaves its file.
NothingIsLeftBehind ==
    \A a \in Artifact : file[a] # "none" /\ row[a] = None =>
        up[a].at \in InFlight \/ a \in removing \cup excused

===============================================================================

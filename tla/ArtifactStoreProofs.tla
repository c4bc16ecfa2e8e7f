-------------------------- MODULE ArtifactStoreProofs --------------------------
(***************************************************************************)
(* The invariants of ArtifactStore, for any number of releases, uploads,   *)
(* storage roots and crashes.                                              *)
(***************************************************************************)
EXTENDS ArtifactStore, TLAPS

-------------------------------------------------------------------------------
(***************************************************************************)
(* The inductive invariant                                                 *)
(***************************************************************************)

\* Before the content is written, with a name for it, and after the COMMIT was
\* sent or the upload given up.
Unwritten == {"idle", "created", "locked", "directory", "staging"}
Named == {"partial", "renamed", "synced", "inserted"}
Past == {"verifying", "done", "unknown", "discard", "refused", "crashed"}

\* A request holds its release from the lock to the end of its transaction,
\* and its row and its removal come after that.
RequestInv ==
    \A a \in Artifact :
        /\ up[a].at = "idle" => up[a].kind = "none" /\ up[a].rel = None
        /\ up[a].at # "idle" => up[a].rel \in Release
        /\ up[a].at = "cleanup" => up[a].root \in Root
        /\ tx[a] = "open" <=> up[a].at \in InTransaction
        /\ tx[a] = "sent" => up[a].at \in Past
        /\ tx[a] # "none" => up[a].root = root
        /\ row[a] # None => /\ row[a] = up[a].rel /\ up[a].root = root
                            /\ tx[a] = "none" /\ up[a].at \in Past
        /\ a \in removing => row[a] = None /\ tx[a] = "none" /\ up[a].at \in Past

\* One transaction per release, and a quick release has one upload ever.
LockInv ==
    /\ \A a, b \in Artifact : tx[a] # "none" /\ tx[b] # "none" /\ up[a].rel = up[b].rel => a = b
    /\ \A a, b \in Artifact : up[a].kind = "quick" /\ up[a].rel = up[b].rel => a = b
    /\ \A a \in Artifact : up[a].at # "idle" /\ up[a].kind # "quick" => status[up[a].rel] # "none"

\* What is on disk under the name of an upload.
FileInv ==
    \A a \in Artifact :
        /\ up[a].at \in Unwritten => file[a] = "none"
        /\ up[a].at = "partial" => file[a] = "partial"
        /\ up[a].at = "renamed" => file[a] = "renamed"
        /\ up[a].at \in {"synced", "inserted"} \/ tx[a] = "sent" \/ row[a] # None
              => file[a] = "stored"
        /\ up[a].at \in {"discard", "refused", "unknown", "crashed"} /\ file[a] # "none"
              => a \in excused

\* The directory below a file is not removed, and not made anew unsynced.
DirInv ==
    \A a \in Artifact :
        /\ up[a].at = "staging" => DirOf(a) \in {"none", "synced"}
        /\ up[a].at \in Named \/ tx[a] = "sent" \/ row[a] # None => DirOf(a) = "synced"

MetaInv == \A a \in Artifact : row[a] # None => row[a] \notin meta

AInv ==
    /\ TypeOK
    /\ RequestInv /\ LockInv
    /\ FileInv /\ DirInv /\ MetaInv
    /\ NothingIsLeftBehind

-------------------------------------------------------------------------------
(***************************************************************************)
(* What the updates do                                                     *)
(***************************************************************************)

At == InFlight \cup {"idle", "done", "refused", "unknown", "crashed"}

Request == [at : At, kind : {"none", "upload", "multipart", "quick"},
            rel : Release \cup {None}, root : Root \cup {None}]

\* A request goes to another state and keeps the rest.
LEMMA Moved ==
    ASSUME TypeOK, NEW a \in Artifact, NEW s \in At, Goto(a, s)
    PROVE  /\ up' \in [Artifact -> Request]
           /\ \A b \in Artifact : /\ b # a => up'[b] = up[b]
                                  /\ up'[b].rel = up[b].rel /\ up'[b].root = up[b].root
                                  /\ up'[b].kind = up[b].kind
           /\ up'[a].at = s
<1>1. up \in [Artifact -> Request] /\ up[a] \in Request
  BY DEF TypeOK, Request, At
<1>2. up'[a] = [up[a] EXCEPT !.at = s] /\ \A b \in Artifact : b # a => up'[b] = up[b]
  BY <1>1 DEF Goto
<1>3. /\ up'[a] \in Request /\ up'[a].at = s /\ up'[a].rel = up[a].rel
      /\ up'[a].root = up[a].root /\ up'[a].kind = up[a].kind
  BY <1>1, <1>2 DEF Request
<1>4. up' \in [Artifact -> Request]
  BY <1>1, <1>3 DEF Goto
<1> QED BY <1>2, <1>3, <1>4

DirType == [Root -> [Release -> {"none", "made", "synced"}]]

LEMMA DirectorySet ==
    ASSUME TypeOK, NEW a \in Artifact, up[a].rel \in Release, up[a].root \in Root,
           NEW d \in {"none", "made", "synced"}, SetDir(a, d)
    PROVE  /\ dir' \in DirType
           /\ dir'[up[a].root][up[a].rel] = d
           /\ \A x \in Root, r \in Release :
                 x # up[a].root \/ r # up[a].rel => dir'[x][r] = dir[x][r]
<1>1. dir \in DirType /\ dir[up[a].root] \in [Release -> {"none", "made", "synced"}]
  BY DEF TypeOK, DirType
<1>2. dir' = [dir EXCEPT ![up[a].root] = [@ EXCEPT ![up[a].rel] = d]]
  BY DEF SetDir
<1> QED BY <1>1, <1>2 DEF DirType

\* os.Remove of a directory: only an empty one goes.
LEMMA DirectoryEmptied ==
    ASSUME TypeOK, NEW a \in Artifact, up[a].rel \in Release, up[a].root \in Root,
           NEW files, dir' = Emptied(a, files)
    PROVE  /\ dir' \in DirType
           /\ \A x \in Root, r \in Release : dir'[x][r] \in {dir[x][r], "none"}
           /\ \A b \in Artifact : up[b].rel \in Release /\ up[b].root \in Root /\ files[b] # "none"
                 => dir'[up[b].root][up[b].rel] = dir[up[b].root][up[b].rel]
<1>1. dir \in DirType
  BY DEF TypeOK, DirType
<1>2. CASE UNCHANGED dir
  BY <1>1, <1>2
<1>3. CASE /\ SetDir(a, "none")
           /\ ~ \E b \in Artifact : files[b] # "none" /\ up[b].rel = up[a].rel /\ up[b].root = up[a].root
  BY <1>3, DirectorySet
<1> QED BY <1>2, <1>3 DEF Emptied, SetDir

LEMMA TypeAgain ==
    ASSUME TypeOK, root' \in Root,
           status' \in [Release -> {"none", "DRAFT", "UPLOADED", "QUEUED", "deleted"}],
           meta' \subseteq Release, row' \in [Artifact -> Release \cup {None}],
           up' \in [Artifact -> Request], tx' \in [Artifact -> {"none", "open", "sent"}],
           dir' \in DirType, file' \in [Artifact -> {"none", "partial", "renamed", "stored"}],
           removing' \subseteq Artifact, excused' \subseteq Artifact, crashes' \in 0..MaxCrashes
    PROVE  TypeOK'
BY DEF TypeOK, Request, At, DirType

LEMMA Types ==
    ASSUME TypeOK
    PROVE  up \in [Artifact -> Request] /\ dir \in DirType
BY DEF TypeOK, Request, At, DirType

-------------------------------------------------------------------------------
(***************************************************************************)
(* Releases and settings                                                   *)
(***************************************************************************)

\* Neither creation, metadata nor review touch an upload.
LEMMA ReleasePreserves ==
    ASSUME AInv, NEW r \in Release,
           createRelease(r) \/ createArtifactMetadata(r) \/ Submit(r)
    PROVE  AInv'
<1> USE StoreAssumption DEF AInv
<1>1. /\ UNCHANGED <<root, row, up, tx, diskVars, removing, excused, crashes>>
      /\ status' \in [Release -> {"none", "DRAFT", "UPLOADED", "QUEUED", "deleted"}]
      /\ \A q \in Release : status'[q] = "none" => status[q] = "none"
      /\ meta' = meta \/ (meta' = meta \cup {r} /\ \A a \in Artifact : row[a] # r)
  BY DEF createRelease, createArtifactMetadata, Submit, Uploaded, TypeOK
<1>2. TypeOK'
  BY <1>1 DEF TypeOK, diskVars
<1>3. RequestInv'
  BY <1>1 DEF RequestInv
<1>4. LockInv'
  BY <1>1 DEF LockInv, RequestInv
<1>5. FileInv' /\ DirInv'
  BY <1>1 DEF FileInv, DirInv, DirOf, diskVars
<1>6. MetaInv'
  BY <1>1 DEF MetaInv
<1>7. NothingIsLeftBehind'
  BY <1>1 DEF NothingIsLeftBehind, diskVars
<1> QED BY <1>2, <1>3, <1>4, <1>5, <1>6, <1>7

\* The root changes only while nothing depends on it.
LEMMA SettingsPreserve ==
    ASSUME AInv, NEW d \in Root, updateSettings(d)
    PROVE  AInv'
<1> USE StoreAssumption DEF AInv
<1>1. /\ UNCHANGED <<rowVars, up, tx, diskVars, removing, excused, crashes>>
      /\ root' \in Root
      /\ root' # root => \A a \in Artifact : tx[a] = "none" /\ row[a] = None
  BY DEF updateSettings, ensureArtifactStorageChange
<1>2. TypeOK'
  BY <1>1 DEF TypeOK, diskVars, rowVars
<1>3. RequestInv'
  BY <1>1 DEF RequestInv, rowVars
<1>4. LockInv'
  BY <1>1 DEF LockInv, rowVars
<1>5. FileInv' /\ DirInv'
  BY <1>1 DEF FileInv, DirInv, DirOf, diskVars, rowVars
<1>6. MetaInv' /\ NothingIsLeftBehind'
  BY <1>1 DEF MetaInv, NothingIsLeftBehind, diskVars, rowVars
<1> QED BY <1>2, <1>3, <1>4, <1>5, <1>6

\* No request has named a release that is not there yet.
LEMMA FreshIsUnused ==
    ASSUME AInv, NEW r \in Release, Fresh(r), NEW a \in Artifact
    PROVE  up[a].rel # r
BY StoreAssumption DEF AInv, Fresh, IsQuick, LockInv, RequestInv

LEMMA InsertReleasePreserves ==
    ASSUME AInv, NEW a \in Artifact, NEW r \in Release, insertRelease(a, r)
    PROVE  AInv'
<1> USE StoreAssumption DEF AInv
<1> DEFINE v == [at |-> "created", kind |-> "multipart", rel |-> r, root |-> None]
<1>1. /\ UNCHANGED <<root, meta, row, tx, diskVars, removing, excused, crashes>>
      /\ up[a].at = "idle" /\ status' = [status EXCEPT ![r] = "DRAFT"]
      /\ up' = [up EXCEPT ![a] = v]
      /\ \A b \in Artifact : up[b].rel # r
  BY FreshIsUnused DEF insertRelease
<1>2. v \in Request /\ v.at = "created" /\ v.kind = "multipart" /\ v.rel = r
  BY DEF Request, At, InFlight
<1> HIDE DEF v
<1>3. up' \in [Artifact -> Request] /\ up'[a] = v /\ \A b \in Artifact : b # a => up'[b] = up[b]
  BY <1>1, <1>2, Types
<1>4. /\ status' \in [Release -> {"none", "DRAFT", "UPLOADED", "QUEUED", "deleted"}]
      /\ status'[r] # "none" /\ \A q \in Release : status'[q] = "none" => status[q] = "none"
  BY <1>1 DEF TypeOK
<1>5. tx[a] = "none" /\ row[a] = None /\ a \notin removing /\ file[a] = "none"
  BY <1>1 DEF RequestInv, FileInv, InTransaction, Past, Unwritten, TypeOK
<1>6. TypeOK'
  BY <1>1, <1>3, <1>4, Types, TypeAgain DEF TypeOK, diskVars
<1>7. RequestInv'
  BY <1>1, <1>2, <1>3, <1>5 DEF RequestInv, InTransaction, Past
<1>8. LockInv'
  BY <1>1, <1>2, <1>3, <1>4, <1>5 DEF LockInv, RequestInv
<1>9. FileInv'
  BY <1>1, <1>2, <1>3, <1>5 DEF FileInv, Unwritten, diskVars
<1>10. DirInv'
  BY <1>1, <1>2, <1>3, <1>5 DEF DirInv, DirOf, Named, diskVars
<1>11. MetaInv' /\ NothingIsLeftBehind'
  BY <1>1, <1>2, <1>3, <1>5 DEF MetaInv, NothingIsLeftBehind, diskVars
<1> QED BY <1>6, <1>7, <1>8, <1>9, <1>10, <1>11

-------------------------------------------------------------------------------
(***************************************************************************)
(* persistArtifactTx                                                       *)
(***************************************************************************)

LEMMA LockReleasePreserves ==
    ASSUME AInv, NEW a \in Artifact, NEW r \in Release,
           NEW kind \in {"upload", "multipart", "quick"}, LockRelease(a, r, kind)
    PROVE  AInv'
<1> USE StoreAssumption DEF AInv
<1> DEFINE v == [at |-> "locked", kind |-> kind, rel |-> r, root |-> root]
<1>1. /\ UNCHANGED <<root, rowVars, diskVars, removing, excused, crashes>>
      /\ up[a].at \in {"idle", "created"} /\ (up[a].at = "created" => up[a].rel = r)
      /\ up' = [up EXCEPT ![a] = v] /\ tx' = [tx EXCEPT ![a] = "open"]
  BY DEF LockRelease
<1>2. v \in Request /\ v.at = "locked" /\ v.kind = kind /\ v.rel = r /\ v.root = root
  BY DEF Request, At, InFlight, InTransaction, TypeOK
<1> HIDE DEF v
<1>3. up' \in [Artifact -> Request] /\ up'[a] = v /\ \A b \in Artifact : b # a => up'[b] = up[b]
  BY <1>1, <1>2, Types
<1>4. tx' \in [Artifact -> {"none", "open", "sent"}] /\ tx'[a] = "open"
      /\ \A b \in Artifact : b # a => tx'[b] = tx[b]
  BY <1>1 DEF TypeOK
<1>5. tx[a] = "none" /\ row[a] = None /\ a \notin removing /\ file[a] = "none"
  BY <1>1 DEF RequestInv, FileInv, InTransaction, Past, Unwritten, TypeOK
<1>6. TypeOK'
  BY <1>1, <1>3, <1>4, Types, TypeAgain DEF TypeOK, diskVars, rowVars
<1>7. RequestInv'
  <2>1. \A b \in Artifact : b # a =>
          /\ up'[b] = up[b] /\ tx'[b] = tx[b] /\ row'[b] = row[b] /\ root' = root
          /\ b \in removing' <=> b \in removing
    BY <1>1, <1>3, <1>4 DEF rowVars
  <2>2. row'[a] = None /\ a \notin removing' /\ "locked" \in InTransaction /\ root' = root
    BY <1>1, <1>5 DEF rowVars, InTransaction
  <2> QED BY <1>2, <1>3, <1>4, <2>1, <2>2 DEF RequestInv
<1>8. LockInv'
  <2>1. CASE kind = "quick"
    <3>1. \A b \in Artifact : up[b].rel # r
      BY <2>1, FreshIsUnused DEF LockRelease
    <3> QED BY <1>1, <1>2, <1>3, <1>4, <2>1, <3>1 DEF LockInv, rowVars
  <2>2. CASE kind # "quick"
    <3>1. /\ \A b \in Artifact : up[b].rel = r => tx[b] = "none" /\ up[b].kind # "quick"
          /\ status[r] # "none"
      BY <2>2 DEF LockRelease, Locked, IsQuick, Editable
    <3> QED BY <1>1, <1>2, <1>3, <1>4, <2>2, <3>1 DEF LockInv, rowVars
  <2> QED BY <2>1, <2>2
<1>9. FileInv'
  BY <1>1, <1>2, <1>3, <1>4, <1>5 DEF FileInv, Unwritten, diskVars, rowVars
<1>10. DirInv'
  BY <1>1, <1>2, <1>3, <1>4, <1>5 DEF DirInv, DirOf, Named, diskVars, rowVars
<1>11. MetaInv' /\ NothingIsLeftBehind'
  BY <1>1, <1>2, <1>3, <1>5 DEF MetaInv, NothingIsLeftBehind, diskVars, rowVars
<1> QED BY <1>6, <1>7, <1>8, <1>9, <1>10, <1>11

\* No step but LockRelease takes a lock, and none but it names a release anew.
LEMMA LocksKept ==
    ASSUME AInv,
           \A b \in Artifact : /\ up'[b].rel = up[b].rel /\ up'[b].kind = up[b].kind
                               /\ up'[b].at # "idle" => up[b].at # "idle"
                               /\ tx'[b] # "none" => tx[b] # "none",
           \A r \in Release : status'[r] = "none" => status[r] = "none"
    PROVE  LockInv'
<1>1. \A b \in Artifact : up[b].at # "idle" => up[b].rel \in Release
  BY DEF AInv, RequestInv
<1> QED BY <1>1 DEF AInv, LockInv

\* The release of a transaction, and the root it read.
LEMMA TransactionPlace ==
    ASSUME AInv, NEW a \in Artifact,
           up[a].at \in InTransaction \cup {"cleanup"} \/ tx[a] = "sent" \/ row[a] # None
    PROVE  up[a].rel \in Release /\ up[a].root \in Root
<1>1. up[a].at # "idle"
  BY DEF AInv, RequestInv, InTransaction, Past
<1>2. up[a].rel \in Release
  BY <1>1 DEF AInv, RequestInv
<1>3. up[a].root \in Root
  <2>1. root \in Root
    BY DEF AInv, TypeOK
  <2>2. CASE up[a].at = "cleanup"
    BY <2>2 DEF AInv, RequestInv
  <2>3. CASE tx[a] \in {"open", "sent"}
    BY <2>1, <2>3 DEF AInv, RequestInv
  <2>4. CASE row[a] # None
    BY <2>1, <2>4 DEF AInv, RequestInv
  <2> QED BY <2>2, <2>3, <2>4 DEF AInv, RequestInv
<1> QED BY <1>2, <1>3

LEMMA LockRefusedPreserves ==
    ASSUME AInv, NEW a \in Artifact, LockRefused(a)
    PROVE  AInv'
<1> USE StoreAssumption DEF AInv
<1>1. /\ UNCHANGED <<root, rowVars, tx, diskVars, removing, excused, crashes>>
      /\ up[a].at = "created" /\ Goto(a, "discard")
  BY DEF LockRefused
<1>2. /\ up' \in [Artifact -> Request]
      /\ \A b \in Artifact : /\ b # a => up'[b] = up[b]
                             /\ up'[b].rel = up[b].rel /\ up'[b].root = up[b].root
                             /\ up'[b].kind = up[b].kind
      /\ up'[a].at = "discard"
  BY <1>1, Moved DEF At, InFlight
<1>3. tx[a] = "none" /\ row[a] = None /\ a \notin removing /\ file[a] = "none"
  BY <1>1 DEF RequestInv, FileInv, InTransaction, Past, Unwritten, TypeOK
<1>4. TypeOK'
  BY <1>1, <1>2, Types, TypeAgain DEF TypeOK, diskVars, rowVars
<1>5. RequestInv'
  BY <1>1, <1>2, <1>3 DEF RequestInv, InTransaction, rowVars
<1>6. LockInv'
  BY <1>1, <1>2, LocksKept DEF rowVars
<1>7. FileInv'
  BY <1>1, <1>2, <1>3 DEF FileInv, Unwritten, diskVars, rowVars
<1>8. DirInv'
  BY <1>1, <1>2, <1>3 DEF DirInv, DirOf, Named, diskVars, rowVars
<1>9. MetaInv' /\ NothingIsLeftBehind'
  BY <1>1, <1>2, <1>3 DEF MetaInv, NothingIsLeftBehind, diskVars, rowVars
<1> QED BY <1>4, <1>5, <1>6, <1>7, <1>8, <1>9

LEMMA DirectoryPreserves ==
    ASSUME AInv, NEW a \in Artifact, MakeDirectory(a) \/ SyncRoot(a)
    PROVE  AInv'
<1> USE StoreAssumption DEF AInv
<1>1. /\ UNCHANGED <<root, rowVars, tx, file, removing, excused, crashes>>
      /\ \/ /\ up[a].at = "locked" /\ Goto(a, "directory")
            /\ UNCHANGED dir \/ (DirOf(a) = "none" /\ SetDir(a, "made"))
         \/ up[a].at = "directory" /\ Goto(a, "staging") /\ SetDir(a, "synced")
  BY DEF MakeDirectory, SyncRoot
<1>2. up[a].at \in InTransaction
  BY <1>1 DEF InTransaction
<1>3. /\ up' \in [Artifact -> Request]
      /\ \A b \in Artifact : /\ b # a => up'[b] = up[b]
                             /\ up'[b].rel = up[b].rel /\ up'[b].root = up[b].root
                             /\ up'[b].kind = up[b].kind
      /\ \/ up[a].at = "locked" /\ up'[a].at = "directory"
         \/ up[a].at = "directory" /\ up'[a].at = "staging"
  BY <1>1, Moved DEF At, InFlight, InTransaction
<1>4. tx[a] = "open" /\ row[a] = None /\ a \notin removing /\ file[a] = "none"
  BY <1>1, <1>2 DEF RequestInv, FileInv, Unwritten, TypeOK
<1>5. up[a].rel \in Release /\ up[a].root \in Root
  BY <1>2, TransactionPlace
<1>6. /\ dir' \in DirType
      /\ \A x \in Root, r \in Release : \/ dir'[x][r] = dir[x][r]
                                        \/ dir'[x][r] = "synced"
                                        \/ x = up[a].root /\ r = up[a].rel /\ dir[x][r] = "none"
      /\ up[a].at = "directory" => dir'[up[a].root][up[a].rel] = "synced"
  BY <1>1, <1>5, Types, DirectorySet DEF DirOf
<1>7. TypeOK'
  BY <1>1, <1>3, <1>6, TypeAgain DEF TypeOK, rowVars
<1>8. RequestInv'
  BY <1>1, <1>2, <1>3, <1>4 DEF RequestInv, InTransaction, rowVars
<1>9. LockInv'
  BY <1>1, <1>3, LocksKept DEF rowVars
<1>10. FileInv'
  BY <1>1, <1>3, <1>4 DEF FileInv, Unwritten, rowVars
<1>11. DirInv'
  <2> SUFFICES ASSUME NEW b \in Artifact
               PROVE  /\ up'[b].at = "staging" => DirOf(b)' \in {"none", "synced"}
                      /\ up'[b].at \in Named \/ tx'[b] = "sent" \/ row'[b] # None
                            => DirOf(b)' = "synced"
    BY DEF DirInv
  <2>1. CASE b = a
    BY <1>1, <1>3, <1>4, <1>6, <2>1 DEF DirOf, Named, rowVars
  <2>2. CASE b # a
    <3>1. up'[b] = up[b] /\ tx'[b] = tx[b] /\ row'[b] = row[b]
      BY <1>1, <1>3, <2>2 DEF rowVars
    <3>2. CASE up[b].at = "staging"
      <4>1. tx[b] = "open" /\ up[b].at \in InTransaction
        BY <3>2 DEF RequestInv, InTransaction
      <4>2. up[b].rel # up[a].rel
        BY <1>4, <2>2, <4>1 DEF LockInv
      <4>3. up[b].rel \in Release /\ up[b].root \in Root
        BY <4>1, TransactionPlace
      <4>4. row[b] = None /\ DirOf(b) \in {"none", "synced"}
        BY <3>2, <4>1 DEF RequestInv, DirInv
      <4> QED BY <1>6, <3>1, <3>2, <4>1, <4>2, <4>3, <4>4 DEF DirOf, Named
    <3>3. CASE up[b].at \in Named \/ tx[b] = "sent" \/ row[b] # None
      <4>1. up[b].rel \in Release /\ up[b].root \in Root
        BY <3>3, TransactionPlace DEF Named, InTransaction
      <4>2. DirOf(b) = "synced" /\ up[b].at # "staging"
        BY <3>3 DEF DirInv, RequestInv, Named, Past
      <4> QED BY <1>6, <3>1, <4>1, <4>2 DEF DirOf
    <3> QED BY <3>1, <3>2, <3>3
  <2> QED BY <2>1, <2>2
<1>12. MetaInv' /\ NothingIsLeftBehind'
  BY <1>1, <1>3, <1>4 DEF MetaInv, NothingIsLeftBehind, rowVars
<1> QED BY <1>7, <1>8, <1>9, <1>10, <1>11, <1>12

LEMMA WritePreserves ==
    ASSUME AInv, NEW a \in Artifact, WritePartial(a) \/ Rename(a) \/ syncDirectory(a)
    PROVE  AInv'
<1> USE StoreAssumption DEF AInv
<1>1. /\ UNCHANGED <<root, rowVars, tx, dir, removing, excused, crashes>>
      /\ \/ up[a].at = "staging" /\ DirOf(a) # "none" /\ SetFile(a, "partial") /\ Goto(a, "partial")
         \/ up[a].at = "partial" /\ SetFile(a, "renamed") /\ Goto(a, "renamed")
         \/ up[a].at = "renamed" /\ SetFile(a, "stored") /\ Goto(a, "synced")
  BY DEF WritePartial, Rename, syncDirectory
<1>2. up[a].at \in InTransaction
  BY <1>1 DEF InTransaction
<1>3. /\ up' \in [Artifact -> Request]
      /\ \A b \in Artifact : /\ b # a => up'[b] = up[b]
                             /\ up'[b].rel = up[b].rel /\ up'[b].root = up[b].root
                             /\ up'[b].kind = up[b].kind
  BY <1>1, Moved DEF At, InFlight, InTransaction
<1>4. /\ file' \in [Artifact -> {"none", "partial", "renamed", "stored"}]
      /\ \A b \in Artifact : b # a => file'[b] = file[b]
  BY <1>1 DEF TypeOK, SetFile
<1>5. \/ up'[a].at = "partial" /\ file'[a] = "partial"
      \/ up'[a].at = "renamed" /\ file'[a] = "renamed"
      \/ up'[a].at = "synced" /\ file'[a] = "stored"
  BY <1>1, Moved DEF At, InFlight, InTransaction, TypeOK, SetFile
<1>6. tx[a] = "open" /\ row[a] = None /\ a \notin removing /\ DirOf(a) = "synced"
  BY <1>1, <1>2 DEF RequestInv, DirInv, Named, TypeOK
<1>7. TypeOK'
  BY <1>1, <1>3, <1>4, Types, TypeAgain DEF TypeOK, rowVars
<1>8. RequestInv'
  <2>1. up'[a].at \in InTransaction
    BY <1>5 DEF InTransaction
  <2>2. row'[a] = None /\ tx'[a] = "open" /\ a \notin removing' /\ up'[a].at \notin {"idle", "cleanup"}
    BY <1>1, <1>5, <1>6 DEF rowVars
  <2> QED BY <1>1, <1>2, <1>3, <2>1, <2>2 DEF RequestInv, rowVars
<1>9. LockInv'
  <2>1. up[a].at # "idle"
    BY <1>1
  <2> QED BY <1>1, <1>3, <2>1, LocksKept DEF rowVars
<1>10. FileInv'
  <2>1. up'[a].at \notin Unwritten \cup {"discard", "refused", "unknown", "crashed", "inserted"}
    BY <1>5 DEF Unwritten
  <2> QED BY <1>1, <1>3, <1>4, <1>5, <1>6, <2>1 DEF FileInv, rowVars
<1>11. DirInv'
  <2>1. DirOf(a)' = "synced" /\ \A b \in Artifact : DirOf(b)' = DirOf(b)
    BY <1>1, <1>3, <1>6 DEF DirOf
  <2> QED BY <1>1, <1>3, <1>5, <2>1 DEF DirInv, rowVars
<1>12. MetaInv'
  BY <1>1 DEF MetaInv, rowVars
<1>13. NothingIsLeftBehind'
  <2>1. up'[a].at \in InFlight
    BY <1>5 DEF InFlight, InTransaction
  <2> QED BY <1>1, <1>3, <1>4, <2>1 DEF NothingIsLeftBehind, rowVars
<1> QED BY <1>7, <1>8, <1>9, <1>10, <1>11, <1>12, <1>13

\* The statements, and a COMMIT that did not succeed or was not answered.
LEMMA StatementPreserves ==
    ASSUME AInv, NEW a \in Artifact, InsertArtifact(a) \/ CommitRolledBack(a) \/ CommitLost(a)
    PROVE  AInv'
<1> USE StoreAssumption DEF AInv
<1>1. /\ UNCHANGED <<root, rowVars, diskVars, removing, excused, crashes>>
      /\ \/ up[a].at = "synced" /\ Goto(a, "inserted") /\ UNCHANGED tx
         \/ up[a].at = "inserted" /\ Goto(a, "cleanup") /\ tx' = [tx EXCEPT ![a] = "none"]
         \/ up[a].at = "inserted" /\ Goto(a, "verifying") /\ tx' = [tx EXCEPT ![a] = "sent"]
  BY DEF InsertArtifact, CommitRolledBack, CommitLost
<1>2. up[a].at \in InTransaction
  BY <1>1 DEF InTransaction
<1>3. tx[a] = "open" /\ row[a] = None /\ a \notin removing /\ DirOf(a) = "synced" /\ file[a] = "stored"
      /\ up[a].root = root
  BY <1>1, <1>2 DEF RequestInv, DirInv, FileInv, Named, TypeOK
<1>4. /\ up' \in [Artifact -> Request]
      /\ \A b \in Artifact : /\ b # a => up'[b] = up[b]
                             /\ up'[b].rel = up[b].rel /\ up'[b].root = up[b].root
                             /\ up'[b].kind = up[b].kind
  BY <1>1, Moved DEF At, InFlight, InTransaction
<1>5. /\ tx' \in [Artifact -> {"none", "open", "sent"}]
      /\ \A b \in Artifact : b # a => tx'[b] = tx[b]
  BY <1>1 DEF TypeOK
<1>6. \/ up'[a].at = "inserted" /\ tx'[a] = "open"
      \/ up'[a].at = "cleanup" /\ tx'[a] = "none"
      \/ up'[a].at = "verifying" /\ tx'[a] = "sent"
  BY <1>1, <1>3, Moved DEF At, InFlight, InTransaction, TypeOK
<1>7. TypeOK'
  BY <1>1, <1>4, <1>5, Types, TypeAgain DEF TypeOK, rowVars, diskVars
<1>8. RequestInv'
  <2>1. /\ row'[a] = None /\ a \notin removing' /\ up'[a].rel \in Release /\ root' = root
        /\ up'[a].root \in Root
    BY <1>1, <1>2, <1>3, <1>4, TransactionPlace DEF rowVars
  <2> QED BY <1>1, <1>3, <1>4, <1>5, <1>6, <2>1 DEF RequestInv, rowVars, InTransaction, Past
<1>9. LockInv'
  <2>1. up[a].at # "idle"
    BY <1>1
  <2> QED BY <1>1, <1>3, <1>4, <1>5, <2>1, LocksKept DEF rowVars
<1>10. FileInv'
  BY <1>1, <1>3, <1>4, <1>5, <1>6 DEF FileInv, Unwritten, rowVars, diskVars
<1>11. DirInv'
  <2>1. DirOf(a)' = "synced" /\ \A b \in Artifact : DirOf(b)' = DirOf(b)
    BY <1>1, <1>3, <1>4 DEF DirOf, diskVars
  <2> QED BY <1>1, <1>3, <1>4, <1>5, <1>6, <2>1 DEF DirInv, rowVars
<1>12. MetaInv'
  BY <1>1 DEF MetaInv, rowVars
<1>13. NothingIsLeftBehind'
  <2>1. up'[a].at \in InFlight
    BY <1>6 DEF InFlight, InTransaction
  <2> QED BY <1>1, <1>4, <2>1 DEF NothingIsLeftBehind, rowVars, diskVars
<1> QED BY <1>7, <1>8, <1>9, <1>10, <1>11, <1>12, <1>13

\* A failed upload takes its file and an empty directory with it.
LEMMA CleanupPreserves ==
    ASSUME AInv, NEW a \in Artifact, Refuse(a) \/ Cleanup(a)
    PROVE  AInv'
<1> USE StoreAssumption DEF AInv
<1>1. /\ UNCHANGED <<root, rowVars, removing, excused, crashes>>
      /\ up[a].at \in InTransaction \cup {"cleanup"}
      /\ file' = [file EXCEPT ![a] = "none"]
      /\ UNCHANGED dir \/ dir' = Emptied(a, file')
      /\ tx' = [tx EXCEPT ![a] = "none"] \/ (UNCHANGED tx /\ up[a].at = "cleanup")
      /\ Failed(a)
  BY DEF Refuse, Cleanup, SetFile
<1>2. /\ up' \in [Artifact -> Request]
      /\ \A b \in Artifact : /\ b # a => up'[b] = up[b]
                             /\ up'[b].rel = up[b].rel /\ up'[b].root = up[b].root
                             /\ up'[b].kind = up[b].kind
      /\ up'[a].at \in {"discard", "refused"}
  BY <1>1, Moved DEF Failed, At, InFlight
<1>3. /\ tx' \in [Artifact -> {"none", "open", "sent"}] /\ tx'[a] = "none"
      /\ \A b \in Artifact : b # a => tx'[b] = tx[b]
  <2>1. up[a].at = "cleanup" => tx[a] = "none"
    BY DEF TypeOK, RequestInv, InTransaction, Past
  <2> QED BY <1>1, <2>1 DEF TypeOK
<1>4. /\ file' \in [Artifact -> {"none", "partial", "renamed", "stored"}] /\ file'[a] = "none"
      /\ \A b \in Artifact : b # a => file'[b] = file[b]
  BY <1>1 DEF TypeOK
<1>5. up[a].rel \in Release /\ up[a].root \in Root /\ row[a] = None /\ a \notin removing
      /\ up[a].at # "idle"
  BY <1>1, TransactionPlace DEF RequestInv, InTransaction, Past
<1>6. /\ dir' \in DirType
      /\ \A x \in Root, r \in Release : dir'[x][r] \in {dir[x][r], "none"}
      /\ \A b \in Artifact : up[b].rel \in Release /\ up[b].root \in Root /\ file'[b] # "none"
            => dir'[up[b].root][up[b].rel] = dir[up[b].root][up[b].rel]
  <2>1. CASE UNCHANGED dir
    BY <2>1, Types
  <2>2. CASE dir' = Emptied(a, file')
    BY <1>5, <2>2, DirectoryEmptied
  <2> QED BY <1>1, <2>1, <2>2
<1>7. TypeOK'
  BY <1>1, <1>2, <1>3, <1>4, <1>6, TypeAgain DEF TypeOK, rowVars
<1>8. RequestInv'
  <2>1. row'[a] = None /\ a \notin removing' /\ root' = root /\ up'[a].rel \in Release
    BY <1>1, <1>2, <1>5 DEF rowVars
  <2> QED BY <1>1, <1>2, <1>3, <2>1 DEF RequestInv, InTransaction, rowVars
<1>9. LockInv'
  BY <1>1, <1>2, <1>3, <1>5, LocksKept DEF rowVars
<1>10. FileInv'
  BY <1>1, <1>2, <1>3, <1>4, <1>5 DEF FileInv, Unwritten, rowVars
<1>11. DirInv'
  <2> SUFFICES ASSUME NEW b \in Artifact
               PROVE  /\ up'[b].at = "staging" => DirOf(b)' \in {"none", "synced"}
                      /\ up'[b].at \in Named \/ tx'[b] = "sent" \/ row'[b] # None
                            => DirOf(b)' = "synced"
    BY DEF DirInv
  <2>1. CASE b = a
    BY <1>1, <1>2, <1>3, <1>5, <2>1 DEF Named, rowVars
  <2>2. CASE b # a
    <3>1. up'[b] = up[b] /\ tx'[b] = tx[b] /\ row'[b] = row[b] /\ file'[b] = file[b]
      BY <1>1, <1>2, <1>3, <1>4, <2>2 DEF rowVars
    <3>2. CASE up[b].at = "staging"
      <4>1. up[b].rel \in Release /\ up[b].root \in Root
        BY <3>2, TransactionPlace DEF InTransaction
      <4>2. DirOf(b) \in {"none", "synced"} /\ row[b] = None /\ tx[b] # "sent"
        BY <3>2 DEF DirInv, RequestInv, Past
      <4> QED BY <1>6, <3>1, <3>2, <4>1, <4>2 DEF DirOf, Named
    <3>3. CASE up[b].at \in Named \/ tx[b] = "sent" \/ row[b] # None
      <4>1. up[b].rel \in Release /\ up[b].root \in Root
        BY <3>3, TransactionPlace DEF Named, InTransaction
      <4>2. DirOf(b) = "synced" /\ up[b].at # "staging" /\ file[b] # "none"
        BY <3>3 DEF DirInv, RequestInv, FileInv, Named, Past
      <4> QED BY <1>6, <3>1, <4>1, <4>2 DEF DirOf
    <3> QED BY <3>1, <3>2, <3>3
  <2> QED BY <2>1, <2>2
<1>12. MetaInv' /\ NothingIsLeftBehind'
  BY <1>1, <1>2, <1>4 DEF MetaInv, NothingIsLeftBehind, rowVars
<1> QED BY <1>7, <1>8, <1>9, <1>10, <1>11, <1>12

-------------------------------------------------------------------------------
(***************************************************************************)
(* The COMMIT and deletion                                                 *)
(***************************************************************************)

StatusType == [Release -> {"none", "DRAFT", "UPLOADED", "QUEUED", "deleted"}]

\* The row appears, with the answer or without it.
LEMMA CommittedPreserves ==
    ASSUME AInv, NEW a \in Artifact, CommitSucceeds(a) \/ Decide(a, TRUE)
    PROVE  AInv'
<1> USE StoreAssumption DEF AInv
<1>1. /\ UNCHANGED <<root, diskVars, removing, excused, crashes>>
      /\ tx' = [tx EXCEPT ![a] = "none"] /\ Committed(a)
      /\ \/ up[a].at = "inserted" /\ Goto(a, "done")
         \/ tx[a] = "sent" /\ UNCHANGED up
  BY DEF CommitSucceeds, Decide
<1>2. /\ tx[a] # "none" /\ row[a] = None /\ a \notin removing /\ file[a] = "stored"
      /\ DirOf(a) = "synced" /\ up[a].root = root /\ up[a].rel \in Release /\ up[a].at # "idle"
  <2>1. tx[a] # "none" /\ up[a].at # "idle"
    BY <1>1 DEF RequestInv, InTransaction, Past
  <2>2. file[a] = "stored" /\ DirOf(a) = "synced"
    BY <1>1 DEF FileInv, DirInv, Named
  <2> QED BY <2>1, <2>2 DEF RequestInv
<1>3. /\ up' \in [Artifact -> Request]
      /\ \A b \in Artifact : /\ b # a => up'[b] = up[b]
                             /\ up'[b].rel = up[b].rel /\ up'[b].root = up[b].root
                             /\ up'[b].kind = up[b].kind
      /\ up'[a].at \in Past
      /\ up'[a].at = "done" \/ up'[a] = up[a]
  <2>1. CASE up[a].at = "inserted" /\ Goto(a, "done")
    BY <2>1, Moved DEF At, Past
  <2>2. CASE tx[a] = "sent" /\ UNCHANGED up
    BY <2>2, Types DEF RequestInv
  <2> QED BY <1>1, <2>1, <2>2
<1>4. /\ tx' \in [Artifact -> {"none", "open", "sent"}] /\ tx'[a] = "none"
      /\ \A b \in Artifact : b # a => tx'[b] = tx[b]
  BY <1>1 DEF TypeOK
<1>5. /\ row' \in [Artifact -> Release \cup {None}] /\ row'[a] = up[a].rel
      /\ \A b \in Artifact : b # a => row'[b] = row[b]
      /\ meta' = meta \ {up[a].rel}
      /\ status' \in StatusType
      /\ \A r \in Release : status'[r] = "none" => status[r] = "none"
  BY <1>1, <1>2 DEF TypeOK, Committed, StatusType
<1>6. TypeOK'
  <2>1. meta' \subseteq Release
    BY <1>5 DEF TypeOK
  <2> QED BY <1>1, <1>3, <1>4, <1>5, <2>1, Types, TypeAgain DEF TypeOK, StatusType, diskVars
<1>7. RequestInv'
  <2>1. /\ root' = root /\ a \notin removing' /\ up'[a].rel \in Release /\ up'[a].root = root
        /\ up'[a].at \notin InTransaction \cup {"idle", "cleanup"}
    BY <1>1, <1>2, <1>3 DEF Past, InTransaction
  <2> QED BY <1>1, <1>3, <1>4, <1>5, <2>1 DEF RequestInv
<1>8. LockInv'
  BY <1>2, <1>3, <1>4, <1>5, LocksKept
<1>9. FileInv'
  <2>1. up'[a].at \notin Unwritten \cup {"partial", "renamed", "synced", "inserted"}
    BY <1>3 DEF Past, Unwritten
  <2> QED BY <1>1, <1>2, <1>3, <1>4, <1>5, <2>1 DEF FileInv, diskVars
<1>10. DirInv'
  <2>1. DirOf(a)' = "synced" /\ \A b \in Artifact : DirOf(b)' = DirOf(b)
    BY <1>1, <1>2, <1>3 DEF DirOf, diskVars
  <2>2. up'[a].at # "staging"
    BY <1>3 DEF Past
  <2> QED BY <1>3, <1>4, <1>5, <2>1, <2>2 DEF DirInv
<1>11. MetaInv'
  BY <1>5 DEF MetaInv
<1>12. NothingIsLeftBehind'
  BY <1>1, <1>2, <1>3, <1>5 DEF NothingIsLeftBehind, diskVars
<1> QED BY <1>6, <1>7, <1>8, <1>9, <1>10, <1>11, <1>12

\* The transaction ends without a row, or its outcome is looked up.
LEMMA OutcomePreserves ==
    ASSUME AInv, NEW a \in Artifact, Decide(a, FALSE) \/ CommitVisible(a) \/ CommitUnknown(a)
    PROVE  AInv'
<1> USE StoreAssumption DEF AInv
<1>1. /\ UNCHANGED <<root, rowVars, diskVars, removing, crashes>>
      /\ \/ tx[a] = "sent" /\ tx' = [tx EXCEPT ![a] = "none"] /\ UNCHANGED <<up, excused>>
         \/ /\ up[a].at = "verifying" /\ row[a] # None /\ Goto(a, "done")
            /\ UNCHANGED <<tx, excused>>
         \/ /\ up[a].at = "verifying" /\ excused' = excused \cup {a} /\ UNCHANGED tx
            /\ Goto(a, "discard") \/ Goto(a, "unknown")
  BY DEF Decide, CommitVisible, CommitUnknown
<1>2. /\ tx' \in [Artifact -> {"none", "open", "sent"}]
      /\ \A b \in Artifact : tx'[b] = tx[b] \/ (b = a /\ tx[a] = "sent" /\ tx'[a] = "none")
  BY <1>1 DEF TypeOK
<1>3. /\ up' \in [Artifact -> Request]
      /\ \A b \in Artifact : /\ b # a => up'[b] = up[b]
                             /\ up'[b].rel = up[b].rel /\ up'[b].root = up[b].root
                             /\ up'[b].kind = up[b].kind
      /\ \/ up'[a] = up[a]
         \/ up[a].at = "verifying" /\ up'[a].at = "done" /\ row[a] # None
         \/ up[a].at = "verifying" /\ up'[a].at \in {"discard", "unknown"} /\ a \in excused'
  BY <1>1, Types, Moved DEF At, InFlight
<1>4. excused' \subseteq Artifact /\ excused \subseteq excused'
  BY <1>1 DEF TypeOK
<1>5. TypeOK'
  BY <1>1, <1>2, <1>3, <1>4, Types, TypeAgain DEF TypeOK, rowVars, diskVars
<1>6. \A b \in Artifact : up'[b] = up[b] \/ (b = a /\ up[a].at = "verifying" /\ up'[a].at \in Past)
  BY <1>3 DEF Past
<1>7. RequestInv'
  <2> SUFFICES ASSUME NEW b \in Artifact
               PROVE  /\ up'[b].at = "idle" => up'[b].kind = "none" /\ up'[b].rel = None
                      /\ up'[b].at # "idle" => up'[b].rel \in Release
                      /\ up'[b].at = "cleanup" => up'[b].root \in Root
                      /\ tx'[b] = "open" <=> up'[b].at \in InTransaction
                      /\ tx'[b] = "sent" => up'[b].at \in Past
                      /\ tx'[b] # "none" => up'[b].root = root'
                      /\ row'[b] # None => /\ row'[b] = up'[b].rel /\ up'[b].root = root'
                                           /\ tx'[b] = "none" /\ up'[b].at \in Past
                      /\ b \in removing' => row'[b] = None /\ tx'[b] = "none" /\ up'[b].at \in Past
    BY DEF RequestInv
  <2>1. /\ root' = root /\ row'[b] = row[b] /\ (b \in removing' <=> b \in removing)
        /\ up'[b].rel = up[b].rel /\ up'[b].root = up[b].root /\ up'[b].kind = up[b].kind
    BY <1>1, <1>3 DEF rowVars
  <2>2. tx'[b] = tx[b] \/ (tx[b] = "sent" /\ tx'[b] = "none")
    BY <1>2
  <2>3. CASE up'[b] = up[b]
    BY <2>1, <2>2, <2>3 DEF RequestInv, InTransaction, Past
  <2>4. CASE up[b].at = "verifying" /\ up'[b].at \in Past
    BY <2>1, <2>2, <2>4 DEF RequestInv, InTransaction, Past
  <2> QED BY <1>6, <2>3, <2>4
<1>8. LockInv'
  BY <1>1, <1>2, <1>3, LocksKept DEF rowVars
<1>9. FileInv'
  <2>1. file' = file /\ row' = row
    BY <1>1 DEF diskVars, rowVars
  <2> QED BY <1>2, <1>3, <1>4, <2>1 DEF FileInv, Unwritten
<1>10. DirInv'
  <2>1. \A b \in Artifact : DirOf(b)' = DirOf(b) /\ row'[b] = row[b]
    BY <1>1, <1>3 DEF DirOf, diskVars, rowVars
  <2> QED BY <1>2, <1>6, <2>1 DEF DirInv, Named, Past
<1>11. MetaInv'
  BY <1>1 DEF MetaInv, rowVars
<1>12. NothingIsLeftBehind'
  BY <1>1, <1>3, <1>4 DEF NothingIsLeftBehind, rowVars, diskVars
<1> QED BY <1>5, <1>7, <1>8, <1>9, <1>10, <1>11, <1>12

\* The rows of a release nobody works on go, and their files are accounted for.
LEMMA RowsDeleted ==
    ASSUME AInv, NEW r \in Release, DeleteRows(r)
    PROVE  /\ row' \in [Artifact -> Release \cup {None}] /\ meta' \subseteq meta
           /\ status' \in StatusType
           /\ \A q \in Release : status'[q] = "none" => status[q] = "none"
           /\ \A b \in Artifact : row'[b] = row[b] \/ (row'[b] = None /\ row[b] = r)
           /\ \A b \in Uploaded(r) : row'[b] = None
BY StoreAssumption DEF AInv, TypeOK, DeleteRows, StatusType, Uploaded

LEMMA DiscardPreserves ==
    ASSUME AInv, NEW a \in Artifact, NEW deleted \in BOOLEAN, Discard(a, deleted)
    PROVE  AInv'
<1> USE StoreAssumption DEF AInv
<1>1. /\ UNCHANGED <<root, tx, diskVars, removing, crashes>>
      /\ up[a].at = "discard" /\ Goto(a, "refused")
      /\ \/ UNCHANGED <<rowVars, excused>>
         \/ DeleteRows(up[a].rel) /\ excused' = excused \cup Uploaded(up[a].rel)
  BY DEF Discard
<1>2. /\ up' \in [Artifact -> Request]
      /\ \A b \in Artifact : /\ b # a => up'[b] = up[b]
                             /\ up'[b].rel = up[b].rel /\ up'[b].root = up[b].root
                             /\ up'[b].kind = up[b].kind
      /\ up'[a].at = "refused"
  BY <1>1, Moved DEF At
<1>3. up[a].rel \in Release
  BY <1>1 DEF RequestInv
<1>4. /\ row' \in [Artifact -> Release \cup {None}] /\ meta' \subseteq meta /\ status' \in StatusType
      /\ \A q \in Release : status'[q] = "none" => status[q] = "none"
      /\ \A b \in Artifact : row'[b] = row[b] \/ (row'[b] = None /\ b \in excused')
      /\ excused' \subseteq Artifact /\ excused \subseteq excused'
  <2>1. CASE UNCHANGED <<rowVars, excused>>
    BY <2>1 DEF TypeOK, StatusType, rowVars
  <2>2. CASE DeleteRows(up[a].rel) /\ excused' = excused \cup Uploaded(up[a].rel)
    BY <1>3, <2>2, RowsDeleted DEF Uploaded, TypeOK
  <2> QED BY <1>1, <2>1, <2>2
<1>5. TypeOK'
  <2>1. meta' \subseteq Release
    BY <1>4 DEF TypeOK
  <2> QED BY <1>1, <1>2, <1>4, <2>1, Types, TypeAgain DEF TypeOK, StatusType, diskVars
<1>6. RequestInv'
  BY <1>1, <1>2, <1>4 DEF RequestInv, InTransaction, Past
<1>7. LockInv'
  BY <1>1, <1>2, <1>4, LocksKept
<1>8. FileInv'
  BY <1>1, <1>2, <1>4 DEF FileInv, Unwritten, diskVars
<1>9. DirInv'
  <2>1. \A b \in Artifact : DirOf(b)' = DirOf(b)
    BY <1>1, <1>2 DEF DirOf, diskVars
  <2> QED BY <1>1, <1>2, <1>4, <2>1 DEF DirInv, Named
<1>10. MetaInv'
  BY <1>4 DEF MetaInv
<1>11. NothingIsLeftBehind'
  <2>1. file[a] # "none" => a \in excused'
    BY <1>1, <1>4 DEF FileInv
  <2> QED BY <1>1, <1>2, <1>4, <2>1 DEF NothingIsLeftBehind, diskVars
<1> QED BY <1>5, <1>6, <1>7, <1>8, <1>9, <1>10, <1>11

LEMMA DeletePreserves ==
    ASSUME AInv, NEW r \in Release, NEW acknowledged \in BOOLEAN, deleteRelease(r, acknowledged)
    PROVE  AInv'
<1> USE StoreAssumption DEF AInv
<1>1. /\ UNCHANGED <<root, up, tx, diskVars, crashes>> /\ DeleteRows(r)
      /\ removing' \subseteq removing \cup Uploaded(r) /\ removing \subseteq removing'
      /\ excused' \subseteq excused \cup Uploaded(r) /\ excused \subseteq excused'
      /\ Uploaded(r) \subseteq removing' \cup excused'
  BY DEF deleteRelease
<1>2. /\ row' \in [Artifact -> Release \cup {None}] /\ meta' \subseteq meta /\ status' \in StatusType
      /\ \A q \in Release : status'[q] = "none" => status[q] = "none"
      /\ \A b \in Artifact : row'[b] = row[b] \/ (row'[b] = None /\ row[b] = r)
      /\ \A b \in Uploaded(r) : row'[b] = None
  BY <1>1, RowsDeleted
<1>3. TypeOK'
  <2>1. meta' \subseteq Release /\ removing' \subseteq Artifact /\ excused' \subseteq Artifact
    BY <1>1, <1>2 DEF TypeOK, Uploaded
  <2> QED BY <1>1, <1>2, <2>1, Types, TypeAgain DEF TypeOK, StatusType, diskVars
<1>4. RequestInv'
  <2>1. ASSUME NEW b \in removing'
        PROVE  row'[b] = None /\ tx[b] = "none" /\ up[b].at \in Past
    <3>1. CASE b \in removing
      BY <1>2, <3>1 DEF RequestInv, TypeOK
    <3>2. CASE b \in Uploaded(r)
      BY <1>2, <3>2 DEF RequestInv, Uploaded
    <3> QED BY <1>1, <3>1, <3>2
  <2> QED BY <1>1, <1>2, <2>1 DEF RequestInv
<1>5. LockInv'
  BY <1>1, <1>2, LocksKept
<1>6. FileInv'
  BY <1>1, <1>2 DEF FileInv, diskVars
<1>7. DirInv'
  BY <1>1, <1>2 DEF DirInv, DirOf, diskVars
<1>8. MetaInv'
  BY <1>2 DEF MetaInv
<1>9. NothingIsLeftBehind'
  BY <1>1, <1>2 DEF NothingIsLeftBehind, Uploaded, diskVars
<1> QED BY <1>3, <1>4, <1>5, <1>6, <1>7, <1>8, <1>9

LEMMA RemovePreserves ==
    ASSUME AInv, NEW a \in Artifact, removeStoredArtifact(a)
    PROVE  AInv'
<1> USE StoreAssumption DEF AInv
<1>1. /\ UNCHANGED <<root, rowVars, up, tx, dir, excused, crashes>>
      /\ a \in removing /\ removing' = removing \ {a} /\ file' = [file EXCEPT ![a] = "none"]
  BY DEF removeStoredArtifact, SetFile
<1>2. row[a] = None /\ tx[a] = "none" /\ up[a].at \in Past
  BY <1>1 DEF RequestInv
<1>3. /\ file' \in [Artifact -> {"none", "partial", "renamed", "stored"}] /\ file'[a] = "none"
      /\ \A b \in Artifact : b # a => file'[b] = file[b]
  BY <1>1 DEF TypeOK
<1>4. TypeOK'
  BY <1>1, <1>3, Types, TypeAgain DEF TypeOK, rowVars
<1>5. RequestInv' /\ LockInv' /\ DirInv' /\ MetaInv'
  BY <1>1 DEF RequestInv, LockInv, DirInv, DirOf, MetaInv, rowVars
<1>6. FileInv'
  BY <1>1, <1>2, <1>3 DEF FileInv, Past, Unwritten, rowVars
<1>7. NothingIsLeftBehind'
  BY <1>1, <1>3 DEF NothingIsLeftBehind, rowVars
<1> QED BY <1>4, <1>5, <1>6, <1>7

-------------------------------------------------------------------------------
(***************************************************************************)
(* Crashes and losses of power                                             *)
(***************************************************************************)

\* A synced directory and a whole file in it survive.
LEMMA DiskSurvives ==
    ASSUME AInv, NEW power \in BOOLEAN, Crash(power)
    PROVE  /\ dir' \in DirType
           /\ file' \in [Artifact -> {"none", "partial", "renamed", "stored"}]
           /\ \A x \in Root, r \in Release : dir[x][r] = "synced" => dir'[x][r] = "synced"
           /\ \A a \in Artifact : file[a] = "none" => file'[a] = "none"
           /\ \A a \in Artifact : /\ up[a].root \in Root /\ up[a].rel \in Release
                                  /\ DirOf(a) = "synced" /\ file[a] = "stored"
                 => file'[a] = "stored"
<1>1. CASE ~power
  BY <1>1, Types DEF AInv, TypeOK, Crash, diskVars
<1>2. CASE power
  <2>1. /\ dir' \in [Root -> [Release -> {"none", "synced"}]]
        /\ \A d \in Root, r \in Release : dir[d][r] # "made" => dir'[d][r] = dir[d][r]
        /\ file' \in [Artifact -> {"none", "partial", "stored"}]
        /\ \A a \in Artifact :
              file'[a] \in IF file[a] # "none" /\ dir'[up[a].root][up[a].rel] = "none"
                           THEN {"none"} ELSE Remains(file[a])
    BY <1>2 DEF Crash
  <2>2. dir' \in DirType
    <3>1. \A x \in Root : dir'[x] \in [Release -> {"none", "made", "synced"}]
      BY <2>1
    <3> QED BY <2>1, <3>1 DEF DirType
  <2>3. file' \in [Artifact -> {"none", "partial", "renamed", "stored"}]
    BY <2>1
  <2>4. \A a \in Artifact : file[a] = "none" => file'[a] = "none"
    BY <2>1 DEF Remains
  <2>5. ASSUME NEW a \in Artifact, up[a].root \in Root, up[a].rel \in Release,
               DirOf(a) = "synced", file[a] = "stored"
        PROVE  file'[a] = "stored"
    <3>1. dir'[up[a].root][up[a].rel] = "synced"
      BY <2>1, <2>5 DEF DirOf
    <3> QED BY <2>1, <2>5, <3>1 DEF Remains
  <2> QED BY <2>1, <2>2, <2>3, <2>4, <2>5
<1> QED BY <1>1, <1>2

LEMMA CrashPreserves ==
    ASSUME AInv, NEW power \in BOOLEAN, Crash(power)
    PROVE  AInv'
<1> USE StoreAssumption DEF AInv
<1>1. /\ UNCHANGED <<root, rowVars>> /\ crashes' \in 0..MaxCrashes
      /\ tx' = [a \in Artifact |-> IF tx[a] = "open" THEN "none" ELSE tx[a]]
      /\ up' = [a \in Artifact |-> IF up[a].at \in InFlight
                                   THEN [up[a] EXCEPT !.at = "crashed"] ELSE up[a]]
      /\ excused' = excused \cup removing \cup {a \in Artifact : up[a].at \in InFlight}
      /\ removing' = {}
  BY DEF Crash, TypeOK
<1>2. /\ dir' \in DirType
      /\ file' \in [Artifact -> {"none", "partial", "renamed", "stored"}]
      /\ \A x \in Root, r \in Release : dir[x][r] = "synced" => dir'[x][r] = "synced"
      /\ \A a \in Artifact : file[a] = "none" => file'[a] = "none"
      /\ \A a \in Artifact : /\ up[a].root \in Root /\ up[a].rel \in Release
                             /\ DirOf(a) = "synced" /\ file[a] = "stored"
            => file'[a] = "stored"
  BY DiskSurvives
<1>3. ASSUME NEW a \in Artifact
      PROVE  /\ up'[a] \in Request
             /\ up'[a].rel = up[a].rel /\ up'[a].root = up[a].root /\ up'[a].kind = up[a].kind
             /\ \/ up'[a].at = "crashed" /\ up[a].at \in InFlight
                \/ up'[a] = up[a] /\ up[a].at \notin InFlight
  <2>1. up[a] \in Request
    BY Types
  <2> QED BY <1>1, <2>1 DEF Request, At
<1>4. up' \in [Artifact -> Request]
  BY <1>1, <1>3
<1>5. /\ tx' \in [Artifact -> {"none", "open", "sent"}]
      /\ \A a \in Artifact : tx'[a] # "open" /\ (tx'[a] # "none" => tx'[a] = tx[a])
  BY <1>1 DEF TypeOK
<1>6. excused' \subseteq Artifact /\ excused \subseteq excused'
  BY <1>1 DEF TypeOK
<1>7. TypeOK'
  BY <1>1, <1>2, <1>4, <1>5, <1>6, TypeAgain DEF TypeOK, rowVars
<1>8. \A a \in Artifact : up'[a].at \in {"idle", "done", "refused", "unknown", "crashed"}
                          /\ (up'[a].at = "idle" <=> up[a].at = "idle")
                          /\ (up[a].at \in Past => up'[a].at \in Past)
  BY <1>3, Types DEF Request, At, InFlight, InTransaction, Past
<1>9. RequestInv'
  <2> SUFFICES ASSUME NEW a \in Artifact
               PROVE  /\ up'[a].at = "idle" => up'[a].kind = "none" /\ up'[a].rel = None
                      /\ up'[a].at # "idle" => up'[a].rel \in Release
                      /\ up'[a].at = "cleanup" => up'[a].root \in Root
                      /\ tx'[a] = "open" <=> up'[a].at \in InTransaction
                      /\ tx'[a] = "sent" => up'[a].at \in Past
                      /\ tx'[a] # "none" => up'[a].root = root'
                      /\ row'[a] # None => /\ row'[a] = up'[a].rel /\ up'[a].root = root'
                                           /\ tx'[a] = "none" /\ up'[a].at \in Past
    BY <1>1 DEF RequestInv
  <2>1. up'[a].at \notin InTransaction \cup {"cleanup"}
    BY <1>8 DEF InTransaction
  <2>2. row'[a] = row[a] /\ root' = root
    BY <1>1 DEF rowVars
  <2> QED BY <1>3, <1>5, <1>8, <2>1, <2>2 DEF RequestInv
<1>10. LockInv'
  BY <1>1, <1>3, <1>5, <1>8, LocksKept DEF rowVars
<1>11. \A a \in Artifact : tx'[a] = "sent" \/ row'[a] # None =>
          /\ up[a].root \in Root /\ up[a].rel \in Release
          /\ DirOf(a) = "synced" /\ file[a] = "stored"
  BY <1>1, <1>5, TransactionPlace DEF FileInv, DirInv, rowVars
<1>12. FileInv'
  <2> SUFFICES ASSUME NEW a \in Artifact
               PROVE  /\ up'[a].at \in Unwritten => file'[a] = "none"
                      /\ up'[a].at \notin {"partial", "renamed", "synced", "inserted"}
                      /\ tx'[a] = "sent" \/ row'[a] # None => file'[a] = "stored"
                      /\ up'[a].at \in {"discard", "refused", "unknown", "crashed"}
                            /\ file'[a] # "none" => a \in excused'
    BY DEF FileInv
  <2>1. up'[a].at \in Unwritten => file'[a] = "none"
    BY <1>2, <1>8 DEF FileInv, Unwritten
  <2>2. up'[a].at \notin {"partial", "renamed", "synced", "inserted"}
    BY <1>8
  <2>3. tx'[a] = "sent" \/ row'[a] # None => file'[a] = "stored"
    BY <1>2, <1>11
  <2>4. ASSUME up'[a].at \in {"discard", "refused", "unknown", "crashed"}, file'[a] # "none"
        PROVE  a \in excused'
    <3>1. CASE up[a].at \in InFlight
      BY <1>1, <3>1
    <3>2. CASE up[a].at \notin InFlight
      BY <1>1, <1>2, <1>3, <2>4, <3>2 DEF FileInv
    <3> QED BY <3>1, <3>2
  <2> QED BY <2>1, <2>2, <2>3, <2>4
<1>13. DirInv'
  BY <1>2, <1>3, <1>8, <1>11 DEF DirInv, DirOf, Named
<1>14. MetaInv'
  BY <1>1 DEF MetaInv, rowVars
<1>15. NothingIsLeftBehind'
  <2> SUFFICES ASSUME NEW a \in Artifact, file'[a] # "none", row'[a] = None
               PROVE  a \in excused'
    BY DEF NothingIsLeftBehind
  <2>1. file[a] # "none" /\ row[a] = None
    BY <1>1, <1>2 DEF rowVars
  <2> QED BY <1>1, <2>1 DEF NothingIsLeftBehind
<1> QED BY <1>7, <1>9, <1>10, <1>12, <1>13, <1>14, <1>15

-------------------------------------------------------------------------------
(***************************************************************************)
(* The theorems                                                            *)
(***************************************************************************)

LEMMA AInvInit == Init => AInv
<1> SUFFICES ASSUME Init PROVE AInv
  OBVIOUS
<1> USE StoreAssumption DEF Init
<1>1. NoRequest \in Request /\ NoRequest.at = "idle" /\ NoRequest.kind = "none" /\ NoRequest.rel = None
  BY DEF NoRequest, Request, At
<1>2. TypeOK
  <2>1. up \in [Artifact -> Request]
    BY <1>1
  <2>2. dir \in DirType
    BY DEF DirType
  <2> QED BY <2>1, <2>2 DEF TypeOK, Request, At, DirType
<1>3. RequestInv
  BY <1>1 DEF RequestInv, InTransaction
<1>4. LockInv
  BY <1>1 DEF LockInv
<1>5. FileInv /\ DirInv /\ MetaInv /\ NothingIsLeftBehind
  BY <1>1 DEF FileInv, DirInv, MetaInv, NothingIsLeftBehind, Unwritten, Named
<1> QED BY <1>2, <1>3, <1>4, <1>5 DEF AInv

LEMMA AInvStep == AInv /\ [Next]_vars => AInv'
<1> SUFFICES ASSUME AInv, [Next]_vars PROVE AInv'
  OBVIOUS
<1>1. ASSUME NEW a \in Artifact, NEW r \in Release, insertRelease(a, r) PROVE AInv'
  BY <1>1, InsertReleasePreserves
<1>2. ASSUME NEW a \in Artifact, Storing(a) PROVE AInv'
  BY <1>2, LockReleasePreserves, LockRefusedPreserves, DirectoryPreserves, WritePreserves,
     StatementPreserves, CleanupPreserves DEF Storing
<1>3. ASSUME NEW a \in Artifact, Committing(a) PROVE AInv'
  <2>1. ASSUME NEW b \in BOOLEAN, Decide(a, b) PROVE AInv'
    BY <2>1, CommittedPreserves, OutcomePreserves
  <2> QED BY <1>3, <2>1, CommittedPreserves, StatementPreserves, DiscardPreserves,
             OutcomePreserves, CleanupPreserves DEF Committing
<1>4. ASSUME NEW a \in Artifact, removeStoredArtifact(a) PROVE AInv'
  BY <1>4, RemovePreserves
<1>5. ASSUME NEW r \in Release, createRelease(r) \/ createArtifactMetadata(r) \/ Submit(r)
      PROVE AInv'
  BY <1>5, ReleasePreserves
<1>6. ASSUME NEW r \in Release, NEW b \in BOOLEAN, deleteRelease(r, b) PROVE AInv'
  BY <1>6, DeletePreserves
<1>7. ASSUME NEW d \in Root, updateSettings(d) PROVE AInv'
  BY <1>7, SettingsPreserve
<1>8. ASSUME NEW power \in BOOLEAN, Crash(power) PROVE AInv'
  BY <1>8, CrashPreserves
<1>9. CASE UNCHANGED vars
  <2> USE <1>9 DEF AInv, vars, rowVars, diskVars
  <2>1. TypeOK'
    BY DEF TypeOK
  <2>2. RequestInv' /\ LockInv' /\ MetaInv' /\ NothingIsLeftBehind'
    BY DEF RequestInv, LockInv, MetaInv, NothingIsLeftBehind
  <2>3. FileInv' /\ DirInv'
    BY DEF FileInv, DirInv, DirOf
  <2> QED BY <2>1, <2>2, <2>3
<1> QED BY <1>1, <1>2, <1>3, <1>4, <1>5, <1>6, <1>7, <1>8, <1>9 DEF Next

\* The invariant above holds in every reachable state.
THEOREM Invariance == Spec => []AInv
BY AInvInit, AInvStep, PTL DEF Spec

\* Settings, rows, requests and files keep their types.
THEOREM TypeCorrect == Spec => []TypeOK
BY Invariance, PTL DEF AInv

\* Every committed row names a whole file below the configured root, whatever
\* crash, lost COMMIT answer, deletion or change of root came in between.
THEOREM ContentIsThere == Spec => []RowsHaveTheirContent
<1>1. AInv => RowsHaveTheirContent
  BY DEF AInv, RequestInv, FileInv, DirInv, DirOf, MetaInv, RowsHaveTheirContent
<1> QED BY <1>1, Invariance, PTL

\* A file without a row is being worked on, awaits removal, or is known to have
\* been left by a crash, an unknown COMMIT or the deletion of its release.
THEOREM NothingLeft == Spec => []NothingIsLeftBehind
BY Invariance, PTL DEF AInv

===============================================================================

--------------------------- MODULE MCArtifactStore ---------------------------
(***************************************************************************)
(* Three uploads of every kind to one release or to two, while the storage *)
(* root may be changed and the server or its power may fail once.          *)
(***************************************************************************)
EXTENDS ArtifactStore, TLC

CONSTANTS r1, r2, a1, a2, a3, d1, d2

Symmetric == Permutations(Release) \cup Permutations(Artifact) \cup Permutations(Root)

==============================================================================

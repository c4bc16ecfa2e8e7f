-------------------------- MODULE MCReleaseWorkflow --------------------------
(* Finite instances of ReleaseWorkflow.                                     *)
EXTENDS ReleaseWorkflow, TLC

CONSTANTS j1, j2, j3, r1, r2, t1, u1, u2

ThreeJobs == {j1, j2, j3}
TwoReleases == {r1, r2}
OneTarget == {t1}
TwoUsers == {u1, u2}
SameTarget == [r \in TwoReleases |-> t1]

Symmetric == Permutations(ThreeJobs) \cup Permutations(TwoReleases)
             \cup Permutations(TwoUsers)

===============================================================================

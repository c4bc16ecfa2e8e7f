---------------------------- MODULE MCRunnerLease ----------------------------
(* Finite instances of RunnerLease.                                         *)
EXTENDS RunnerLease, FiniteSets, Naturals, TLC

CONSTANTS j1, j2, j3, j4, j5, r1, r2, r3, t1, w1, w2

TwoJobs == {j1, j2}
ThreeJobs == {j1, j2, j3}
FiveJobs == {j1, j2, j3, j4, j5}
TwoReleases == {r1, r2}
ThreeReleases == {r1, r2, r3}
OneTarget == {t1}
OneWorker == {w1}
TwoWorkers == {w1, w2}
SameTarget == [r \in TwoReleases |-> t1]
SameTargetOfThree == [r \in ThreeReleases |-> t1]

Symmetric == Permutations(ThreeJobs) \cup Permutations(TwoReleases)
             \cup Permutations(TwoWorkers)

\* Bounds of the history run: long chains of jobs, few failures.
AtMostTwoFailures ==
    /\ Cardinality({j \in Job : jobs[j].status = "FAILED"}) <= 2
    /\ \A w \in Worker : ~proc[w].cancelled

SymmetricHistory == Permutations(FiveJobs) \cup Permutations(ThreeReleases)

===============================================================================

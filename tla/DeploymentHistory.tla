-------------------------- MODULE DeploymentHistory --------------------------
(***************************************************************************)
(* What deployment_heads promises, without jobs, runners or requests: per  *)
(* target a head that moves to a newly verified deployment, which records  *)
(* the head it replaced, or back to the one its own record names.  Records *)
(* may be deleted as long as nothing refers to them.                       *)
(***************************************************************************)
CONSTANTS Deployment,   \* DEPLOY jobs
          Target,
          None

VARIABLES
    verified,   \* the deployments that reached SUCCESS
    prior,      \* for each of them, the head it replaced
    head        \* per target, the deployment whose images are live

vars == <<verified, prior, head>>

TypeOK ==
    /\ verified \subseteq Deployment
    /\ prior \in [Deployment -> Deployment \cup {None}]
    /\ head \in [Target -> Deployment \cup {None}]

Init ==
    /\ verified = {}
    /\ prior = [d \in Deployment |-> None]
    /\ head = [t \in Target |-> None]

\* A DEPLOY job of target t ends in SUCCESS.
Verify(t, d) ==
    /\ d \notin verified
    /\ verified' = verified \cup {d}
    /\ prior' = [prior EXCEPT ![d] = head[t]]
    /\ head' = [head EXCEPT ![t] = d]

\* A ROLLBACK job of the head's release ends in ROLLED_BACK.
Revert(t) ==
    /\ head[t] # None
    /\ prior[head[t]] # None
    /\ head' = [head EXCEPT ![t] = prior[head[t]]]
    /\ UNCHANGED <<verified, prior>>

\* A release is deleted with its jobs, which no head and no other job names
\* (the foreign keys to release_jobs).
Forget(gone) ==
    /\ \A t \in Target : head[t] \notin gone
    /\ \A d \in verified \ gone : prior[d] \notin gone
    /\ verified' = verified \ gone
    /\ prior' = [d \in Deployment |-> IF d \in gone THEN None ELSE prior[d]]
    /\ UNCHANGED head

Next ==
    \/ \E t \in Target : (\E d \in Deployment : Verify(t, d)) \/ Revert(t)
    \/ \E gone \in SUBSET verified : Forget(gone)

Spec == Init /\ [][Next]_vars

-------------------------------------------------------------------------------

\* Rolling back again and again comes to an end: no set of deployments is
\* closed under "what this one replaced", so C, B, A is never followed by C
\* (the A->B->C, C->B->A chain of sync_verified_deployment_head).
HistoryHasNoCycle ==
    \A S \in SUBSET verified : S # {} => \E d \in S : prior[d] \notin S

===============================================================================

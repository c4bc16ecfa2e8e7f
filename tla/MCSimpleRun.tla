----------------------------- MODULE MCSimpleRun -----------------------------
(***************************************************************************)
(* One upload of two packages, a1 then a2, and an upload b of one package  *)
(* to the same target under the name of a1.  A configuration takes some of *)
(* the three.                                                              *)
(***************************************************************************)
EXTENDS SimpleRun

CONSTANTS a1, a2, b, t1, d1, d2, n1, n2

MCTargetFor == [r \in Run |-> t1]

MCNameOf == [r \in Run |-> IF r = a2 THEN n2 ELSE n1]

MCUploadOf == [r \in Run |-> IF r = b THEN "B" ELSE "A"]

MCBefore == [r \in Run |-> IF r = a2 THEN a1 ELSE NoRun]

MCHomeDir == [t \in Target |-> d1]

Unedited ==
    /\ dirOf = HomeDir /\ revoked = {} /\ revoking = {}
    /\ \A r \in Run : pathDir[r] = HomeDir[TargetFor[r]]

\* Bounds of the passing run: with a moved or revoked target, a1 and b only; with
\* an upload given up before it is recorded, a1 and a2 only.
EditsWithTwoUploads == client[a2] = "waiting" \/ Unedited

LeftWithOneUpload ==
    (\E r \in Run : client[r] = "left") => client[b] = "waiting" /\ Unedited

===============================================================================

---------------------------- MODULE MCDelegation ----------------------------
(* Finite instance of Delegation: one permission guards every write, so an  *)
(* actor can have it and lack the other.                                    *)
EXTENDS Delegation, TLC

CONSTANTS u1, u2, u3, q1, q2, write, other, admin, r1

ThreeUsers == {u1, u2, u3}
TwoRequests == {q1, q2}

MCKeyScopes == {{write}, {write, other}}

\* Bounds: one sign-in and one API key at a time; with three accounts, only
\* sessions and sign-ins, and the bootstrap name is taken.
OneOfEach ==
    /\ \A p, q \in Request :
          req[p].kind = req[q].kind /\ req[p].kind \in {"signin", "key"} => p = q
    /\ (\A u \in User : Exists(u)) =>
          /\ named # Nobody
          /\ \A q \in Request : req[q].kind # "key"

Symmetric == Permutations(ThreeUsers) \cup Permutations(TwoRequests)

===============================================================================

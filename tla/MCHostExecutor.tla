--------------------------- MODULE MCHostExecutor ---------------------------
(***************************************************************************)
(* Two runner processes and two jobs of two scripts, one of them with a    *)
(* target credential and one with a call beyond the protocol's limits.     *)
(***************************************************************************)
EXTENDS HostExecutor

CONSTANTS r1, r2, j1, j2

const_Malformed == {<<j2, 2>>}

=============================================================================

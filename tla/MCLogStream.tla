----------------------------- MODULE MCLogStream -----------------------------
(***************************************************************************)
(* One page, of either kind, of a user who may have one stream: a second   *)
(* connection is refused while the handler of the first one lingers.       *)
(***************************************************************************)
EXTENDS LogStream

CONSTANTS v1, l1, l2, h1, out

=============================================================================

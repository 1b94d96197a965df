-------------------------- MODULE MCAdminDeleteSaga --------------------------
(***************************************************************************)
(* Small instances of AdminDeleteSaga for TLC.                             *)
(***************************************************************************)
EXTENDS AdminDeleteSaga, TLC

CONSTANTS a, b, c, d

\* The calls of administrators are alike; used where only invariants are checked.
AdminSymmetry == Permutations(Admins)
=============================================================================

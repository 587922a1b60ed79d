------------------------------ MODULE MCWorkspace ------------------------------
(* Small instances of Workspace for TLC. *)
EXTENDS Workspace, TLC

CONSTANTS c1, c2, n1

Symmetric == Permutations(Calls)
=============================================================================

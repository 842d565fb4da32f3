----------------------------- MODULE MCWorkspace -----------------------------
(* Workspace for TLC: the calls are interchangeable.                             *)
EXTENDS Workspace, TLC

Symmetry == Permutations(Calls)
=============================================================================

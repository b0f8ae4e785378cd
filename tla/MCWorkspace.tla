----------------------------- MODULE MCWorkspace -----------------------------
(***************************************************************************)
(* Three runs of the program with one workspace: enough for a file left by *)
(* one run, overwritten by a second and read by a third.                   *)
(***************************************************************************)
EXTENDS Workspace, TLC

Symmetry == Permutations(Run)
=============================================================================

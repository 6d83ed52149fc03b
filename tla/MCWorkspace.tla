---------------------------- MODULE MCWorkspace ----------------------------
(* Two presets, so that the moves are more than the receipt and ACTIVE; two  *)
(* incidents, so that a recovery can itself be interrupted; two runs, so     *)
(* that both can be ACTIVE or on their way; and two commits.                 *)
EXTENDS Workspace, TLC

CONSTANTS p1, p2
Symmetry == Permutations(Presets)
=============================================================================

---------------------------- MODULE MCInstaller ----------------------------
(* Two packages, so that a generation can be superseded and come back.       *)
EXTENDS Installer, TLC

CONSTANTS g1, g2
Symmetry == Permutations(Generations)
=============================================================================

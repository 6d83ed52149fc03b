----------------------------- MODULE MCModeState -----------------------------
(* Two sessions, two defects and a file of one record, so that a second       *)
(* finding pushes one out; four calls among findings, episodes and migrations *)
(* (two of each side, or a torn ledger that is appended to and migrated), and *)
(* one fault.                                                                 *)
EXTENDS ModeState, TLC
CONSTANTS s1, s2, d1, d2
MCSymmetry == Permutations(Session) \union Permutations(Defect)
=============================================================================

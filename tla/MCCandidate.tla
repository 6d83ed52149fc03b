----------------------------- MODULE MCCandidate -----------------------------
(* Candidate with two Host processes, a repair session, a selection of      *)
(* findings and a request.                                                  *)
EXTENDS Candidate, TLC
CONSTANTS h1, h2, m1, f1, r1
MCSymmetry == Permutations({h1, h2})
=============================================================================

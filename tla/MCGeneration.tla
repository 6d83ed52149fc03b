----------------------------- MODULE MCGeneration -----------------------------
(***************************************************************************)
(* Instances of Generation: who may type which command.                    *)
(***************************************************************************)
EXTENDS Generation, TLC

CONSTANTS a, b

\* One process repeats install; the other resumes the Creator or finalizes.
MCCommands == (a :> {"install"}) @@ (b :> {"creator", "finalize"})
\* Both only repeat install.
=============================================================================

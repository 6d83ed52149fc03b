-------------------------- MODULE MCHostController --------------------------
(* Two processes over a queue of two units; the second demands more seconds  *)
(* than the first leaves after one relaunch.                                 *)
EXTENDS HostController, TLC

CONSTANTS p1, p2, d1, d2

MCDimensions == {"attempts", "seconds"}
MCLimits == [d \in MCDimensions |-> IF d = "attempts" THEN 3 ELSE 4]
MCDemand == [u \in 1 .. MaxUnits |->
               [d \in MCDimensions |-> IF d = "attempts" THEN 1 ELSE u]]
Symmetry == Permutations({p1, p2}) \union Permutations({d1, d2})
=============================================================================

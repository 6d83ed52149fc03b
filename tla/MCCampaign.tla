------------------------------ MODULE MCCampaign ------------------------------
(* Campaign with a session, a finding, two entrypoints, and three plans: both *)
(* entrypoints can run, the second is gone, or a capability cannot run.      *)
EXTENDS Campaign, TLC
CONSTANTS m1, f1, c1, c2, t1
MCMeasured == {[c \in {c1, c2} |-> TRUE], [c \in {c1} |-> TRUE],
               [c \in {c1, c2} |-> c = c1]}
=============================================================================

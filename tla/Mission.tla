------------------------------ MODULE Mission ------------------------------
(***************************************************************************)
(* What a mission promises to whoever reads its directory, whatever the    *)
(* controller does in memory, crashes or retries: every saved queue moves  *)
(* each unit along its lifecycle, closes it only when the stores that must *)
(* remember the closing already do, and spends within the limits.          *)
(*                                                                         *)
(* HostController implements this specification (MissionPromise there).    *)
(***************************************************************************)
EXTENDS Naturals

CONSTANTS Units, Dimensions, Limits, Demand

VARIABLES
  status,      \* unit -> its state in queue.json
  usage,       \* dimension -> total of the persisted reservations
  published,   \* units whose batch is closed in the publisher's store
  remembered   \* units with a ratified retention decision

missionVars == <<status, usage, published, remembered>>

States == {"ABSENT", "PENDING", "IN_FLIGHT", "DONE", "RETAINED"}

(* The moves one saved queue may make for one unit.  A failed save leaves   *)
(* the file behind the memory, so a later save may take a unit from        *)
(* PENDING straight to RETAINED (a cancelled unit whose IN_FLIGHT was      *)
(* never written); nothing reaches DONE except from IN_FLIGHT.             *)
Lifecycle ==
  {<<"ABSENT", "PENDING">>,
   <<"PENDING", "IN_FLIGHT">>, <<"PENDING", "RETAINED">>,
   <<"IN_FLIGHT", "PENDING">>, <<"IN_FLIGHT", "DONE">>,
   <<"IN_FLIGHT", "RETAINED">>}

Init ==
  /\ status = [u \in Units |-> "ABSENT"]
  /\ usage = [d \in Dimensions |-> 0]
  /\ published = {}
  /\ remembered = {}

(* One replacement of queue.json: any number of units move at once. *)
SaveQueue ==
  /\ status' \in [Units -> States]
  /\ \A u \in Units :
       /\ status'[u] # status[u] => <<status[u], status'[u]>> \in Lifecycle
       /\ status'[u] = "DONE" => u \in published
       /\ status'[u] = "RETAINED" => u \in remembered
  /\ UNCHANGED <<usage, published, remembered>>

Reserve ==
  /\ \E u \in Units :
       /\ \A d \in Dimensions : usage[d] + Demand[u][d] <= Limits[d]
       /\ usage' = [d \in Dimensions |-> usage[d] + Demand[u][d]]
  /\ UNCHANGED <<status, published, remembered>>

Publish ==
  /\ \E u \in Units : published' = published \union {u}
  /\ UNCHANGED <<status, usage, remembered>>

Remember ==
  /\ \E u \in Units : remembered' = remembered \union {u}
  /\ UNCHANGED <<status, usage, published>>

Next == SaveQueue \/ Reserve \/ Publish \/ Remember

Spec == Init /\ [][Next]_missionVars
=============================================================================

---------------------------- MODULE MCGroupRides ----------------------------
(* Three requests of one corridor, any two or all three of which can share; *)
(* q1 leaves the car where others enter it.  Two groups may be proposed.    *)
EXTENDS GroupRides, TLC

CONSTANTS q1, q2, q3

MCPickup == q1 :> 0 @@ q2 :> 3 @@ q3 :> 2
MCDropoff == q1 :> 2 @@ q2 :> 5 @@ q3 :> 6
=============================================================================

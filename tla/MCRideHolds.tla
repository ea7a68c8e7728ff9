---------------------------- MODULE MCRideHolds ----------------------------
(* One rider with two rides, so both holds draw on the same wallet row.    *)
EXTENDS RideHolds, TLC

MCRiderOf == [r \in Rides |-> CHOOSE rd \in Riders : TRUE]

(* A fare of 2 pays the driver 1; a fare of 3 is below its deductions, so  *)
(* the driver's payout is clamped at zero.                                 *)
MCDeduction == [f \in Fares |-> IF f = 2 THEN 1 ELSE 4]

Symmetry == Permutations(Rides) \cup Permutations(Workers) \cup Permutations(Drivers)
=============================================================================

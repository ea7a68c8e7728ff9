---------------------------- MODULE MCInterstate ----------------------------
EXTENDS Interstate, TLC

CONSTANTS b1, b2, r1, r2, d1, d2, w1, w2

(* Two riders, a booking each, and the drivers who want the trip. *)
MCBookings == {b1, b2}
MCRiderOf == [b \in MCBookings |-> IF b = b1 THEN r1 ELSE r2]

(* The riders are interchangeable when each takes its booking along. *)
Swapped == b1 :> b2 @@ b2 :> b1 @@ r1 :> r2 @@ r2 :> r1

Symmetry == Permutations({d1, d2}) \cup Permutations({w1, w2}) \cup {Swapped}
=============================================================================

------------------------------ MODULE MCBooking ------------------------------
(* A key used by a call, its retry and a call for another body; a socket   *)
(* request, its resend under the same ride id, and one for another ride;   *)
(* two friends; two gateways.  Not all at once: each initial state has one *)
(* of the meetings of MCTraffic, and in those of MCSmooth nothing fails.   *)
EXTENDS Booking, TLC

CONSTANTS c1, c2, c3, s1, s2, s3, r1, r2, r3, r4, r5, b1, b2, g1, g2, f1, f2

MCBodyOf == [c \in Calls |-> IF c = c3 THEN b2 ELSE b1]
MCRideOf == [q \in Requests |->
    CASE q = c1 -> r1 [] q = c2 -> r2 [] q = c3 -> r3 [] q = s3 -> r5 [] OTHER -> r4]
MCTraffic == {{f1, g1, c1, c2}, {g1, c1, c3}, {f1, g1, s1, s3}, {f1, g1, s1, s2},
              {f1, g1, g2, s1}, {f1, f2, g1}, {f1, f2, g1, s1}}
MCSmooth == {{f1, g1, s1, s3}, {f1, f2, g1, s1}}

(* Every step treats the two friends alike, and a call and its retry when  *)
(* each takes along the ride it draws.                                     *)
Retried == c1 :> c2 @@ c2 :> c1 @@ r1 :> r2 @@ r2 :> r1

Symmetry == Permutations({f1, f2}) \cup {Retried}
=============================================================================

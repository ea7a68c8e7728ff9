---------------------------- MODULE MCTripRoute -----------------------------
(* An instance of TripRoute: a driver with two sockets at the other instance *)
(* whose bid is taken; the same driver on and off the market; a driver on a  *)
(* ride with a group of two riders; a ride whose route is changed.           *)
EXTENDS TripRoute, TLC

CONSTANTS i1, i2, d1, x1, x2

On(u, i) == [user |-> u, inst |-> i, at |-> "live"]
Day(parts, sockets, requests, fail) ==
  [parts |-> parts, sockets |-> sockets, requests |-> requests, faults |-> fail]

MCSockets == 1 .. 3
MCTraffics ==
  {Day({}, (1 :> On(d1, i2)) @@ (2 :> On(d1, i2)), 3, 1),
   Day({"market"}, 1 :> On(d1, i1), 3, 0),
   Day({"trip"}, (1 :> On(d1, i1)) @@ (2 :> On(x1, i2)), 2, 2),
   Day({"route"}, 1 :> On(d1, i1), 3, 1)}
=============================================================================

\* A rider's doings and the driver's are "requests"; restarts, publishes and
\* Redis commands that fail are "faults".
CONSTANTS
  i1 = i1
  i2 = i2
  d1 = d1
  x1 = x1
  x2 = x2
  Instances = {i1, i2}
  Consumer = i1
  Driver = d1
  Riders = {x1, x2}
  Anchor = x1
  Sockets <- MCSockets
  MaxWords = 2
  MaxPings = 2
  Places = {pa, pb}
  Via = pa
  To = pb
  MaxEvents = 3
  Traffics <- MCTraffics
  None = none
SPECIFICATION TripSpec
INVARIANTS
  MatchedIsSeen
  RouteRemembersTrip
PROPERTIES
  StalledRidersWarned
CHECK_DEADLOCK FALSE

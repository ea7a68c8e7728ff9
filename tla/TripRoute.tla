----------------------------- MODULE TripRoute ------------------------------
(* The stops of a ride under way: riders and drivers change the route and    *)
(* tick stops off over their sockets, ride-service rewrites the RideStop     *)
(* rows (syncRouteStops, completeNextStop, completeFinalStop), keeps a copy  *)
(* in memory for the pings, and the gateway pushes every new route.  The     *)
(* events of a ride are read in order, one at a time with its pings          *)
(* (concurrency 1); what was handled and not committed is handled again.     *)
EXTENDS Telemetry

CONSTANTS
  Places,     \* where a stop may be
  Via, To,    \* the stops the ride was booked with
  MaxEvents   \* bound on ride events not read

ASSUME TripRouteAssumption == {Via, To} \subseteq Places /\ MaxEvents \in Nat \ {0}

VARIABLES
  stops,      \* RideStop rows in stopOrder
  cached,     \* routeByRideId, or None
  events,     \* the ride's events that ride-service has not committed
  handling,   \* "idle", or what is left of the first event: "snapshot", "completed"
  rowStatus,  \* Ride.status
  snapshots,  \* RIDE_ROUTE_UPDATED events the gateway has not read
  shown,      \* the route the gateway pushed last
  visited     \* history: how often each place was ticked off

routeVars == <<stops, cached, events, handling, rowStatus, snapshots, shown, visited>>
allVars == <<telemetryVars, routeVars>>

Stop(place) == [at |-> place, final |-> FALSE, done |-> FALSE]
Final(place) == [at |-> place, final |-> TRUE, done |-> FALSE]
IsDone(stop) == stop.done
TickOff(route, k) == [route EXCEPT ![k].done = TRUE]

\* The stops that are done, in order.
Visited(route) ==
  LET upTo[n \in 0 .. Len(route)] ==
        IF n = 0 THEN <<>>
        ELSE IF IsDone(route[n]) THEN Append(upTo[n - 1], route[n]) ELSE upTo[n - 1]
  IN upTo[Len(route)]

\* buildRouteStops: what was completed stays, in front of the stops asked for.
WithoutVisited(route, via, to) == [k \in DOMAIN via |-> Stop(via[k])] \o <<Final(to)>>
Rebuilt(route, via, to) ==
  Visited(route) \o [k \in DOMAIN via |-> Stop(via[k])] \o <<Final(to)>>

Pending(route, final) == {k \in DOMAIN route : route[k].final = final /\ ~route[k].done}
First(S) == CHOOSE k \in S : \A l \in S : k <= l

(***************************************************************************)
(* The gateway publishes whatever it is asked, without a look at the ride.  *)
(***************************************************************************)

Publishes(e) ==
  /\ Act /\ Len(events) < MaxEvents
  /\ events' = Append(events, e)
  /\ UNCHANGED <<socketVars, marketVars, rideVars, faults, traffic, gpsVars>>
  /\ UNCHANGED <<stops, cached, handling, rowStatus, snapshots, shown, visited>>

UpdatesRoute ==
  \E via \in {<<>>} \cup {<<p>> : p \in Places}, to \in Places :
    Publishes([type |-> "update", via |-> via, to |-> to])

ConfirmsStop == Publishes([type |-> "confirm"])
EndsRide == Publishes([type |-> "end"])
Cancels == \E by \in {"rider", "driver"} : Publishes([type |-> "cancelled", by |-> by])

(***************************************************************************)
(* ride-service.                                                            *)
(***************************************************************************)

Handles(type) ==
  /\ events # <<>> /\ Head(events).type = type
  /\ handling = "idle" /\ reading = AtRest

Consumed == events' = Tail(events) /\ handling' = "idle"
\* syncRouteState: the copy follows the rows.
Synced(route) == cached' = route

Changes(route, next) ==
  /\ stops' = route /\ Synced(route)
  /\ handling' = next
  /\ UNCHANGED events

HandlesUpdate ==
  /\ Handles("update")
  /\ Changes(Rebuilt(stops, Head(events).via, Head(events).to), "snapshot")
  /\ UNCHANGED <<presenceVars, gpsVars, rowStatus, snapshots, shown, visited>>

\* The maps or the database refuse: the update is dropped.
SkipsUpdate ==
  /\ Fault /\ Handles("update")
  /\ Consumed
  /\ UNCHANGED <<socketVars, marketVars, rideVars, left, traffic, gpsVars>>
  /\ UNCHANGED <<stops, cached, rowStatus, snapshots, shown, visited>>

\* completeNextStop: the first stop on the way that is not done, if there is one.
HandlesConfirm ==
  /\ Handles("confirm")
  /\ LET open == Pending(stops, FALSE)
     IN IF open = {} THEN Consumed /\ UNCHANGED <<stops, cached, visited>>
        ELSE /\ Changes(TickOff(stops, First(open)), "snapshot")
             /\ visited' = [visited EXCEPT ![stops[First(open)].at] = @ + 1]
  /\ UNCHANGED <<presenceVars, gpsVars, rowStatus, snapshots, shown>>

\* RIDE_COMPLETION_REQUESTED of a ride that is not over by its row.
HandlesEnd ==
  /\ Handles("end")
  /\ LET open == Pending(stops, TRUE)
     IN IF rowStatus \in {"COMPLETED", "CANCELLED"}
        THEN Consumed /\ UNCHANGED <<stops, cached, visited>>
        ELSE IF open = {} THEN Changes(stops, "completed") /\ UNCHANGED visited
        ELSE /\ Changes(TickOff(stops, First(open)), "completed")
             /\ visited' = [visited EXCEPT ![stops[First(open)].at] = @ + 1]
  /\ UNCHANGED <<presenceVars, gpsVars, rowStatus, snapshots, shown>>

PublishesSnapshot ==
  /\ handling = "snapshot" /\ Consumed
  /\ snapshots' = Append(snapshots, stops)
  /\ UNCHANGED <<presenceVars, gpsVars, stops, cached, rowStatus, shown, visited>>

\* RIDE_COMPLETED goes to the end of the ride's own events.
PublishesCompleted ==
  /\ handling = "completed"
  /\ events' = Append(Tail(events), [type |-> "completed"]) /\ handling' = "idle"
  /\ UNCHANGED <<presenceVars, gpsVars, stops, cached, rowStatus, snapshots, shown,
                 visited>>

\* Either publish fails: logged, and the event is consumed.
PublishFails ==
  /\ Fault /\ handling # "idle" /\ Consumed
  /\ UNCHANGED <<socketVars, marketVars, rideVars, left, traffic, gpsVars>>
  /\ UNCHANGED <<stops, cached, rowStatus, snapshots, shown, visited>>

HandlesCompleted ==
  /\ Handles("completed") /\ Consumed
  /\ StateGoes /\ knows' = FALSE
  /\ cached' = None /\ rowStatus' = "COMPLETED"
  /\ UNCHANGED <<presenceVars, pings, reading, warnings, told, rideOver>>
  /\ UNCHANGED <<stops, snapshots, shown, visited>>

\* A driver's leaving puts the ride back into matching, unless it is over.
HandlesCancelled ==
  /\ Handles("cancelled") /\ Consumed
  /\ StateGoes /\ cached' = None
  /\ IF Head(events).by = "rider"
     THEN rowStatus' = "CANCELLED" /\ knows' = FALSE
     ELSE /\ rowStatus' = IF rowStatus \in {"COMPLETED", "CANCELLED"} THEN rowStatus
                          ELSE "MATCHING"
          /\ UNCHANGED knows
  /\ UNCHANGED <<presenceVars, pings, reading, warnings, told, rideOver>>
  /\ UNCHANGED <<stops, snapshots, shown, visited>>

\* getRouteStopsForRide, for the next stop a ping tells of: a copy when there is
\* none, and none when the rows cannot be read.
LoadsRoute == cached' = IF cached = None THEN stops ELSE cached
ReadsPingOnRoute ==
  /\ handling = "idle" /\ ReadsPing
  /\ LoadsRoute \/ UNCHANGED cached
  /\ UNCHANGED <<stops, events, handling, rowStatus, snapshots, shown, visited>>

\* The first event is delivered again.
RestartsOnRoute ==
  /\ ServiceRestarts
  /\ cached' = None /\ handling' = "idle"
  /\ UNCHANGED <<stops, events, rowStatus, snapshots, shown, visited>>

GatewayShows ==
  /\ snapshots # <<>>
  /\ shown' = Head(snapshots) /\ snapshots' = Tail(snapshots)
  /\ UNCHANGED <<presenceVars, gpsVars, stops, cached, events, handling, rowStatus,
                 visited>>

RouteStep ==
  \/ UpdatesRoute \/ ConfirmsStop \/ EndsRide \/ Cancels
  \/ HandlesUpdate \/ SkipsUpdate \/ HandlesConfirm \/ HandlesEnd
  \/ PublishesSnapshot \/ PublishesCompleted \/ PublishFails
  \/ HandlesCompleted \/ HandlesCancelled
  \/ ReadsPingOnRoute \/ RestartsOnRoute \/ GatewayShows
  \/ (LooksAtAge \/ \E s \in Sockets : SendsPing(s)) /\ UNCHANGED routeVars

\* A ride on its way to its one stop.
RouteInit ==
  /\ stops = <<Stop(Via), Final(To)>>
  /\ cached = stops /\ shown = stops
  /\ events = <<>> /\ handling = "idle" /\ snapshots = <<>>
  /\ rowStatus = "IN_PROGRESS"
  /\ visited = [p \in Places |-> 0]

TripInit == TelemetryInit /\ RouteInit

TripNext ==
  IF "route" \in traffic.parts THEN RouteStep
  ELSE TelemetryNext /\ UNCHANGED routeVars

\* Services get on, and time passes.
OnTrip(A) == "trip" \in traffic.parts /\ A /\ UNCHANGED routeVars
TripFairness ==
  /\ WF_allVars(OnTrip(ReadsPing \/ LooksAtAge \/ WarnsFromPing))
  /\ WF_allVars(OnTrip(MonitorTicks))
  /\ WF_allVars(OnTrip(MonitorWarns))
  /\ \A r \in Riders : SF_allVars(OnTrip(PushesWarning(r)))
  /\ WF_allVars(OnTrip(RedisServes(Consumer) /\ UNCHANGED gpsVars))
  /\ WF_allVars(OnTrip(WarningAges))

TripSpec == TripInit /\ [][TripNext]_allVars /\ TripFairness

-----------------------------------------------------------------------------

\* What was ticked off stays in the rows, whatever route is asked for afterwards.
VisitedStaysDone ==
  \A p \in Places :
    visited[p] = Cardinality({k \in DOMAIN stops : stops[k].at = p /\ stops[k].done})

\* The copy the pings are answered from is the rows'.
CopyIsTheRows == cached = None \/ cached = stops

\* When nothing failed and nothing is under way, the riders see the rows' route
\* (the arrival itself is not pushed as a route).
NothingFailed == faults = traffic.faults
Arrived(route) == [k \in DOMAIN route |-> [route[k] EXCEPT !.done = @ \/ route[k].final]]
ShownIsTheRows ==
  (NothingFailed /\ events = <<>> /\ snapshots = <<>>)
    => Arrived(shown) = Arrived(stops)

\* A route changed again and again while it is driven, by both sides at once and
\* through restarts, loses no stop that was ticked off, and pings and riders
\* are told of the route the rows hold (trip-lifecycle.handler.ts).
RouteRemembersTrip == VisitedStaysDone /\ CopyIsTheRows /\ ShownIsTheRows
=============================================================================

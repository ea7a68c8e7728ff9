----------------------------- MODULE Telemetry ------------------------------
(* A ride on the road: the driver's position pings, what ride-service makes  *)
(* of them (consumers/gps-update.consumer.ts), the monitor that looks for    *)
(* rides whose car stands still (handlers/gps-monitor.handler.ts), and the   *)
(* warnings their riders get over the sockets of Presence.  Ping and monitor *)
(* warn from the same state, each with awaits between its look and its mark. *)
EXTENDS Presence

CONSTANTS
  Anchor,    \* the rider of the ride row; the others ride along in a group
  MaxPings   \* bound on pings ride-service has not read

ASSUME TelemetryAssumption == Anchor \in Riders /\ MaxPings \in Nat \ {0}

VARIABLES
  gps,       \* RideGpsState: not moved for the window, warned within it; or None
  knows,     \* rideParticipantsByRideId has the ride
  pings,     \* GPS_UPDATE events not read
  reading,   \* the ping being handled
  tick,      \* the monitor's round
  warnings,  \* GPS_STALE_WARNING events the gateway has not read
  told,      \* history: riders pushed a warning since it was last due
  rideOver

gpsVars == <<gps, knows, pings, reading, tick, warnings, told, rideOver>>
telemetryVars == <<presenceVars, gpsVars>>

AtRest == [at |-> "idle"]
Mark == [gps EXCEPT !.warned = TRUE]
DueAgain == told' = {}

\* participantRiderIds, or the rider of the row when a restart emptied the map.
AnchorOnly == {Anchor}
ToWarn == IF knows THEN Riders ELSE {Anchor}

(***************************************************************************)
(* Pings.                                                                   *)
(***************************************************************************)

\* A ping tells of a move of 50 m, of less, or something that cannot be believed:
\* too inaccurate, or too fast (detectGpsInconsistency).
Kinds == {"moves", "stands", "bad"}

\* A late one comes after the ride is over.
SendsPing(s) ==
  /\ Over(s) /\ Len(pings) < MaxPings
  /\ \E kind \in Kinds : pings' = Append(pings, kind)
  /\ UNCHANGED <<socketVars, marketVars, rideVars, faults, traffic>>
  /\ UNCHANGED <<gps, knows, reading, tick, warnings, told, rideOver>>

\* upsertRideGpsState: only a move ends the standing still.
Upserted(kind) ==
  IF gps = None THEN [stale |-> FALSE, warned |-> FALSE]
  ELSE [gps EXCEPT !.stale = @ /\ kind # "moves"]

\* A believable ping replaces the state object, so that a monitor's round is
\* left with the old one; GPS_PROCESSED is published from the new one.
ReadsPing ==
  /\ pings # <<>> /\ reading = AtRest
  /\ LET kind == Head(pings)
         new == gps = None \/ kind # "bad"
         next == Upserted(kind)
     IN /\ gps' = next
        /\ reading' = [at |-> "looks", stale |-> next.stale]
        /\ tick' = IF tick # AtRest /\ new THEN [tick EXCEPT !.same = FALSE] ELSE tick
  /\ pings' = Tail(pings)
  /\ UNCHANGED <<presenceVars, knows, warnings, told, rideOver>>

Warns(to) == reading' = [at |-> "warns", to |-> to]
LooksAtAge ==
  /\ reading # AtRest /\ reading.at = "looks"
  /\ IF reading.stale /\ gps # None /\ ~gps.warned THEN Warns(ToWarn)
     ELSE reading' = AtRest
  /\ UNCHANGED <<presenceVars, gps, knows, pings, tick, warnings, told, rideOver>>

\* One event per rider; the mark comes after the last.
WarnsFromPing ==
  /\ reading # AtRest /\ reading.at = "warns"
  /\ \E r \in reading.to :
       /\ warnings' = warnings \cup {r}
       /\ IF reading.to = {r} THEN reading' = AtRest /\ gps' = Mark
          ELSE Warns(reading.to \ {r}) /\ UNCHANGED gps
  /\ UNCHANGED <<presenceVars, knows, pings, tick, told, rideOver>>

\* A publish fails: the ping is consumed all the same, and nothing marked.
PingFails ==
  /\ Fault /\ reading # AtRest
  /\ reading' = AtRest
  /\ UNCHANGED <<socketVars, marketVars, rideVars, left, traffic>>
  /\ UNCHANGED <<gps, knows, pings, tick, warnings, told, rideOver>>

(***************************************************************************)
(* The monitor's round, for this ride.                                      *)
(***************************************************************************)

MonitorTicks ==
  /\ tick = AtRest
  /\ gps # None /\ gps.stale /\ ~gps.warned
  /\ tick' = [at |-> "warns", to |-> ToWarn, same |-> TRUE]
  /\ UNCHANGED <<presenceVars, gps, knows, pings, reading, warnings, told,
                 rideOver>>

\* The mark goes on the state the round began with.
MonitorWarns ==
  /\ tick # AtRest
  /\ \E r \in tick.to :
       /\ warnings' = warnings \cup {r}
       /\ IF tick.to = {r}
          THEN tick' = AtRest /\ gps' = IF tick.same THEN Mark ELSE gps
          ELSE tick' = [tick EXCEPT !.to = @ \ {r}] /\ UNCHANGED gps
  /\ UNCHANGED <<presenceVars, knows, pings, reading, told, rideOver>>

MonitorFails ==
  /\ Fault /\ tick # AtRest
  /\ tick' = AtRest
  /\ UNCHANGED <<socketVars, marketVars, rideVars, left, traffic>>
  /\ UNCHANGED <<gps, knows, pings, reading, warnings, told, rideOver>>

(***************************************************************************)
(* Time, the end of the ride, restarts.                                     *)
(***************************************************************************)

\* Five minutes without a move.
WindowPasses ==
  /\ gps # None /\ ~gps.stale
  /\ gps' = [gps EXCEPT !.stale = TRUE]
  /\ DueAgain
  /\ UNCHANGED <<presenceVars, knows, pings, reading, tick, warnings, rideOver>>

\* Five minutes since the last warning.
WarningAges ==
  /\ gps # None /\ gps.warned
  /\ gps' = [gps EXCEPT !.warned = FALSE]
  /\ DueAgain
  /\ UNCHANGED <<presenceVars, knows, pings, reading, tick, warnings, rideOver>>

\* RIDE_COMPLETED: the state goes, until a late ping makes another.
StateGoes ==
  /\ gps' = None
  /\ tick' = IF tick = AtRest THEN AtRest ELSE [tick EXCEPT !.same = FALSE]

RideEnds ==
  /\ ~rideOver /\ rideOver' = TRUE /\ reading = AtRest /\ Act
  /\ StateGoes /\ knows' = FALSE
  /\ UNCHANGED <<socketVars, marketVars, rideVars, faults, traffic>>
  /\ UNCHANGED <<pings, reading, warnings, told>>

ServiceRestarts ==
  /\ Fault
  /\ gps' = None /\ knows' = FALSE
  /\ reading' = AtRest /\ tick' = AtRest
  /\ UNCHANGED <<socketVars, marketVars, rideVars, left, traffic>>
  /\ UNCHANGED <<pings, warnings, told, rideOver>>

\* handleComplianceEvent of the gateway, one event after another.
Pushing == \E k \in DOMAIN cmds[Consumer] : cmds[Consumer][k].op = "smembers"

PushesWarning(r) ==
  /\ r \in warnings /\ ~Pushing
  /\ warnings' = warnings \ {r}
  /\ told' = told \cup {r}
  /\ SendToUser(Consumer, r, "stale_warning")
  /\ UNCHANGED <<marketVars, rideVars, left, faults, traffic>>
  /\ UNCHANGED <<gps, knows, pings, reading, tick, rideOver>>

TelemetryInit ==
  /\ PresenceInit
  /\ gps = None /\ knows = TRUE /\ pings = <<>>
  /\ reading = AtRest /\ tick = AtRest
  /\ warnings = {} /\ told = {} /\ rideOver = FALSE

ServiceStep ==
  \/ ReadsPing \/ LooksAtAge \/ WarnsFromPing
  \/ MonitorTicks \/ MonitorWarns
  \/ \E r \in Riders : PushesWarning(r)

TripStep ==
  \/ \E s \in Sockets : SendsPing(s)
  \/ ServiceStep \/ PingFails \/ MonitorFails
  \/ WindowPasses \/ WarningAges \/ RideEnds \/ ServiceRestarts

TelemetryNext ==
  \/ "trip" \in traffic.parts /\ TripStep
  \/ (IF "trip" \in traffic.parts THEN SocketStep ELSE PresenceStep)
       /\ UNCHANGED gpsVars

-----------------------------------------------------------------------------

\* While the car of a ride stands still, every rider in it is warned, through
\* publishes that fail half-way and pings that replace the state a round of the
\* monitor is marking ("so group passengers are not left in the dark",
\* gps-monitor.handler.ts).
StalledRidersWarned ==
  \A r \in Riders :
    (gps # None /\ knows /\ gps.stale /\ r \notin told)
      ~> (r \in told \/ gps = None \/ ~knows \/ ~gps.stale)
=============================================================================

------------------------------ MODULE Presence ------------------------------
(* Who is connected, and what that means for a driver on the market: the     *)
(* sockets of the gateway's instances (websocket/server.ts), the registry    *)
(* that relays a message to the other instances of its user through Redis    *)
(* (websocket/registry.ts), the grace a driver's dead socket gets, and the   *)
(* two ways an assigned ride reaches the driver: the push and, for who was   *)
(* not connected, the resync of a new socket (websocket/driver-ride-sync.ts).*)
(* One driver with one open bid and the ride it may win.                     *)
EXTENDS Integers, FiniteSets, Sequences

CONSTANTS
  Instances,  \* processes of the gateway
  Consumer,   \* the instance that reads the events of this ride
  Driver, Riders,
  Sockets,    \* 1..n, used in order
  MaxWords,   \* bound on announcements ride-service has not read yet
  Traffics,   \* what happens: Presence's part ("match", "market"), Telemetry's
              \* ("trip"), and how many requests and faults
  None

ASSUME PresenceAssumption ==
  /\ Consumer \in Instances
  /\ Sockets = 1 .. Cardinality(Sockets)
  /\ MaxWords \in Nat \ {0}
  /\ Driver \notin Riders /\ None \notin Riders \cup {Driver}
  /\ \A t \in Traffics :
       /\ t.requests \in Nat /\ t.faults \in Nat
       /\ DOMAIN t.sockets \subseteq Sockets
       /\ \A s \in DOMAIN t.sockets :
            t.sockets[s] \in [user : Riders \cup {Driver}, inst : Instances, at : {"live"}]

VARIABLES
  sock,      \* socket -> whose, at which instance, how far
  redis,     \* user -> instances Redis lists for it
  cmds,      \* instance -> commands on its Redis connection, in order
  relays,    \* messages published to an instance's channel
  heard,     \* socket -> the messages it received
  resync,    \* socket -> its resync: "none", "find", "send", "done", "failed"
  timer,     \* instances where the driver's grace is running
  leaving,   \* the withdrawal of the driver's bids: "no", "find", "update"
  words,     \* DRIVER_ONLINE, DRIVER_OFFLINE for ride-service
  driverStatus,    \* Driver.status
  seen,      \* lastSeenAt is recent
  bid,       \* DriverBid.status
  trip,      \* the ride: "none", "checked", "chosen", "over"
  written,   \* ride-service wrote the assignment
  push,      \* the gateway's ride:matched: "no", "due", "sent"
  excused,   \* history: the push came before the row, or a command of it failed
  left,      \* people's doings still to come
  faults,
  traffic

socketVars == <<sock, redis, cmds, relays, heard>>
marketVars == <<timer, leaving, words, driverStatus, seen, bid>>
rideVars == <<resync, trip, written, push, excused>>
presenceVars == <<socketVars, marketVars, rideVars, left, faults, traffic>>

Users == {Driver} \cup Riders
Unused == [user |-> None, inst |-> None, at |-> "new"]

\* The registry's maps hold a socket from the upgrade until its close or error
\* is heard.  A socket that dies before its listeners are attached ("deaf") is
\* never heard of and stays.
Listed(s) == sock[s].at \in {"joining", "live", "cut", "deaf"}
Alive(s) == sock[s].at \in {"joining", "live"}
SocketsOf(i, u) == {s \in Sockets : sock[s].user = u /\ sock[s].inst = i}
HasUser(i, u) == \E s \in SocketsOf(i, u) : Listed(s)
Moves(s, step) == [sock EXCEPT ![s].at = step]

\* Commands are written in order on one connection and answered in order.
Command(i, c) == cmds' = [cmds EXCEPT ![i] = Append(@, c)]

Act == left > 0 /\ left' = left - 1
Fault == faults > 0 /\ faults' = faults - 1

(***************************************************************************)
(* A socket comes.  It is in the maps at once; it gets its listeners, ends  *)
(* the grace and starts its resync when Redis has answered.                 *)
(***************************************************************************)

Connects(i, u) ==
  /\ Act
  /\ \E s \in Sockets :
       /\ sock[s] = Unused /\ \A t \in Sockets : t < s => sock[t] # Unused
       /\ sock' = [sock EXCEPT ![s] = [user |-> u, inst |-> i, at |-> "joining"]]
       /\ Command(i, [op |-> "sadd", user |-> u, sock |-> s])
  /\ UNCHANGED <<redis, relays, heard, marketVars, rideVars, faults, traffic>>

Joined(s) ==
  /\ sock' = IF sock[s].at = "joining" THEN Moves(s, "live") ELSE sock
  /\ IF sock[s].user = Driver
     THEN /\ timer' = timer \ {sock[s].inst}
          /\ resync' = [resync EXCEPT ![s] = "find"]
     ELSE UNCHANGED <<timer, resync>>

\* Redis answers an instance's next command: sendToUser, which had to know the
\* instances of its user, publishes to the others.
RedisServes(i) ==
  /\ cmds[i] # <<>>
  /\ LET c == Head(cmds[i])
         u == c.user
     IN /\ redis' = [redis EXCEPT ![u] =
             CASE c.op = "sadd" -> @ \cup {i}
               [] c.op = "srem" -> @ \ {i}
               [] OTHER -> @]
        /\ IF c.op = "sadd" THEN Joined(c.sock)
           ELSE UNCHANGED <<sock, timer, resync>>
        /\ relays' = IF c.op = "smembers"
             THEN relays \cup {[to |-> j, user |-> u, msg |-> c.msg] :
                                 j \in redis[u] \ {i}}
             ELSE relays
  /\ cmds' = [cmds EXCEPT ![i] = Tail(@)]
  /\ UNCHANGED <<heard, leaving, words, driverStatus, seen, bid, trip, written, push,
                 excused, left, faults, traffic>>

\* A command fails: the socket that was registering is closed, and nobody
\* listens to its close; a message is not relayed; an srem is lost.
RedisFails(i) ==
  /\ Fault /\ cmds[i] # <<>>
  /\ LET c == Head(cmds[i])
     IN /\ sock' = IF c.op = "sadd" THEN Moves(c.sock, "deaf") ELSE sock
        /\ excused' = (excused \/ (c.op = "smembers" /\ c.user = Driver))
  /\ cmds' = [cmds EXCEPT ![i] = Tail(@)]
  /\ UNCHANGED <<redis, relays, heard, marketVars, resync, trip, written, push,
                 left, traffic>>

(***************************************************************************)
(* A message for a user: to its sockets here, then to the other instances.  *)
(***************************************************************************)

Delivered(i, u, msg) ==
  [s \in Sockets |-> IF s \in SocketsOf(i, u) /\ Alive(s)
                     THEN heard[s] \cup {msg} ELSE heard[s]]

SendToUser(i, u, msg) ==
  /\ heard' = Delivered(i, u, msg)
  /\ Command(i, [op |-> "smembers", user |-> u, msg |-> msg])
  /\ UNCHANGED <<sock, redis, relays>>

RelayArrives ==
  /\ \E m \in relays :
       /\ relays' = relays \ {m}
       /\ heard' = Delivered(m.to, m.user, m.msg)
  /\ UNCHANGED <<sock, redis, cmds, marketVars, rideVars, left, faults, traffic>>

(***************************************************************************)
(* A socket dies: cut by the network, the phone or the idle timeout, then   *)
(* heard of by its close, or by an error first.                             *)
(***************************************************************************)

Drops(s) ==
  /\ Alive(s) /\ Act
  /\ sock' = Moves(s, IF sock[s].at = "live" THEN "cut" ELSE "deaf")
  /\ UNCHANGED <<redis, cmds, relays, heard, marketVars, rideVars, faults,
                 traffic>>

LastAlways(s) == TRUE
\* The last connection of its user at its instance.
LastOf(s) == \A t \in SocketsOf(sock[s].inst, sock[s].user) \ {s} : ~Listed(t)

Unregisters(s) ==
  /\ sock[s].at = "cut"
  /\ sock' = Moves(s, "over")
  /\ IF LastOf(s)
     THEN Command(sock[s].inst, [op |-> "srem", user |-> sock[s].user])
     ELSE UNCHANGED cmds

HearsClose(s) ==
  /\ Unregisters(s)
  /\ timer' = IF sock[s].user = Driver THEN timer \cup {sock[s].inst} ELSE timer
  /\ UNCHANGED <<redis, relays, heard, leaving, words, driverStatus, seen, bid,
                 rideVars, left, faults, traffic>>

\* The close that follows an error finds the socket gone: no grace is started.
HearsError(s) ==
  /\ Unregisters(s)
  /\ UNCHANGED <<redis, relays, heard, marketVars, rideVars, left, faults,
                 traffic>>

(***************************************************************************)
(* The market.  Ride-service reads a driver's announcements in order.       *)
(***************************************************************************)

Announces(word) == Len(words) < MaxWords /\ words' = Append(words, word)

TakesOff(i) == ~HasUser(i, Driver)

\* The grace ends.
TimerFires(i) ==
  /\ i \in timer
  /\ timer' = timer \ {i}
  /\ IF TakesOff(i)
     THEN Announces("OFFLINE") /\ leaving = "no" /\ leaving' = "find"
     ELSE UNCHANGED <<words, leaving>>
  /\ UNCHANGED <<driverStatus, seen, bid, socketVars, rideVars, left, faults, traffic>>

Over(s) == sock[s].user = Driver /\ sock[s].at = "live" /\ Act

GoesOnline(s) ==
  /\ Over(s) /\ Announces("ONLINE")
  /\ UNCHANGED <<timer, leaving, driverStatus, seen, bid, socketVars, rideVars, faults,
                 traffic>>

\* Off at once: the answer is sent, then the grace is cancelled and the bids go.
GoesOffline(s) ==
  /\ Over(s) /\ Announces("OFFLINE")
  /\ timer' = timer \ {sock[s].inst}
  /\ leaving = "no" /\ leaving' = "find"
  /\ UNCHANGED <<driverStatus, seen, bid, socketVars, rideVars, faults, traffic>>

\* A ping without a ride, over the socket or in the background over HTTP.
Pings ==
  /\ Act
  /\ seen' = TRUE
  /\ UNCHANGED <<timer, leaving, words, driverStatus, bid, socketVars, rideVars, faults,
                 traffic>>

Bids(s) ==
  /\ Over(s) /\ trip = "none" /\ bid # "PENDING"
  /\ bid' = "PENDING"
  /\ UNCHANGED <<timer, leaving, words, driverStatus, seen, socketVars, rideVars,
                 faults, traffic>>

\* withdrawAllPendingForDriver reads the open bids, then writes those rows
\* whatever they have become, and their riders are told.
FindsBids ==
  /\ leaving = "find"
  /\ leaving' = IF bid = "PENDING" THEN "update" ELSE "no"
  /\ UNCHANGED <<timer, words, driverStatus, seen, bid, socketVars, rideVars, left,
                 faults, traffic>>

WithdrawsBids ==
  /\ leaving = "update" /\ leaving' = "no"
  /\ bid' = "WITHDRAWN"
  /\ \E i \in Instances, r \in Riders : SendToUser(i, r, "driver_rejected")
  /\ UNCHANGED <<timer, words, driverStatus, seen, rideVars, left, faults, traffic>>

\* markOnline, markOffline: both say the driver was just seen.
ServiceHears ==
  /\ words # <<>>
  /\ words' = Tail(words)
  /\ driverStatus' = Head(words)
  /\ seen' = TRUE
  /\ UNCHANGED <<timer, leaving, bid, socketVars, rideVars, left, faults, traffic>>

GoesUnseen ==
  /\ seen /\ seen' = FALSE
  /\ UNCHANGED <<timer, leaving, words, driverStatus, bid, socketVars, rideVars, left,
                 faults, traffic>>

(***************************************************************************)
(* The ride.  The rider takes the bid: the driver is checked, the fare held,*)
(* the acceptance published.  Ride-service writes the assignment and the    *)
(* gateway pushes it, each when it reads the event.                         *)
(***************************************************************************)

\* In the market: online, lately seen, on no ride.  A rider may name no bid, so
\* its status does not matter.
RiderChecks ==
  /\ trip = "none" /\ Act
  /\ driverStatus = "ONLINE" /\ seen
  /\ trip' = "checked"
  /\ UNCHANGED <<resync, written, push, excused, socketVars, marketVars, faults,
                 traffic>>

RiderRefused ==
  /\ trip = "none" /\ Act
  /\ ~(driverStatus = "ONLINE" /\ seen)
  /\ bid' = IF bid = "PENDING" THEN "WITHDRAWN" ELSE bid
  /\ UNCHANGED <<timer, leaving, words, driverStatus, seen, socketVars, rideVars, faults,
                 traffic>>

RiderAccepts ==
  /\ trip = "checked" /\ trip' \in {"chosen", "none"}
  /\ UNCHANGED <<resync, written, push, excused, socketVars, marketVars, left,
                 faults, traffic>>

ServiceAssigns ==
  /\ trip = "chosen" /\ ~written /\ written' = TRUE
  /\ driverStatus' = "ON_RIDE" /\ seen' = TRUE
  /\ UNCHANGED <<timer, leaving, words, bid, resync, trip, push, excused,
                 socketVars, left, faults, traffic>>

GatewayAssigned ==
  /\ trip = "chosen" /\ push = "no" /\ push' = "due"
  /\ bid' = "ACCEPTED"
  /\ UNCHANGED <<timer, leaving, words, driverStatus, seen, resync, trip, written,
                 excused, socketVars, left, faults, traffic>>

PushesMatch ==
  /\ push = "due" /\ push' = "sent"
  /\ SendToUser(Consumer, Driver, "matched")
  /\ excused' = (excused \/ ~written)
  /\ UNCHANGED <<resync, trip, written, marketVars, left, faults, traffic>>

\* resyncDriverActiveRide of a new socket: the ride is looked up, then sent.
ResyncFinds(s) ==
  /\ resync[s] = "find"
  /\ resync' = [resync EXCEPT ![s] =
       IF written /\ trip = "chosen" THEN "send" ELSE "done"]
  /\ UNCHANGED <<trip, written, push, excused, socketVars, marketVars, left,
                 faults, traffic>>

\* The lookup fails: nothing is sent, and nobody tries again on this socket.
ResyncFails(s) ==
  /\ Fault /\ resync[s] = "find"
  /\ resync' = [resync EXCEPT ![s] = "failed"]
  /\ UNCHANGED <<trip, written, push, excused, socketVars, marketVars, left, traffic>>

ResyncSends(s) ==
  /\ resync[s] = "send"
  /\ resync' = [resync EXCEPT ![s] = "done"]
  /\ heard' = IF Alive(s) THEN [heard EXCEPT ![s] = @ \cup {"matched"}] ELSE heard
  /\ UNCHANGED <<sock, redis, cmds, relays, trip, written, push, excused,
                 marketVars, left, faults, traffic>>

\* The ride completes or is cancelled: the driver is ONLINE again, whatever it
\* announced meanwhile.
TripEnds ==
  /\ trip = "chosen" /\ written /\ Act
  /\ trip' = "over"
  /\ driverStatus' = "ONLINE" /\ seen' = TRUE
  /\ UNCHANGED <<timer, leaving, words, bid, resync, written, push, excused,
                 socketVars, faults, traffic>>

\* An instance restarts: its sockets, timers and commands are gone; it comes
\* back under another name, which no user has.  A push it was busy with is made
\* again, for the event was not committed.
Restarts(i) ==
  /\ Fault
  /\ sock' = [s \in Sockets |-> IF sock[s].inst = i THEN [sock[s] EXCEPT !.at = "over"]
                                ELSE sock[s]]
  /\ redis' = [u \in Users |-> redis[u] \ {i}]
  /\ relays' = {m \in relays : m.to # i}
  /\ timer' = timer \ {i}
  /\ push' = IF i = Consumer /\ \E k \in DOMAIN cmds[i] :
                                  cmds[i][k].op = "smembers" /\ cmds[i][k].user = Driver
             THEN "due" ELSE push
  /\ cmds' = [cmds EXCEPT ![i] = <<>>]
  /\ resync' = [s \in Sockets |-> IF sock[s].inst = i THEN "none" ELSE resync[s]]
  /\ UNCHANGED <<heard, leaving, words, driverStatus, seen, bid, trip, written, excused,
                 left, traffic>>

PresenceInit ==
  /\ traffic \in Traffics
  /\ sock = [s \in Sockets |-> IF s \in DOMAIN traffic.sockets
                               THEN traffic.sockets[s] ELSE Unused]
  /\ redis = [u \in Users |-> {sock[s].inst : s \in {t \in Sockets : sock[t].user = u}}]
  /\ cmds = [i \in Instances |-> <<>>]
  /\ relays = {}
  /\ heard = [s \in Sockets |-> {}]
  /\ resync = [s \in Sockets |-> IF sock[s] = Unused THEN "none" ELSE "done"]
  /\ timer = {} /\ leaving = "no" /\ words = <<>>
  /\ driverStatus = "ONLINE" /\ seen = TRUE
  /\ bid = "PENDING"
  /\ trip = "none" /\ written = FALSE /\ push = "no" /\ excused = FALSE
  /\ left = traffic.requests /\ faults = traffic.faults

\* What happens to sockets, whatever the traffic.
SocketStep ==
  \/ RelayArrives
  \/ \E i \in Instances : RedisServes(i) \/ RedisFails(i) \/ Restarts(i)
  \/ \E s \in Sockets : Drops(s) \/ HearsClose(s) \/ HearsError(s)

PresenceStep ==
  \/ SocketStep
  \/ \E i \in Instances : Connects(i, Driver) \/ TimerFires(i)
  \/ \E s \in Sockets : ResyncFinds(s) \/ ResyncFails(s) \/ ResyncSends(s)
  \/ /\ "market" \in traffic.parts
     /\ \/ \E s \in Sockets : GoesOnline(s) \/ GoesOffline(s) \/ Bids(s)
        \/ Pings \/ GoesUnseen \/ TripEnds \/ RiderRefused
  \/ FindsBids \/ WithdrawsBids \/ ServiceHears
  \/ RiderChecks \/ RiderAccepts \/ ServiceAssigns \/ GatewayAssigned
  \/ PushesMatch

-----------------------------------------------------------------------------

\* A connected driver has been shown the ride it won once its socket has caught
\* up, on whichever instance and however sockets came, went and overlapped,
\* except when the gateway pushed before ride-service wrote the assignment,
\* Redis failed it, or the lookup that was to catch the socket up failed
\* (registry.ts, driver-ride-sync.ts).
OnItsWay(i) ==
  \/ push # "sent"
  \/ \E k \in DOMAIN cmds[Consumer] : cmds[Consumer][k].op = "smembers"
  \/ \E m \in relays : m.to = i

MatchedIsSeen ==
  \A s \in Sockets :
    (/\ sock[s].user = Driver /\ sock[s].at = "live" /\ resync[s] = "done"
     /\ trip = "chosen" /\ written /\ ~excused
     /\ ~OnItsWay(sock[s].inst))
      => "matched" \in heard[s]
=============================================================================

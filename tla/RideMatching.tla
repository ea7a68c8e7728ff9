---------------------------- MODULE RideMatching ----------------------------
(***************************************************************************)
(* Finding a driver: one ride's events on the ride.events topic, and the   *)
(* three consumer groups that act on them at their own pace.               *)
(*                                                                         *)
(*   ride     ride-service: ride-requested.consumer.ts, then               *)
(*            trip-lifecycle.handler.ts.  Keeps the auction in memory and  *)
(*            the ride and driver rows in the database.                    *)
(*   gateway  api-gateway/src/kafka/consumer.ts: bids, the ride hold, and  *)
(*            what the apps of rider and drivers show.                     *)
(*   wallet   wallet-service/src/consumers/ride-events.consumer.ts: the    *)
(*            ride hold again.                                             *)
(*                                                                         *)
(* ride.events is keyed by rideId, so a group sees the events of a ride in *)
(* order.  Offsets are committed after the handler: a service that dies in *)
(* between handles the event again, and ride-service has lost its memory.  *)
(* Solo rides paid from the wallet; the hold is one row here, its          *)
(* transactions are RideHolds.                                             *)
(***************************************************************************)
EXTENDS Naturals, Sequences, FiniteSets

CONSTANTS
    Rides,
    Drivers,
    NoDriver,       \* the driverId of an event or a row that has none
    Crashing,       \* consumer groups whose service may die
    FlowBookings,   \* BOOLEAN: riders may accept in the WhatsApp Flow screen
    WalletFails,    \* BOOLEAN: a release or a settlement of a hold may fail
    MaxMessages,    \* bound on what rider and drivers send for a ride
    MaxQueue,       \* bound on events waiting for a group
    MaxCrashes      \* bound on crashes

ASSUME RideMatchingAssumption ==
    /\ NoDriver \notin Drivers
    /\ Crashing \subseteq {"ride", "gateway", "wallet"}
    /\ {FlowBookings, WalletFails} \subseteq BOOLEAN
    /\ {MaxMessages, MaxQueue, MaxCrashes} \subseteq Nat

VARIABLES
    status,         \* Ride.status ("NONE": no row yet)
    driver,         \* Ride.driverId
    market,         \* Driver.status
    bid,            \* DriverBid.status of each ride and driver
    hold,           \* RideHold.status of each ride
    queue,          \* the events of a ride each group has not handled yet
    pending,        \* ride-service memory: the PendingRideMatch of a ride
    timer,          \* its timeout: "off", "first" arming, "again", "fired"
    aged,           \* rides whose createdAt is past the sweep's cutoff
    accepts,        \* rider acceptances inside the gateway
    rider,          \* what the rider's app shows
    card,           \* what each driver's app shows for the ride
    sent,           \* messages of rider and drivers, for the bound
    crashes,        \* crashes so far, for the bound
    lapsed          \* how each ride was given up so far, or accepted unpaid;
                    \* and then held for by an acceptance that got no further

rows == <<status, driver, market>>
memory == <<pending, timer>>
apps == <<rider, card>>
vars == <<rows, bid, hold, queue, memory, aged, accepts, apps, sent, crashes, lapsed>>

Groups == {"ride", "gateway", "wallet"}
Live == {"DRIVER_ASSIGNED", "ARRIVED", "IN_PROGRESS"}
Statuses == {"NONE", "MATCHING", "COMPLETED", "CANCELLED"} \cup Live
Bids == {"NONE", "PENDING", "ACCEPTED", "LOST", "EXPIRED", "CANCELLED", "WITHDRAWN"}
Holds == {"NONE", "ACTIVE", "RELEASED", "CHARGED"}

EventTypes == {"REQUESTED", "COUNTER_OFFER", "RIDER_COUNTER", "OFFER_ACCEPTED",
               "REJECTED", "ASSIGNED", "ARRIVED", "STARTED", "COMPLETION_REQUESTED",
               "COMPLETED", "CANCELLED_BY_RIDER", "CANCELLED_BY_DRIVER", "BID_TIMEOUT"}
Events == [type : EventTypes, driver : Drivers \cup {NoDriver}]

(* The events a group does something with; the others it skips. *)
Handles(g) ==
    CASE g = "ride" -> EventTypes
      [] g = "gateway" -> {"REJECTED", "ASSIGNED", "COMPLETED", "CANCELLED_BY_RIDER",
                           "CANCELLED_BY_DRIVER", "BID_TIMEOUT"}
      [] g = "wallet" -> {"ASSIGNED", "COMPLETED", "CANCELLED_BY_RIDER",
                          "CANCELLED_BY_DRIVER"}

Matches == [on : BOOLEAN, candidates : SUBSET Drivers, attempted : SUBSET Drivers]
NoMatch == [on |-> FALSE, candidates |-> {}, attempted |-> {}]

Init ==
    /\ status = [r \in Rides |-> "NONE"]
    /\ driver = [r \in Rides |-> NoDriver]
    /\ market = [d \in Drivers |-> "ONLINE"]
    /\ bid = [r \in Rides |-> [d \in Drivers |-> "NONE"]]
    /\ hold = [r \in Rides |-> "NONE"]
    /\ queue = [g \in Groups |-> [r \in Rides |-> <<>>]]
    /\ pending = [r \in Rides |-> NoMatch]
    /\ timer = [r \in Rides |-> "off"]
    /\ aged = {}
    /\ accepts = {}
    /\ rider = [r \in Rides |-> "idle"]
    /\ card = [r \in Rides |-> [d \in Drivers |-> "none"]]
    /\ sent = [r \in Rides |-> 0]
    /\ crashes = 0
    /\ lapsed = {}

-----------------------------------------------------------------------------
(***************************************************************************)
(* The topic                                                               *)
(***************************************************************************)
Event(type, d) == [type |-> type, driver |-> d]

Published(q, r, e) ==
    [g \in Groups |-> IF e.type \in Handles(g)
                      THEN [q[g] EXCEPT ![r] = Append(@, e)] ELSE q[g]]

Publish(r, e) == queue' = Published(queue, r, e)
Room(r) == \A g \in Groups : Len(queue[g][r]) < MaxQueue

GivesUp == {"CANCELLED_BY_RIDER", "CANCELLED_BY_DRIVER", "BID_TIMEOUT"}
Lapses(r, e) == lapsed' = IF e.type \in GivesUp THEN lapsed \cup {<<r, e.type>>} ELSE lapsed

(* A message from an app: the gateway publishes the event it stands for. *)
Send(r, e) ==
    /\ sent[r] < MaxMessages /\ Room(r)
    /\ sent' = [sent EXCEPT ![r] = @ + 1]
    /\ Publish(r, e)
    /\ Lapses(r, e)
    /\ UNCHANGED <<rows, hold, memory, aged, accepts, crashes>>

(* Group g takes the next event of a ride, which is of type t, and         *)
(* publishes out.  With crash, it dies after the handler and before the    *)
(* offset is committed.                                                    *)
Takes(g, r, t, out, crash) ==
    /\ queue[g][r] # <<>> /\ Head(queue[g][r]).type = t
    /\ LET kept == IF crash THEN queue ELSE [queue EXCEPT ![g][r] = Tail(@)]
       IN  queue' = IF out = <<>> THEN kept ELSE Published(kept, r, Head(out))
    /\ crash => g \in Crashing /\ crashes < MaxCrashes
    /\ crashes' = IF crash THEN crashes + 1 ELSE crashes

TakenBy(g, r) == Head(queue[g][r]).driver

-----------------------------------------------------------------------------
(***************************************************************************)
(* Faulty variants, each one slip in the code it stands for.               *)
(***************************************************************************)
StaleInMemory(r) == status[r] = "MATCHING" /\ r \in aged /\ pending[r].on
SecuredLater(r, d) == UNCHANGED hold
ReleaseMatchedOnly(r) ==
    hold' = IF hold[r] = "ACTIVE" /\ status[r] # "MATCHING"
            THEN [hold EXCEPT ![r] = "RELEASED"] ELSE hold

(***************************************************************************)
(* ride-service                                                            *)
(***************************************************************************)
(* findNearby: the drivers who are ONLINE in the database. *)
Nearby(r, leaver) == {d \in Drivers : market[d] = "ONLINE"} \ {leaver}

(* The memory after a handler: the new entry of the ride, or nothing left. *)
Remember(r, match, armed, crash) ==
    IF crash
    THEN /\ pending' = [s \in Rides |-> NoMatch]
         /\ timer' = [s \in Rides |-> "off"]
    ELSE /\ pending' = [pending EXCEPT ![r] = match]
         /\ timer' = [timer EXCEPT ![r] = armed]

(* Faulty: the match goes, its clock does not. *)
ForgetMatch(r, crash) == Remember(r, NoMatch, timer[r], crash)

Forget(r, crash) == Remember(r, NoMatch, "off", crash)
Keep(r, crash) == Remember(r, pending[r], timer[r], crash)

Offer(r, shownTo) ==
    card' = [card EXCEPT ![r] = [d \in Drivers |->
                IF d \in shownTo /\ @[d] = "none" THEN "offer" ELSE @[d]]]

RideLeaves == <<bid, hold, aged, accepts, rider, sent>>

(* handleRideRequested: create, or reset to MATCHING when the row exists. *)
RideRequested(r, crash) ==
    /\ Takes("ride", r, "REQUESTED", <<>>, crash)
    /\ status' = [status EXCEPT ![r] = "MATCHING"]
    /\ LET found == Nearby(r, NoDriver)
           match == IF found = {} /\ pending[r].on THEN pending[r]
                    ELSE [on |-> TRUE, candidates |-> found, attempted |-> {}]
       IN  /\ Remember(r, match, "first", crash)
           /\ Offer(r, found)
    /\ UNCHANGED <<driver, market, lapsed, RideLeaves>>

(* handleCounterOffer stops the clock and does not start it again. *)
CounterOffer(r, crash) ==
    /\ Takes("ride", r, "COUNTER_OFFER", <<>>, crash)
    /\ Remember(r, pending[r], IF pending[r].on THEN "off" ELSE timer[r], crash)
    /\ UNCHANGED <<rows, card, lapsed, RideLeaves>>

RiderCounter(r, crash) ==
    /\ Takes("ride", r, "RIDER_COUNTER", <<>>, crash)
    /\ Remember(r, pending[r], IF pending[r].on THEN "again" ELSE timer[r], crash)
    /\ Offer(r, pending[r].candidates)
    /\ UNCHANGED <<rows, lapsed, RideLeaves>>

(* handleOfferAccepted: whatever the ride has become since, and without a  *)
(* pending match too, the driver is announced.                             *)
OfferAccepted(r, crash) ==
    /\ \E d \in Drivers :
          /\ Takes("ride", r, "OFFER_ACCEPTED", <<Event("ASSIGNED", d)>>, crash)
          /\ d = TakenBy("ride", r)
    /\ Forget(r, crash)
    /\ UNCHANGED <<rows, card, lapsed, RideLeaves>>

DriverRejected(r, crash) ==
    /\ Takes("ride", r, "REJECTED", <<>>, crash)
    /\ LET d == TakenBy("ride", r)
           match == IF pending[r].on
                    THEN [pending[r] EXCEPT !.candidates = @ \ {d},
                                            !.attempted = @ \cup {d}]
                    ELSE NoMatch
       IN  Remember(r, match, timer[r], crash)
    /\ UNCHANGED <<rows, card, lapsed, RideLeaves>>

(* clearPendingMatch, then assignDriver and updateStatus(ON_RIDE). *)
DriverAssigned(r, crash) ==
    /\ Takes("ride", r, "ASSIGNED", <<>>, crash)
    /\ LET d == TakenBy("ride", r)
       IN  /\ status' = [status EXCEPT ![r] = "DRIVER_ASSIGNED"]
           /\ driver' = [driver EXCEPT ![r] = d]
           /\ market' = [market EXCEPT ![d] = "ON_RIDE"]
    /\ Forget(r, crash)
    /\ UNCHANGED <<card, lapsed, RideLeaves>>

Progress(r, crash) ==
    /\ \/ /\ Takes("ride", r, "ARRIVED", <<>>, crash)
          /\ status' = [status EXCEPT ![r] = "ARRIVED"]
       \/ /\ Takes("ride", r, "STARTED", <<>>, crash)
          /\ status' = [status EXCEPT ![r] = "IN_PROGRESS"]
    /\ Keep(r, crash)
    /\ UNCHANGED <<driver, market, card, lapsed, RideLeaves>>

CompletionRequested(r, crash) ==
    /\ queue["ride"][r] # <<>>
    /\ Takes("ride", r, "COMPLETION_REQUESTED",
             IF status[r] \in {"COMPLETED", "CANCELLED"} THEN <<>>
             ELSE <<Event("COMPLETED", TakenBy("ride", r))>>, crash)
    /\ Keep(r, crash)
    /\ UNCHANGED <<rows, card, lapsed, RideLeaves>>

Completed(r, crash) ==
    /\ Takes("ride", r, "COMPLETED", <<>>, crash)
    /\ status' = [status EXCEPT ![r] = "COMPLETED"]
    /\ market' = [market EXCEPT ![TakenBy("ride", r)] = "ONLINE"]
    /\ Keep(r, crash)
    /\ UNCHANGED <<driver, card, lapsed, RideLeaves>>

CancelledByRider(r, crash) ==
    /\ Takes("ride", r, "CANCELLED_BY_RIDER", <<>>, crash)
    /\ status' = [status EXCEPT ![r] = "CANCELLED"]
    /\ LET d == TakenBy("ride", r)
       IN  market' = IF d = NoDriver THEN market ELSE [market EXCEPT ![d] = "ONLINE"]
    /\ Forget(r, crash)
    /\ UNCHANGED <<driver, card, lapsed, RideLeaves>>

(* redispatchAfterDriverCancel puts the ride back into matching, unless it *)
(* is over; the driver row is handed back afterwards.                      *)
CancelledByDriver(r, crash) ==
    /\ Takes("ride", r, "CANCELLED_BY_DRIVER", <<>>, crash)
    /\ LET d == TakenBy("ride", r)
           found == Nearby(r, d)
       IN  /\ IF status[r] \in {"NONE", "COMPLETED", "CANCELLED"}
              THEN Forget(r, crash) /\ UNCHANGED <<status, card>>
              ELSE /\ status' = [status EXCEPT ![r] = "MATCHING"]
                   /\ Remember(r, [on |-> TRUE, candidates |-> found,
                                   attempted |-> {d}], "again", crash)
                   /\ Offer(r, found)
           /\ market' = [market EXCEPT ![d] = "ONLINE"]
    /\ UNCHANGED <<driver, lapsed, RideLeaves>>

(* cancelIfUnmatched. *)
ExpireUnmatched(r) ==
    status' = IF status[r] = "MATCHING" THEN [status EXCEPT ![r] = "CANCELLED"]
              ELSE status

BidTimedOut(r, crash) ==
    /\ Takes("ride", r, "BID_TIMEOUT", <<>>, crash)
    /\ ExpireUnmatched(r)
    /\ Forget(r, crash)
    /\ UNCHANGED <<driver, market, card, lapsed, RideLeaves>>

RideService(r, crash) ==
    \/ RideRequested(r, crash) \/ CounterOffer(r, crash) \/ RiderCounter(r, crash)
    \/ OfferAccepted(r, crash) \/ DriverRejected(r, crash) \/ DriverAssigned(r, crash)
    \/ Progress(r, crash) \/ CompletionRequested(r, crash) \/ Completed(r, crash)
    \/ CancelledByRider(r, crash) \/ CancelledByDriver(r, crash) \/ BidTimedOut(r, crash)

(* The timer of startBidTimeout, and the sweep over old unmatched rides.   *)
(* Both only publish; the timer entry stays in memory.                     *)
TimerFires(r) ==
    /\ timer[r] \in {"first", "again"} /\ Room(r)
    /\ timer' = [timer EXCEPT ![r] = "fired"]
    /\ Publish(r, Event("BID_TIMEOUT", NoDriver))
    /\ Lapses(r, Event("BID_TIMEOUT", NoDriver))
    /\ UNCHANGED <<rows, bid, hold, pending, aged, accepts, apps, sent, crashes>>

(* findStaleUnmatched goes by createdAt. *)
Stale(r) == status[r] = "MATCHING" /\ r \in aged

Sweep(r) ==
    /\ Stale(r) /\ Room(r)
    /\ Event("BID_TIMEOUT", NoDriver) \notin
           {queue["ride"][r][i] : i \in DOMAIN queue["ride"][r]}
    /\ Publish(r, Event("BID_TIMEOUT", NoDriver))
    /\ Lapses(r, Event("BID_TIMEOUT", NoDriver))
    /\ UNCHANGED <<rows, bid, hold, memory, aged, accepts, apps, sent, crashes>>

(* The cutoff is the bid window and two minutes more: the first timer of a *)
(* ride goes off, or is stopped, before the ride is that old.              *)
Age(r) ==
    /\ status[r] # "NONE" /\ r \notin aged
    /\ timer[r] # "first"
    /\ aged' = aged \cup {r}
    /\ UNCHANGED <<rows, bid, hold, queue, memory, accepts, apps, sent, crashes, lapsed>>

RideServiceDies ==
    /\ "ride" \in Crashing /\ crashes < MaxCrashes
    /\ \E r \in Rides : pending[r].on
    /\ pending' = [r \in Rides |-> NoMatch]
    /\ timer' = [r \in Rides |-> "off"]
    /\ crashes' = crashes + 1
    /\ UNCHANGED <<rows, bid, hold, queue, aged, accepts, apps, sent, lapsed>>

(* DRIVER_ONLINE, also announced again by a driver whose socket came back: *)
(* the row, and every pending ride offered to the driver unless it turned  *)
(* the ride down; DRIVER_OFFLINE.                                          *)
DriverOnline(d) ==
    /\ market' = [market EXCEPT ![d] = "ONLINE"]
    /\ LET told == {r \in Rides : pending[r].on /\ d \notin pending[r].attempted}
       IN  /\ pending' = [r \in Rides |->
                 IF r \in told THEN [pending[r] EXCEPT !.candidates = @ \cup {d}]
                 ELSE pending[r]]
           /\ card' = [r \in Rides |->
                 IF r \in told /\ card[r][d] = "none" THEN [card[r] EXCEPT ![d] = "offer"]
                 ELSE card[r]]
    /\ UNCHANGED <<status, driver, bid, hold, queue, timer, aged, accepts, rider,
                   sent, crashes, lapsed>>

DriverOffline(d) ==
    /\ market' = [market EXCEPT ![d] = "OFFLINE"]
    /\ pending' = [r \in Rides |-> [pending[r] EXCEPT !.candidates = @ \ {d}]]
    /\ bid' = [r \in Rides |->
          IF bid[r][d] = "PENDING" THEN [bid[r] EXCEPT ![d] = "WITHDRAWN"] ELSE bid[r]]
    /\ UNCHANGED <<status, driver, hold, queue, timer, aged, accepts, apps, sent,
                   crashes, lapsed>>

-----------------------------------------------------------------------------
(***************************************************************************)
(* The gateway's consumer                                                  *)
(***************************************************************************)
GatewayLeaves == <<rows, memory, aged, sent>>

(* Acceptances that took the fare of a ride already given up, or paid for  *)
(* by nobody, and are not published.                                       *)
Unsent(S) ==
    lapsed' = lapsed \cup {<<a.ride, "UNSENT">> :
                  a \in {b \in S : b.held /\ \E why \in GivesUp \cup {"UNPAID"} :
                                                 <<b.ride, why>> \in lapsed}}

(* A gateway that dies loses the acceptances it was working on. *)
Serving(crash) ==
    /\ accepts' = IF crash THEN {} ELSE accepts
    /\ IF crash THEN Unsent(accepts) ELSE UNCHANGED lapsed

(* cancelRideHold, whose callers log an error and go on. *)
ReleaseHold(r) ==
    \/ hold' = IF hold[r] = "ACTIVE" THEN [hold EXCEPT ![r] = "RELEASED"] ELSE hold
    \/ WalletFails /\ UNCHANGED hold

(* resolvePending. *)
Resolve(r, as) ==
    bid' = [bid EXCEPT ![r] = [d \in Drivers |-> IF @[d] = "PENDING" THEN as ELSE @[d]]]

Withdraw(r, d) ==
    bid' = IF bid[r][d] = "PENDING" THEN [bid EXCEPT ![r][d] = "WITHDRAWN"] ELSE bid

(* Who has an open bid is told that the auction is over. *)
TellBidders(r, d, shows) ==
    card' = [card EXCEPT ![r] = [c \in Drivers |->
                CASE c = d -> shows
                  [] c # d /\ bid[r][c] = "PENDING" /\ @[c] = "offer" -> "none"
                  [] OTHER -> @[c]]]

GatewayBidTimeout(r, crash) ==
    /\ Takes("gateway", r, "BID_TIMEOUT", <<>>, crash)
    /\ Resolve(r, "EXPIRED")
    /\ ReleaseHold(r)
    /\ rider' = [rider EXCEPT ![r] = "over"]
    /\ TellBidders(r, NoDriver, "none")
    /\ Serving(crash)
    /\ UNCHANGED GatewayLeaves

(* markAccepted, and the winner's other bids are withdrawn. *)
GatewayAssigned(r, crash) ==
    /\ Takes("gateway", r, "ASSIGNED", <<>>, crash)
    /\ LET d == TakenBy("gateway", r)
           settled(s, c) ==
               CASE s = r /\ c = d /\ bid[s][c] # "NONE" -> "ACCEPTED"
                 [] s = r /\ c # d /\ bid[s][c] = "PENDING" -> "LOST"
                 [] s # r /\ c = d /\ bid[s][c] = "PENDING" -> "WITHDRAWN"
                 [] OTHER -> bid[s][c]
       IN  /\ bid' = [s \in Rides |-> [c \in Drivers |-> settled(s, c)]]
           /\ TellBidders(r, d, "trip")
    /\ rider' = [rider EXCEPT ![r] = "matched"]
    /\ Serving(crash)
    /\ UNCHANGED <<hold, GatewayLeaves>>

GatewayCancelled(r, crash) ==
    /\ \/ /\ Takes("gateway", r, "CANCELLED_BY_RIDER", <<>>, crash)
          /\ rider' = [rider EXCEPT ![r] = "over"]
       \/ /\ Takes("gateway", r, "CANCELLED_BY_DRIVER", <<>>, crash)
          /\ rider' = [rider EXCEPT ![r] = IF @ = "matched" THEN "searching" ELSE @]
    /\ Resolve(r, "CANCELLED")
    /\ ReleaseHold(r)
    /\ TellBidders(r, TakenBy("gateway", r), "none")
    /\ Serving(crash)
    /\ UNCHANGED GatewayLeaves

GatewayCompleted(r, crash) ==
    /\ Takes("gateway", r, "COMPLETED", <<>>, crash)
    /\ rider' = [rider EXCEPT ![r] = "over"]
    /\ card' = [card EXCEPT ![r][TakenBy("gateway", r)] = "none"]
    /\ Serving(crash)
    /\ UNCHANGED <<bid, hold, GatewayLeaves>>

(* Only a manual reject takes the bid back, not an offer card that lapsed. *)
GatewayRejected(r, crash) ==
    /\ Takes("gateway", r, "REJECTED", <<>>, crash)
    /\ Withdraw(r, TakenBy("gateway", r)) \/ UNCHANGED bid
    /\ Serving(crash)
    /\ UNCHANGED <<hold, apps, GatewayLeaves>>

Gateway(r, crash) ==
    \/ GatewayBidTimeout(r, crash) \/ GatewayAssigned(r, crash)
    \/ GatewayCancelled(r, crash) \/ GatewayCompleted(r, crash)
    \/ GatewayRejected(r, crash)

GatewayDies ==
    /\ "gateway" \in Crashing /\ crashes < MaxCrashes
    /\ accepts # {}
    /\ accepts' = {}
    /\ Unsent(accepts)
    /\ crashes' = crashes + 1
    /\ UNCHANGED <<rows, bid, hold, queue, memory, aged, apps, sent>>

-----------------------------------------------------------------------------
(***************************************************************************)
(* wallet-service.  An assignment without a hold gets one, funds allowing; *)
(* a completion without an ACTIVE hold throws and is logged.               *)
(***************************************************************************)
Wallet(r, crash) ==
    /\ \/ /\ Takes("wallet", r, "ASSIGNED", <<>>, crash)
          /\ hold' \in {hold, IF hold[r] = "NONE" THEN [hold EXCEPT ![r] = "ACTIVE"] ELSE hold}
       \/ /\ \/ Takes("wallet", r, "CANCELLED_BY_RIDER", <<>>, crash)
             \/ Takes("wallet", r, "CANCELLED_BY_DRIVER", <<>>, crash)
          /\ ReleaseHold(r)
       \/ /\ Takes("wallet", r, "COMPLETED", <<>>, crash)
          /\ \/ hold' = IF hold[r] = "ACTIVE" THEN [hold EXCEPT ![r] = "CHARGED"] ELSE hold
             \/ WalletFails /\ UNCHANGED hold
    /\ UNCHANGED <<rows, bid, memory, aged, accepts, apps, sent, lapsed>>

-----------------------------------------------------------------------------
(***************************************************************************)
(* The apps                                                                *)
(***************************************************************************)
RiderRequests(r) ==
    /\ rider[r] = "idle"
    /\ rider' = [rider EXCEPT ![r] = "searching"]
    /\ Publish(r, Event("REQUESTED", NoDriver))
    /\ UNCHANGED <<rows, bid, hold, memory, aged, accepts, card, sent, crashes, lapsed>>

Busy(d) == \E r \in Rides : driver[r] = d /\ status[r] \in Live

(* driver:accept: the bid row is (re)written before the offer goes out. *)
DriverBids(r, d) ==
    /\ card[r][d] = "offer" /\ ~Busy(d)
    /\ Send(r, Event("COUNTER_OFFER", d))
    /\ bid' = [bid EXCEPT ![r][d] = "PENDING"]
    /\ UNCHANGED apps

DriverRejects(r, d) ==
    /\ card[r][d] = "offer"
    /\ Send(r, Event("REJECTED", d))
    /\ card' = [card EXCEPT ![r][d] = "none"]
    /\ UNCHANGED <<bid, rider>>

RiderCounters(r) ==
    /\ rider[r] = "searching"
    /\ Send(r, Event("RIDER_COUNTER", NoDriver))
    /\ UNCHANGED <<bid, apps>>

RiderCancels(r) ==
    /\ rider[r] \in {"searching", "matched"}
    /\ Send(r, Event("CANCELLED_BY_RIDER", driver[r]))
    /\ UNCHANGED <<bid, apps>>

DriverTravels(r, d) ==
    /\ card[r][d] = "trip"
    /\ \E t \in {"ARRIVED", "STARTED", "COMPLETION_REQUESTED", "CANCELLED_BY_DRIVER"} :
          Send(r, Event(t, d))
    /\ UNCHANGED <<bid, apps>>

(* ride:accept_offer and the WhatsApp "pay": the driver is checked, then   *)
(* the fare is held, then the acceptance is published.                     *)
Available(d) == market[d] = "ONLINE" /\ ~Busy(d)

AcceptChecks(r, d) ==
    /\ rider[r] = "searching" /\ bid[r][d] # "NONE"
    /\ sent[r] < MaxMessages
    /\ sent' = [sent EXCEPT ![r] = @ + 1]
    /\ IF Available(d)
       THEN accepts' = accepts \cup {[ride |-> r, driver |-> d, held |-> FALSE]} /\ UNCHANGED bid
       ELSE Withdraw(r, d) /\ UNCHANGED accepts
    /\ UNCHANGED <<rows, hold, queue, memory, aged, apps, crashes, lapsed>>

(* createRideHold: a row that is already there, whatever its status, is    *)
(* not an error.                                                           *)
Secure(r, d) == hold' = IF hold[r] = "NONE" THEN [hold EXCEPT ![r] = "ACTIVE"] ELSE hold

AcceptHolds(a) ==
    /\ ~a.held
    /\ accepts' = (accepts \ {a}) \cup {[a EXCEPT !.held = TRUE]}
    /\ Secure(a.ride, a.driver)
    /\ UNCHANGED <<rows, bid, queue, memory, aged, apps, sent, crashes, lapsed>>

AcceptRefused(a) ==
    /\ ~a.held
    /\ accepts' = accepts \ {a}
    /\ UNCHANGED <<rows, bid, hold, queue, memory, aged, apps, sent, crashes, lapsed>>

AcceptPublishes(a) ==
    /\ a.held
    /\ accepts' = accepts \ {a}
    /\ Publish(a.ride, Event("OFFER_ACCEPTED", a.driver))
    /\ UNCHANGED <<rows, bid, hold, memory, aged, apps, sent, crashes, lapsed>>

(* The publication throws: the rider is told of an error, and the fare     *)
(* stays held.                                                             *)
AcceptFails(a) ==
    /\ a.held
    /\ accepts' = accepts \ {a}
    /\ Unsent({a})
    /\ UNCHANGED <<rows, bid, hold, queue, memory, aged, apps, sent, crashes>>

(* The WhatsApp Flow screen publishes at once; wallet-service is left to   *)
(* hold the fare.                                                          *)
FlowAccepts(r, d) ==
    /\ FlowBookings
    /\ rider[r] = "searching" /\ bid[r][d] # "NONE"
    /\ sent[r] < MaxMessages /\ Room(r)
    /\ sent' = [sent EXCEPT ![r] = @ + 1]
    /\ Publish(r, Event("OFFER_ACCEPTED", d))
    /\ lapsed' = lapsed \cup {<<r, "UNPAID">>}
    /\ UNCHANGED <<rows, bid, hold, memory, aged, accepts, apps, crashes>>

-----------------------------------------------------------------------------

Next ==
    \/ \E r \in Rides :
          \/ \E crash \in BOOLEAN :
                RideService(r, crash) \/ Gateway(r, crash) \/ Wallet(r, crash)
          \/ TimerFires(r) \/ Sweep(r) \/ Age(r)
          \/ RiderRequests(r) \/ RiderCounters(r) \/ RiderCancels(r)
          \/ \E d \in Drivers :
                \/ DriverBids(r, d) \/ DriverRejects(r, d) \/ DriverTravels(r, d)
                \/ AcceptChecks(r, d) \/ FlowAccepts(r, d)
    \/ \E a \in accepts :
          AcceptHolds(a) \/ AcceptRefused(a) \/ AcceptPublishes(a) \/ AcceptFails(a)
    \/ \E d \in Drivers : DriverOnline(d) \/ DriverOffline(d)
    \/ RideServiceDies \/ GatewayDies

Spec == Init /\ [][Next]_vars

(* Kafka delivers; the gateway works on an acceptance until it is done;    *)
(* time passes and the sweep is an interval timer of ride-service.         *)
Fairness ==
    /\ \A r \in Rides :
          /\ WF_vars(RideService(r, FALSE))
          /\ WF_vars(Gateway(r, FALSE))
          /\ WF_vars(Wallet(r, FALSE))
          /\ WF_vars(Age(r)) /\ WF_vars(TimerFires(r)) /\ WF_vars(Sweep(r))
    /\ WF_vars(\E a \in accepts : AcceptHolds(a) \/ AcceptPublishes(a) \/ AcceptFails(a))

FairSpec == Spec /\ Fairness

-----------------------------------------------------------------------------

TypeOK ==
    /\ status \in [Rides -> Statuses]
    /\ driver \in [Rides -> Drivers \cup {NoDriver}]
    /\ market \in [Drivers -> {"ONLINE", "OFFLINE", "ON_RIDE"}]
    /\ bid \in [Rides -> [Drivers -> Bids]]
    /\ hold \in [Rides -> Holds]
    /\ queue \in [Groups -> [Rides -> Seq(Events)]]
    /\ pending \in [Rides -> Matches]
    /\ timer \in [Rides -> {"off", "first", "again", "fired"}]
    /\ aged \in SUBSET Rides
    /\ accepts \in SUBSET [ride : Rides, driver : Drivers, held : BOOLEAN]
    /\ rider \in [Rides -> {"idle", "searching", "matched", "over"}]
    /\ card \in [Rides -> [Drivers -> {"none", "offer", "trip"}]]
    /\ sent \in [Rides -> 0..MaxMessages]
    /\ crashes \in 0..MaxCrashes
    /\ lapsed \in SUBSET (Rides \X (GivesUp \cup {"UNPAID", "UNSENT"}))

(* A ride under way is paid for: a driver who is assigned, has arrived,    *)
(* drives or is done has the fare held behind the ride (or charged         *)
(* already), unless a cancellation or a bid timeout was published for the  *)
(* ride, or it was accepted on the Flow screen, which holds nothing.       *)
MatchedIsSecured ==
    \A r \in Rides :
        /\ status[r] \in Live \cup {"COMPLETED"}
        /\ \A why \in GivesUp \cup {"UNPAID"} : <<r, why>> \notin lapsed
        => hold[r] \in {"ACTIVE", "CHARGED"}

(* The clock of an auction stops with it: no timer is left running over a  *)
(* ride that has a driver, whose timeout would let go of the fare, with    *)
(* acceptances, counters and turned-down offers in any order and requests  *)
(* handled again after a crash.  The exception: a ride its driver gave up, *)
(* whose late "arrived" or "started" finds it in matching.                 *)
ClockStopsOnceMatched ==
    \A r \in Rides :
        status[r] \in Live /\ <<r, "CANCELLED_BY_DRIVER">> \notin lapsed
            => timer[r] \notin {"first", "again"}

(* A search ends: a rider who searches is told of a match, a cancellation  *)
(* or a timeout, with the auction's memory lost or not, and although a     *)
(* bid stops the clock.                                                    *)
NoSilentSearch ==
    \A r \in Rides : rider[r] = "searching" ~> rider[r] # "searching"

(* As long as releases and settlements succeed, a fare held for a ride     *)
(* nobody drives comes back, whatever order cancellations, timeouts and    *)
(* acceptances arrive in, with the auction's memory lost or not, and with  *)
(* an acceptance that dies or throws before it is published.  The          *)
(* exception: such an acceptance of a ride that had been given up, or ran  *)
(* unpaid, when it took the fare to nowhere.                               *)
HeldFareComesBack ==
    \A r \in Rides :
        hold[r] = "ACTIVE" ~>
            (hold[r] # "ACTIVE" \/ status[r] \in Live \/ <<r, "UNSENT">> \in lapsed)
=============================================================================

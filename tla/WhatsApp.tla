------------------------------ MODULE WhatsApp ------------------------------
(***************************************************************************)
(* A rider's conversation on WhatsApp: whatsapp.route.ts, the Redis keys of*)
(* bid-state.ts and the part of the gateway's Kafka consumer that writes   *)
(* them.  A webhook is answered before it is handled, so several messages  *)
(* of one rider are handled at once.  Each reads the active ride and the   *)
(* stage when it comes in, calls the geocoder, the route planner or the    *)
(* bank, and acts on what it has read.                                     *)
(*                                                                         *)
(* One rider.  A route is a number, given when it is planned; a bid is a   *)
(* driver and a price.  The group stages are in WhatsAppGroups, the money  *)
(* in RideHolds and Withdrawals.                                           *)
(***************************************************************************)
EXTENDS Integers, Sequences, SequencesExt, FiniteSets

CONSTANTS
    Webhooks,     \* handlers that may be at work at once
    Rides, Drivers, Prices, Amounts, Banks, Accounts,
    Budget,       \* per kind of traffic: the rider's messages, the drivers' bids and
                  \* the keys that run out
    MaxRoutes,    \* routes that are planned
    None

ASSUME WhatsAppAssumption ==
    /\ DOMAIN Budget \subseteq {"booking", "bidding", "withdrawing", "grouping"}
    /\ \A t \in DOMAIN Budget :
          Budget[t] \in [messages : Nat, bids : Nat, lapses : Nat]
    /\ MaxRoutes \in Nat \ {0}
    /\ Rides # {} /\ Prices \subseteq Nat
    /\ None \notin Rides \cup Drivers \cup Nat \cup Banks \cup Accounts

VARIABLES
    stage, location, route, lastRoute, \* keys of the rider: where the booking stands
    active, accept,                    \* keys of the rider: active ride, pending accept
    meta, state, bids, batch,          \* keys of a ride
    flush,                             \* rides with a timer in pendingBidFlushTimers
    row,                               \* Ride.status; CANCELLING: published, not stored;
                                       \* EXPIRED: cancelled BEFORE_MATCH, by a timeout
    events,                            \* per ride: events the gateway has not consumed
    at,                                \* the handlers
    pending, lock,                     \* keys of the withdrawal
    quoted, planned, listed, prompted, \* what the rider has been sent
    booked, agreed, submitted,         \* what was done in the rider's name
    unseen,                            \* withdrawals stored whose form failed to go out, or
                                       \* with another bank written over a whole form
    traffic, left                      \* what this run is about; messages, bids, lapses

keys == <<stage, location, route, lastRoute>>
rideKeys == <<meta, state, bids, batch, flush>>
market == <<row, events>>
told == <<quoted, planned, listed, prompted>>
purse == <<pending, lock, submitted, unseen>>
whatsappVars ==
    <<stage, location, route, lastRoute, active, accept, meta, state, bids, batch, flush,
      row, events, at, pending, lock, quoted, planned, listed, prompted, booked, agreed,
      submitted, unseen, traffic, left>>

Quiet == {"none", "searching"}
Withdrawing == {"withdrawal_amount", "withdrawal_bank", "withdrawal_account",
                "withdrawal_confirmation"}
Stages == Quiet \cup Withdrawing \cup
    {"awaiting_pickup", "awaiting_destination", "awaiting_route_confirmation",
     "awaiting_price", "awaiting_cancel_reason", "editing"}
GroupPlaces == {"group_awaiting_pickup", "group_awaiting_destination"}
GroupStages == GroupPlaces \cup {"group_awaiting_confirm", "group_awaiting_face_photo"}

(* What the rider may write, by traffic; numbers and places are inputs of  *)
(* the handlers.                                                           *)
BookingTexts == {"trip", "priced trip", "pickup", "place", "pin", "price", "yes", "edit",
                 "edit to", "cancel", "reason", "search again"}
BiddingTexts == {"number", "more", "pay", "counter"}
WithdrawalTexts == {"withdraw", "amount", "bank", "account", "yes", "cancel"}
GroupTexts == {"group ride", "group trip", "group", "place", "choice", "from to", "yes", "price",
               "photo", "cancel", "cancel group", "normal", "trip"}
Texts == [booking |-> BookingTexts, bidding |-> BiddingTexts, withdrawing |-> WithdrawalTexts,
          grouping |-> GroupTexts]

Listening == [text |-> "idle", ride |-> None, stage |-> "none", item |-> None, step |-> "idle"]

(* A booking conversation begins with nothing, one about bids with a ride  *)
(* that has just been requested over a route the rider was shown.          *)
WhatsAppInit ==
    /\ traffic \in DOMAIN Budget
    /\ stage = "none" /\ location = FALSE /\ route = None
    /\ LET first == CHOOSE r \in Rides : TRUE
           under == IF traffic = "bidding" THEN {first} ELSE {}
       IN /\ active = IF under = {} THEN None ELSE first
          /\ lastRoute = IF under = {} THEN None ELSE 1
          /\ planned = Cardinality(under) /\ quoted = 1..planned
          /\ meta = under
          /\ state = [r \in Rides |-> IF r \in under THEN "searching" ELSE "none"]
          /\ row = [r \in Rides |-> IF r \in under THEN "OPEN" ELSE "none"]
          /\ booked = [r \in Rides |-> IF r \in under THEN 1 ELSE 0]
    /\ accept = None
    /\ bids = [r \in Rides |-> <<>>] /\ batch = [r \in Rides |-> <<>>] /\ flush = {}
    /\ events = [r \in Rides |-> <<>>]
    /\ at = [w \in Webhooks |-> Listening]
    /\ pending = None /\ lock = None
    /\ listed = {} /\ prompted = {}
    /\ agreed = {} /\ submitted = {} /\ unseen = {}
    /\ left = Budget[traffic]

Bids == [driver : Drivers, price : Prices]

WhatsAppTypeOK ==
    /\ stage \in Stages \cup GroupStages /\ location \in BOOLEAN
    /\ route = None \/ route \in [id : 1..MaxRoutes, offer : BOOLEAN]
    /\ lastRoute \in 1..MaxRoutes \cup {None}
    /\ active \in Rides \cup {None} /\ meta \subseteq Rides /\ flush \subseteq Rides
    /\ accept = None \/ accept \in [ride : Rides, bid : Bids]
    /\ state \in [Rides -> {"none", "searching", "bidding", "confirmed"}]
    /\ row \in [Rides -> {"none", "OPEN", "EXPIRED", "TAKEN", "CANCELLING", "CANCELLED",
                         "COMPLETED"}]
    /\ \A r \in Rides : Range(bids[r]) \cup Range(batch[r]) \subseteq Bids
    /\ booked \in [Rides -> 0..MaxRoutes] /\ quoted \subseteq 1..MaxRoutes

-----------------------------------------------------------------------------
(* The keys and the events *)

Finish(w) == at' = [at EXCEPT ![w] = Listening]
Continue(w, step, item) == at' = [at EXCEPT ![w].step = step, ![w].item = item]
Spend(what) == left[what] > 0 /\ left' = [left EXCEPT ![what] = @ - 1]

Published(r, kind) == [events EXCEPT ![r] = Append(@, [kind |-> kind, bid |-> None])]
CanPublish(r) == Len(events[r]) < 2

(* cleanupRideKeys; the timers of scheduleBidFlush stay *)
Cleanup(r) ==
    /\ meta' = meta \ {r}
    /\ state' = [state EXCEPT ![r] = "none"]
    /\ bids' = [bids EXCEPT ![r] = <<>>]
    /\ batch' = [batch EXCEPT ![r] = <<>>]
    /\ UNCHANGED flush

(* addBid: a driver has one bid in the list *)
Added(list, bid) ==
    IF \E i \in DOMAIN list : list[i].driver = bid.driver
    THEN [i \in DOMAIN list |-> IF list[i].driver = bid.driver THEN bid ELSE list[i]]
    ELSE Append(list, bid)

Listed(r, list) == listed \cup {[ride |-> r, bid |-> b] : b \in Range(list)}

(* A list of bids goes out: the rider's numbers mean this list from now on.*)
SendList(r, list) ==
    /\ batch' = [batch EXCEPT ![r] = list]
    /\ listed' = Listed(r, list)

Details(p) == [amount |-> p.amount, bank |-> p.bank, account |-> p.account]

(* The form of a withdrawal that is stored and has still to go out. *)
FormOf(w) ==
    IF at[w].step \in {"verified", "form"} THEN {Details(at[w].item)} ELSE {}

-----------------------------------------------------------------------------
(* A message comes in *)

(* The active ride and the stage are read once. *)
Receive(w) ==
    /\ at[w] = Listening /\ Spend("messages")
    /\ \E text \in Texts[traffic] :
          at' = [at EXCEPT ![w] = [text |-> text, ride |-> active, stage |-> stage,
                                  item |-> None, step |-> "read"]]
    /\ UNCHANGED <<keys, active, accept, rideKeys, market, told, purse, booked, agreed, traffic>>

(* The handler throws or refuses: nothing further is written.  A submit    *)
(* lock is given up, at the latest when it runs out.                       *)
Fails(w) ==
    /\ at[w] # Listening /\ Finish(w)
    /\ lock' = IF lock = w THEN None ELSE lock
    /\ unseen' = unseen \cup FormOf(w)
    /\ UNCHANGED <<keys, active, accept, rideKeys, market, told, pending, submitted, booked,
                   agreed, traffic, left>>

(* Which part of the webhook handles it: with an active ride every text    *)
(* but the answer to "why?" is about that ride; a location pin is not.     *)
Reads(w, texts) == at[w].step = "read" /\ at[w].text \in texts
Explains(w) == at[w].stage = "awaiting_cancel_reason"
Chats(w) == ~Explains(w) /\ (at[w].ride = None \/ at[w].text = "pin")
Travels(w) == ~Explains(w) /\ at[w].ride # None /\ at[w].text # "pin"
Open(w) == Travels(w) /\ state[at[w].ride] # "confirmed"

ReachesParser(w) ==
    /\ Chats(w) /\ at[w].ride = None
    /\ \/ at[w].stage \in Quiet \cup {"awaiting_pickup"}
       \/ at[w].stage = "awaiting_destination" /\ location
       \/ at[w].stage = "awaiting_price" /\ route = None

-----------------------------------------------------------------------------
(* Cancelling *)

(* RIDE_CANCELLED, then the keys of the ride *)
CancelRide(r) ==
    /\ CanPublish(r)
    /\ events' = Published(r, "CANCELLED")
    /\ row' = [row EXCEPT ![r] = CASE @ \in {"OPEN", "EXPIRED"} -> "CANCELLING"
                                   [] @ = "TAKEN" -> "CANCELLED"
                                   [] OTHER -> @]
    /\ active' = None /\ accept' = None
    /\ Cleanup(r)

AskReason(w) ==
    /\ Reads(w, {"cancel"})
    /\ \/ Travels(w)
       \/ Chats(w) /\ at[w].stage \in {"awaiting_destination", "editing"}
       \/ Chats(w) /\ at[w].stage = "awaiting_price" /\ route # None
    /\ stage' = "awaiting_cancel_reason" /\ Finish(w)
    /\ UNCHANGED <<location, route, lastRoute, active, accept, rideKeys, market, told, purse,
                   booked, agreed, traffic, left>>

CancelReason(w) ==
    /\ Reads(w, {"reason"}) /\ Explains(w) /\ Finish(w)
    /\ IF at[w].ride = None THEN UNCHANGED <<active, accept, rideKeys, market>>
       ELSE CancelRide(at[w].ride)
    /\ stage' = "none" /\ route' = None /\ location' = FALSE
    /\ UNCHANGED <<lastRoute, told, purse, booked, agreed, traffic, left>>

(* Nothing is booked yet: the keys go at once.  The question for an area   *)
(* keeps the rest of the booking.                                          *)
CancelBooking(w) ==
    /\ Reads(w, {"cancel"}) /\ Chats(w) /\ Finish(w)
    /\ \/ at[w].stage \in Quiet \cup {"awaiting_pickup", "awaiting_route_confirmation"}
       \/ at[w].stage = "awaiting_price" /\ route = None
    /\ stage' = "none"
    /\ location' = (location /\ at[w].stage \in {"awaiting_pickup", "awaiting_route_confirmation"})
    /\ route' = IF at[w].stage = "awaiting_pickup" THEN route ELSE None
    /\ UNCHANGED <<lastRoute, active, accept, rideKeys, market, told, purse, booked, agreed,
                   traffic, left>>

-----------------------------------------------------------------------------
(* From places to a route with a price *)

Plans(w, step, item) ==
    /\ planned < MaxRoutes /\ planned' = planned + 1
    /\ Continue(w, step, item)

(* The parser finds a pickup, and no destination or none it can place. *)
NamesPickup(w) == Reads(w, {"pickup", "trip", "priced trip"}) /\ ReachesParser(w)

(* The pickup is an area: the rider is asked where in it. *)
NamesArea(w) == Reads(w, {"pickup"}) /\ ReachesParser(w)
AnswersArea(w) == Reads(w, {"place"}) /\ Chats(w) /\ at[w].stage = "awaiting_pickup"

FirstPin(w) ==
    /\ Reads(w, {"pin"}) /\ Chats(w) /\ ~location
    /\ at[w].ride # None => at[w].stage = "editing" /\ route = None

PickupNamed(w) ==
    /\ Finish(w)
    /\ \/ /\ NamesPickup(w) \/ AnswersArea(w) \/ FirstPin(w)
          /\ location' = TRUE /\ stage' = "awaiting_destination"
       \/ /\ NamesArea(w)
          /\ stage' = "awaiting_pickup" /\ UNCHANGED location
    /\ UNCHANGED <<route, lastRoute, active, accept, rideKeys, market, told, purse, booked,
                   agreed, traffic, left>>

(* A stage whose key has run out is dropped; so is a second pin sent       *)
(* during a ride.                                                          *)
SessionExpired(w) ==
    /\ Finish(w) /\ stage' = "none"
    /\ \/ /\ Reads(w, {"place"}) /\ Chats(w)
          /\ \/ at[w].stage = "awaiting_destination" /\ ~location
             \/ at[w].stage = "editing" /\ route = None
          /\ UNCHANGED location
       \/ /\ Reads(w, Texts[traffic] \ {"cancel", "pin"}) /\ Chats(w)
          /\ at[w].stage = "awaiting_route_confirmation"
          /\ IF route = None THEN TRUE ELSE ~route.offer
          /\ UNCHANGED location
       \/ /\ Reads(w, {"pin"}) /\ Chats(w) /\ at[w].ride # None /\ location
          /\ at[w].stage = "editing" /\ route = None
          /\ location' = FALSE
    /\ UNCHANGED <<route, lastRoute, active, accept, rideKeys, market, told, purse, booked,
                   agreed, traffic, left>>

NamesDestination(w) ==
    Reads(w, {"place"}) /\ Chats(w) /\ location /\ at[w].stage = "awaiting_destination"

SecondPin(w) ==
    /\ Reads(w, {"pin"}) /\ Chats(w) /\ location /\ at[w].ride = None
    /\ at[w].stage = "editing" => route = None

NamesBoth(w) == Reads(w, {"trip"}) /\ ReachesParser(w)
NamesBothAndPrice(w) == Reads(w, {"priced trip"}) /\ ReachesParser(w)

(* Pickup and destination are known: the route is planned. *)
PlanTrip(w) ==
    /\ \/ /\ NamesDestination(w) \/ SecondPin(w)
          /\ Plans(w, "quote", [id |-> planned + 1, kept |-> FALSE])
       \/ NamesBoth(w) /\ Plans(w, "quote", [id |-> planned + 1, kept |-> TRUE])
       \/ NamesBothAndPrice(w) /\ Plans(w, "quote priced", [id |-> planned + 1, how |-> "yes"])
    /\ UNCHANGED <<keys, active, accept, rideKeys, market, quoted, listed, prompted, purse,
                   booked, agreed, traffic, left>>

Quote(w) ==
    /\ at[w].step = "quote" /\ Finish(w)
    /\ location' = (location /\ at[w].item.kept)
    /\ route' = [id |-> at[w].item.id, offer |-> FALSE]
    /\ stage' = "awaiting_price"
    /\ quoted' = quoted \cup {at[w].item.id}
    /\ UNCHANGED <<lastRoute, active, accept, rideKeys, market, planned, listed, prompted, purse,
                   booked, agreed, traffic, left>>

(* The rider named a price at once: the route is shown and one "yes" taken.*)
QuotePriced(w) ==
    /\ at[w].step = "quote priced" /\ Finish(w)
    /\ route' = [id |-> at[w].item.id, offer |-> TRUE]
    /\ stage' = "awaiting_route_confirmation"
    /\ quoted' = quoted \cup {at[w].item.id}
    /\ UNCHANGED <<location, lastRoute, active, accept, rideKeys, market, planned, listed,
                   prompted, purse, booked, agreed, traffic, left>>

(* Anything but a "yes" is a correction. *)
NotConfirmed(w) ==
    /\ Reads(w, Texts[traffic] \ {"yes", "cancel", "pin"}) /\ Chats(w)
    /\ at[w].stage = "awaiting_route_confirmation"
    /\ IF route = None THEN FALSE ELSE route.offer
    /\ stage' = "awaiting_price" /\ Finish(w)
    /\ UNCHANGED <<location, route, lastRoute, active, accept, rideKeys, market, told, purse,
                   booked, agreed, traffic, left>>

-----------------------------------------------------------------------------
(* Editing a route *)

EditsRide(w, text) == Reads(w, {text}) /\ Open(w) /\ at[w].ride \in meta
EditsQuote(w, text) ==
    Reads(w, {text}) /\ Chats(w) /\ at[w].stage = "awaiting_price" /\ route # None

(* "edit from" without an address: the stage changes, nothing is cancelled.*)
AskEdit(w) ==
    /\ Finish(w)
    /\ \/ /\ EditsRide(w, "edit")
          /\ route' = [id |-> booked[at[w].ride], offer |-> FALSE]
       \/ EditsQuote(w, "edit") /\ UNCHANGED route
    /\ stage' = "editing"
    /\ UNCHANGED <<location, lastRoute, active, accept, rideKeys, market, told, purse, booked,
                   agreed, traffic, left>>

(* The answer to "edit from" *)
AnswersEdit(w, text) ==
    Reads(w, {text}) /\ Chats(w) /\ at[w].stage = "editing" /\ route # None
EditsByPlace(w) == AnswersEdit(w, "place")
EditsByPin(w) == AnswersEdit(w, "pin")

(* The new route is planned first: the ride stays until it is drivable.  A *)
(* quote is replaced in its stage, anything else goes back to the price.   *)
PlanEdit(w) ==
    /\ \/ /\ EditsRide(w, "edit to") \/ EditsByPlace(w) \/ EditsByPin(w)
          /\ Plans(w, "replan", [id |-> planned + 1, back |-> TRUE])
       \/ EditsQuote(w, "edit to") /\ Plans(w, "requote", [id |-> planned + 1, back |-> FALSE])
    /\ UNCHANGED <<keys, active, accept, rideKeys, market, quoted, listed, prompted, purse,
                   booked, agreed, traffic, left>>

CancelEdited(w) ==
    /\ at[w].step = "replan" /\ Continue(w, "requote", at[w].item)
    /\ IF at[w].ride = None THEN UNCHANGED <<active, accept, rideKeys, market>>
       ELSE CancelRide(at[w].ride)
    /\ UNCHANGED <<keys, told, purse, booked, agreed, traffic, left>>

Requote(w) ==
    /\ at[w].step = "requote" /\ Finish(w)
    /\ route' = [id |-> at[w].item.id, offer |-> FALSE]
    /\ stage' = IF at[w].item.back THEN "awaiting_price" ELSE stage
    /\ quoted' = quoted \cup {at[w].item.id}
    /\ UNCHANGED <<location, lastRoute, active, accept, rideKeys, market, planned, listed,
                   prompted, purse, booked, agreed, traffic, left>>

-----------------------------------------------------------------------------
(* Booking *)

NamesPrice(w) == EditsQuote(w, "price")
ConfirmsRoute(w) ==
    /\ Reads(w, {"yes"}) /\ Chats(w) /\ at[w].stage = "awaiting_route_confirmation"
    /\ IF route = None THEN FALSE ELSE route.offer
SearchesAgain(w) == Reads(w, {"search again"}) /\ ReachesParser(w) /\ lastRoute # None

(* A price for the quote, a "yes" to the priced one, or the last route     *)
(* again.                                                                  *)
Decide(w) ==
    /\ \/ NamesPrice(w) /\ Continue(w, "book", [id |-> route.id, how |-> "price"])
       \/ ConfirmsRoute(w) /\ Continue(w, "book", [id |-> route.id, how |-> "yes"])
       \/ SearchesAgain(w) /\ Continue(w, "book", [id |-> lastRoute, how |-> "again"])
    /\ UNCHANGED <<keys, active, accept, rideKeys, market, told, purse, booked, agreed, traffic,
                   left>>

(* RIDE_REQUESTED under a new id, with the route read before *)
Book(w, r) ==
    /\ at[w].step = "book" /\ row[r] = "none"
    /\ route' = IF at[w].item.how = "again" THEN route ELSE None
    /\ stage' = IF at[w].item.how = "price" THEN "none" ELSE stage
    /\ row' = [row EXCEPT ![r] = "OPEN"]
    /\ booked' = [booked EXCEPT ![r] = at[w].item.id]
    /\ Continue(w, "enter", [how |-> at[w].item.how, ride |-> r])
    /\ UNCHANGED <<location, lastRoute, active, accept, rideKeys, events, told, purse, agreed,
                   traffic, left>>

(* storeWhatsappRide: the list of bids begins empty, whatever came in      *)
(* since the publish.                                                      *)
StoreRide(r) ==
    /\ meta' = meta \cup {r}
    /\ bids' = [bids EXCEPT ![r] = <<>>]
    /\ state' = [state EXCEPT ![r] = "searching"]

Enter(w) ==
    /\ at[w].step = "enter" /\ Finish(w)
    /\ LET r == at[w].item.ride
       IN /\ StoreRide(r) /\ UNCHANGED <<batch, flush>>
          /\ active' = r
          /\ lastRoute' = IF at[w].item.how = "again" THEN lastRoute ELSE booked[r]
          /\ stage' = IF at[w].item.how = "price" THEN stage ELSE "searching"
    /\ UNCHANGED <<location, route, accept, market, told, purse, booked, agreed, traffic, left>>

-----------------------------------------------------------------------------
(* Choosing a driver and paying *)

(* A mutant of Numbered: the bids as they are, sent to the rider or not. *)
NumberedNow(r) == bids[r]

(* getLastBatch: what the rider's numbers mean *)
Numbered(r) == batch[r]

(* "2", or a bare "accept" with one bid on the table *)
Choose(w) ==
    /\ Reads(w, {"number"}) /\ Open(w)
    /\ \E bid \in Range(Numbered(at[w].ride)) :
          Continue(w, "choose", [ride |-> at[w].ride, bid |-> bid])
    /\ UNCHANGED <<keys, active, accept, rideKeys, market, told, purse, booked, agreed, traffic,
                   left>>

(* storePendingAccept, after the driver's details have been looked up *)
Chosen(w) ==
    /\ at[w].step = "choose" /\ Finish(w)
    /\ accept' = at[w].item
    /\ UNCHANGED <<keys, active, rideKeys, market, told, purse, booked, agreed, traffic, left>>

(* The driver and the balance are looked at, the fare is held; or the      *)
(* driver has gone, or the ride.                                           *)
Pay(w) ==
    /\ Reads(w, {"pay"}) /\ Open(w) /\ accept # None
    /\ IF accept.ride \notin meta
       THEN Finish(w) /\ accept' = None /\ active' = None
       ELSE /\ UNCHANGED active
            /\ \/ Continue(w, "held", accept) /\ UNCHANGED accept
               \/ Finish(w) /\ accept' = None
    /\ UNCHANGED <<keys, rideKeys, market, told, purse, booked, agreed, traffic, left>>

(* RIDE_OFFER_ACCEPTED for what was read; ride-service assigns the driver  *)
(* or finds the ride gone.                                                 *)
Paid(w) ==
    /\ at[w].step = "held" /\ Finish(w)
    /\ accept' = None
    /\ agreed' = agreed \cup {at[w].item}
    /\ LET r == at[w].item.ride
       IN /\ state' = [state EXCEPT ![r] = "confirmed"]
          /\ IF row[r] \in {"OPEN", "EXPIRED"}
             THEN /\ CanPublish(r)
                  /\ row' = [row EXCEPT ![r] = "TAKEN"]
                  /\ events' = Published(r, "ASSIGNED")
             ELSE UNCHANGED market
    /\ UNCHANGED <<keys, active, meta, bids, batch, flush, told, purse, booked, traffic, left>>

(* "more": the bids as they are, under new numbers *)
More(w) ==
    /\ Reads(w, {"more"}) /\ Open(w) /\ bids[at[w].ride] # <<>> /\ Finish(w)
    /\ SendList(at[w].ride, bids[at[w].ride])
    /\ UNCHANGED <<keys, active, accept, meta, state, bids, flush, market, quoted, planned,
                   prompted, purse, booked, agreed, traffic, left>>

(* A price during the search: the ride's keys are written back as they     *)
(* were read, whatever became of the ride.                                 *)
Counter(w) ==
    /\ Reads(w, {"counter"}) /\ Open(w) /\ at[w].ride \in meta
    /\ Continue(w, "counter", None)
    /\ UNCHANGED <<keys, active, accept, rideKeys, market, told, purse, booked, agreed, traffic,
                   left>>

Countered(w) ==
    /\ at[w].step = "counter" /\ Finish(w)
    /\ meta' = meta \cup {at[w].ride}
    /\ UNCHANGED <<keys, active, accept, state, bids, batch, flush, market, told, purse, booked,
                   agreed, traffic, left>>

-----------------------------------------------------------------------------
(* Withdrawing *)

Amount(n) == [amount |-> n, bank |-> None, account |-> None]
Withdraws(w, text, where) ==
    Reads(w, {text}) /\ at[w].ride = None /\ at[w].stage = where

Withdraw(w) ==
    /\ Reads(w, {"withdraw"}) /\ ~Explains(w) /\ at[w].ride = None /\ Finish(w)
    /\ pending' = None
    /\ stage' \in {"withdrawal_amount", "none"}
    /\ UNCHANGED <<location, route, lastRoute, active, accept, rideKeys, market, told, lock,
                   submitted, unseen, booked, agreed, traffic, left>>

(* Cancelled, expired or incomplete: the withdrawal is over. *)
EndWithdrawal(w) ==
    /\ at[w].step = "read" /\ at[w].stage \in Withdrawing /\ Finish(w)
    /\ \/ at[w].text = "cancel"
       \/ at[w].text # "withdraw" /\ pending = None
          /\ at[w].stage # "withdrawal_amount"
    /\ pending' = None /\ stage' = "none"
    /\ UNCHANGED <<location, route, lastRoute, active, accept, rideKeys, market, told, lock,
                   submitted, unseen, booked, agreed, traffic, left>>

(* The amount; a number where the bank is asked corrects it. *)
GiveAmount(w) ==
    /\ \/ Withdraws(w, "amount", "withdrawal_amount") /\ stage' = "withdrawal_bank"
       \/ Withdraws(w, "amount", "withdrawal_bank") /\ pending # None /\ UNCHANGED stage
    /\ Finish(w)
    /\ \E n \in Amounts : pending' = Amount(n)
    /\ UNCHANGED <<location, route, lastRoute, active, accept, rideKeys, market, told, lock,
                   submitted, unseen, booked, agreed, traffic, left>>

NamesBank(w) == Withdraws(w, "bank", "withdrawal_bank") /\ pending # None
NamesAccount(w) ==
    /\ Withdraws(w, "account", "withdrawal_account")
    /\ IF pending = None THEN FALSE ELSE pending.bank # None

(* The list of banks, or the bank itself, is asked with what was read. *)
AskBank(w) ==
    /\ \/ /\ NamesBank(w)
          /\ \E b \in Banks : Continue(w, "bank", [pending EXCEPT !.bank = b])
       \/ /\ NamesAccount(w)
          /\ \E a \in Accounts : Continue(w, "account", [pending EXCEPT !.account = a])
    /\ UNCHANGED <<keys, active, accept, rideKeys, market, told, purse, booked, agreed, traffic,
                   left>>

(* What was read is written back with the bank's answer.  A message that   *)
(* came in when the bank was asked may find the account there already.     *)
BankAnswers(w) ==
    /\ pending' = at[w].item
    /\ \/ /\ at[w].step = "bank" /\ Continue(w, "named", at[w].item)
          /\ unseen' = IF at[w].item.account = None THEN unseen
                       ELSE unseen \cup {Details(at[w].item)}
       \/ at[w].step = "account" /\ Continue(w, "verified", at[w].item) /\ UNCHANGED unseen
    /\ UNCHANGED <<keys, active, accept, rideKeys, market, told, lock, submitted, booked, agreed,
                   traffic, left>>

(* Then the stage, *)
MovesOn(w) ==
    /\ \/ at[w].step = "named" /\ stage' = "withdrawal_account" /\ Finish(w)
       \/ at[w].step = "verified" /\ stage' = "withdrawal_confirmation"
          /\ Continue(w, "form", at[w].item)
    /\ UNCHANGED <<location, route, lastRoute, active, accept, rideKeys, market, told, purse,
                   booked, agreed, traffic, left>>

(* and, once the account is known, the form that shows the rider it all.   *)
SendForm(w) ==
    /\ at[w].step = "form" /\ Finish(w)
    /\ prompted' = prompted \cup FormOf(w)
    /\ UNCHANGED <<keys, active, accept, rideKeys, market, quoted, planned, listed, purse, booked,
                   agreed, traffic, left>>

(* A mutant of Complete: the stage is trusted. *)
Started(p) == p # None

(* Everything the rider was asked for is there. *)
Complete(p) == IF p = None THEN FALSE ELSE p.bank # None /\ p.account # None

ConfirmWithdrawal(w) ==
    /\ Withdraws(w, "yes", "withdrawal_confirmation")
    /\ IF Complete(pending)
       THEN Continue(w, "submit", pending) /\ UNCHANGED <<pending, stage>>
       ELSE Finish(w) /\ pending' = None /\ stage' = "none"
    /\ UNCHANGED <<location, route, lastRoute, active, accept, rideKeys, market, told, lock,
                   submitted, unseen, booked, agreed, traffic, left>>

(* submitWhatsappWithdrawal, under a lock of its own *)
Lock(w) ==
    /\ at[w].step = "submit" /\ lock = None
    /\ lock' = w /\ Continue(w, "submitting", at[w].item)
    /\ UNCHANGED <<keys, active, accept, rideKeys, market, told, pending, submitted, unseen,
                   booked, agreed, traffic, left>>

Submit(w) ==
    /\ at[w].step = "submitting"
    /\ submitted' = submitted \cup {Details(at[w].item)}
    /\ lock' = None /\ Continue(w, "submitted", None)
    /\ UNCHANGED <<keys, active, accept, rideKeys, market, told, pending, unseen, booked, agreed,
                   traffic, left>>

Submitted(w) ==
    /\ at[w].step = "submitted" /\ Finish(w)
    /\ pending' = None /\ stage' = "none"
    /\ UNCHANGED <<location, route, lastRoute, active, accept, rideKeys, market, told, lock,
                   submitted, unseen, booked, agreed, traffic, left>>

-----------------------------------------------------------------------------
(* The gateway's consumer, and what it hears of *)

FirstOf(r) == Head(events[r])
Taken(r, kinds) ==
    /\ events[r] # <<>> /\ FirstOf(r).kind \in kinds
    /\ events' = [events EXCEPT ![r] = Tail(@)]
    /\ UNCHANGED row

(* A ride a late bid may bring back: nobody has taken it, or only a        *)
(* timeout has ended it.                                                   *)
Winnable(r) == row[r] \in {"OPEN", "CANCELLING", "EXPIRED"}

(* RIDE_COUNTER_OFFER: the bid is stored and the ride is bidding, whatever *)
(* it was.  Without the ride's keys they are built from the row again and  *)
(* the ride becomes the active one.  The list goes out at once, or, after  *)
(* another list, when the debounce is over.                                *)
TakeBid(r) ==
    /\ Taken(r, {"BID"})
    /\ LET bid == FirstOf(r).bid
           back == r \notin meta /\ Winnable(r)
           list == IF back THEN <<bid>> ELSE Added(bids[r], bid)
       IN /\ bids' = [bids EXCEPT ![r] = list]
          /\ state' = [state EXCEPT ![r] = "bidding"]
          /\ meta' = IF back THEN meta \cup {r} ELSE meta
          /\ active' = IF back THEN r ELSE active
          /\ IF r \notin meta' THEN UNCHANGED <<batch, listed, flush>>
             ELSE \/ SendList(r, list) /\ UNCHANGED flush
                  \/ flush' = flush \cup {r} /\ UNCHANGED <<batch, listed>>
    /\ UNCHANGED <<keys, accept, at, quoted, planned, prompted, purse, booked, agreed, traffic,
                   left>>

(* The timer of scheduleBidFlush: silent unless the ride is bidding *)
Flush(r) ==
    /\ r \in flush /\ flush' = flush \ {r}
    /\ IF r \in meta /\ state[r] = "bidding" /\ bids[r] # <<>>
       THEN SendList(r, bids[r])
       ELSE UNCHANGED <<batch, listed>>
    /\ UNCHANGED <<keys, active, accept, meta, state, bids, market, at, quoted, planned, prompted,
                   purse, booked, agreed, traffic, left>>

(* RIDE_BID_TIMEOUT, RIDE_CANCELLED and RIDE_COMPLETED: the keys of the    *)
(* ride go, and with them the rider's active ride, whichever that is.  A   *)
(* timeout does nothing for a rider without one.                           *)
RideOver(r) ==
    /\ Taken(r, {"TIMEOUT", "CANCELLED", "COMPLETED"})
    /\ IF FirstOf(r).kind = "TIMEOUT" /\ active = None THEN UNCHANGED <<active, rideKeys>>
       ELSE active' = None /\ Cleanup(r)
    /\ UNCHANGED <<keys, accept, at, told, purse, booked, agreed, traffic, left>>

(* RIDE_DRIVER_ASSIGNED *)
DriverAssigned(r) ==
    /\ Taken(r, {"ASSIGNED"})
    /\ state' = IF active = None THEN state ELSE [state EXCEPT ![r] = "confirmed"]
    /\ UNCHANGED <<keys, active, accept, meta, bids, batch, flush, at, told, purse, booked, agreed,
                   traffic, left>>

(* Drivers bid as long as their app shows them the ride. *)
DriverBids(r) ==
    /\ row[r] # "none" /\ traffic = "bidding" /\ CanPublish(r) /\ Spend("bids")
    /\ \E bid \in Bids :
          events' = [events EXCEPT ![r] = Append(@, [kind |-> "BID", bid |-> bid])]
    /\ UNCHANGED <<keys, active, accept, rideKeys, row, at, told, purse, booked, agreed, traffic>>

(* ride-service: the bids time out, a rider's cancellation is stored, a    *)
(* driver leaves and the ride is matched again, a trip is completed.       *)
RideService(r) ==
    /\ \/ row[r] = "OPEN" /\ CanPublish(r)
          /\ row' = [row EXCEPT ![r] = "EXPIRED"] /\ events' = Published(r, "TIMEOUT")
       \/ row[r] = "CANCELLING"
          /\ row' = [row EXCEPT ![r] = "CANCELLED"] /\ UNCHANGED events
       \/ row[r] = "TAKEN" /\ CanPublish(r)
          /\ row' = [row EXCEPT ![r] = "OPEN"] /\ events' = Published(r, "CANCELLED")
       \/ row[r] = "TAKEN" /\ CanPublish(r)
          /\ row' = [row EXCEPT ![r] = "COMPLETED"] /\ events' = Published(r, "COMPLETED")
    /\ UNCHANGED <<keys, active, accept, rideKeys, at, told, purse, booked, agreed, traffic, left>>

(* A key runs out. *)
Lapse ==
    /\ Spend("lapses")
    /\ \/ stage' = "none" /\ UNCHANGED <<route, active, accept, meta, pending>>
       \/ route' = None /\ UNCHANGED <<stage, active, accept, meta, pending>>
       \/ active' = None /\ UNCHANGED <<stage, route, accept, meta, pending>>
       \/ accept' = None /\ UNCHANGED <<stage, route, active, meta, pending>>
       \/ pending' = None /\ UNCHANGED <<stage, route, active, accept, meta>>
       \/ \E r \in meta : meta' = meta \ {r} /\ UNCHANGED <<stage, route, active, accept, pending>>
    /\ UNCHANGED <<location, lastRoute, state, bids, batch, flush, market, at, told, lock,
                   submitted, unseen, booked, agreed, traffic>>

-----------------------------------------------------------------------------
Webhook(w) ==
    \/ Receive(w) \/ Fails(w)
    \/ AskReason(w) \/ CancelReason(w) \/ CancelBooking(w)
    \/ PickupNamed(w) \/ SessionExpired(w) \/ PlanTrip(w) \/ Quote(w) \/ QuotePriced(w)
    \/ NotConfirmed(w)
    \/ AskEdit(w) \/ PlanEdit(w) \/ CancelEdited(w) \/ Requote(w)
    \/ Decide(w) \/ (\E r \in Rides : Book(w, r)) \/ Enter(w)
    \/ Choose(w) \/ Chosen(w) \/ Pay(w) \/ Paid(w) \/ More(w) \/ Counter(w) \/ Countered(w)
    \/ Withdraw(w) \/ EndWithdrawal(w) \/ GiveAmount(w) \/ AskBank(w) \/ BankAnswers(w)
    \/ MovesOn(w) \/ SendForm(w) \/ ConfirmWithdrawal(w) \/ Lock(w) \/ Submit(w) \/ Submitted(w)

Consumer(r) == TakeBid(r) \/ Flush(r) \/ RideOver(r) \/ DriverAssigned(r)

WhatsAppNext ==
    \/ \E w \in Webhooks : Webhook(w)
    \/ \E r \in Rides : Consumer(r) \/ DriverBids(r) \/ RideService(r)
    \/ Lapse

WhatsAppSpec == WhatsAppInit /\ [][WhatsAppNext]_whatsappVars

-----------------------------------------------------------------------------
(* Every ride that is requested goes over a route the rider has been shown *)
(* with its addresses, however many messages are handled at once: a price  *)
(* in the first message does not book, an edit is shown before it counts.  *)
BookedRouteWasShown == \A r \in Rides : booked[r] # 0 => booked[r] \in quoted

(* Every fare that is held and agreed in the rider's name is a driver's    *)
(* price the rider has been sent in a list for that ride, although bids    *)
(* are replaced and the lists renumbered while the rider answers.          *)
FareWasListed == agreed \subseteq listed

(* A withdrawal is submitted only with an amount, a bank and an account    *)
(* that one form has shown the rider together, although a correction, the  *)
(* bank's answers and the "yes" to an earlier form may cross               *)
(* (whatsapp.route.ts:1750).  Excepted: a form that is stored and still on *)
(* its way, or that failed to go out, and a whole form over which a late   *)
(* answer has written another bank.                                        *)
OnTheirWay == UNION {FormOf(w) : w \in Webhooks}

SubmittedAsShown == submitted \subseteq prompted \cup OnTheirWay \cup unseen
=============================================================================

----------------------------- MODULE Interstate -----------------------------
(***************************************************************************)
(* Interstate travel: one departure, the seats riders buy, offer for and   *)
(* give back, and the drivers who take it.                                 *)
(* packages/db/src/clients/interstate.client.ts behind                     *)
(* apps/api-gateway/src/http/interstate.route.ts.                          *)
(*                                                                         *)
(* bookSeats, acceptOffer and cancelBooking are READ COMMITTED             *)
(* transactions that read rows, and later write by id, on the strength of  *)
(* what they read: Begin* is the reading, Commit* the writing, which       *)
(* starts with a row lock kept to the end.  offerForSeats does the same    *)
(* without a transaction.  A wallet too short for the fare is an Abort.    *)
(***************************************************************************)
EXTENDS Tally

CONSTANTS
    Bookings,
    RiderOf,        \* whose booking it is
    Drivers,
    NoDriver,
    Workers,        \* callers that may be inside a transaction at the same time
    TotalSeats,     \* capacity of the vehicle
    Price,          \* posted fare of a seat
    Bid             \* what a rider who bids offers for a seat

ASSUME InterstateAssumption ==
    /\ IsFiniteSet(Bookings)
    /\ NoDriver \notin Drivers
    /\ TotalSeats \in Nat \ {0}
    /\ Price \in Nat /\ Bid \in Nat
    /\ 0 < Bid /\ Bid < Price

VARIABLES
    mode,           \* bookingMode of the departure ("NONE": no row yet)
    status,         \* its status
    seatsBooked,
    driver,         \* its driverId
    phase,          \* how far off departureAt is
    booking,        \* the booking rows: status, seats, amountNgn
    charged,        \* amount of the RIDE_PAYMENT row of each booking, 0 if none
    refunded,       \* amount of the REFUND row of each booking, 0 if none
    arriving,       \* between the two updates that complete a trip
    tx,             \* the transaction each worker is in
    raced           \* bookings written on a row that had changed since it was read

departure == <<mode, status, seatsBooked, driver>>
money == <<charged, refunded>>
vars == <<departure, phase, booking, money, arriving, tx, raced>>

Seats == 1..TotalSeats
Fares == 0..(TotalSeats * Price)
Statuses == {"NONE", "SCHEDULED", "FILLING", "FULL", "DISPATCHED", "IN_TRANSIT",
             "COMPLETED", "CANCELLED"}
BookingStatuses == {"NONE", "PENDING_OFFER", "OFFER_DECLINED", "CONFIRMED",
                    "CANCELLED", "REFUNDED", "COMPLETED"}
Rows == [status : BookingStatuses, seats : 0..TotalSeats, amount : Fares]
Row(s, seats, amount) == [status |-> s, seats |-> seats, amount |-> amount]
NoRow == Row("NONE", 0, 0)

Idle == [op |-> "idle"]
Transactions ==
    [op : {"book"}, req : Bookings, seats : Seats, seen : Int]
        \cup [op : {"offer"}, req : Bookings, seats : Seats, row : Rows]
        \cup [op : {"accept"}, req : Bookings, row : Rows, seen : Int,
              taken : BOOLEAN, driver : Drivers]
        \cup [op : {"cancel"}, req : Bookings, row : Rows, refund : Fares]

(* A departure somebody scheduled, or none until a rider asks for one.     *)
Init ==
    /\ \/ mode = "NONE" /\ status = "NONE"
       \/ mode = "SHARED" /\ status = "SCHEDULED"
    /\ seatsBooked = 0
    /\ driver = NoDriver
    /\ phase = "early"
    /\ booking = [b \in Bookings |-> NoRow]
    /\ charged = [b \in Bookings |-> 0]
    /\ refunded = [b \in Bookings |-> 0]
    /\ arriving = FALSE
    /\ tx = [w \in Workers |-> Idle]
    /\ raced = {}

-----------------------------------------------------------------------------

(* refundFractionFor: all of it a day ahead, a part of it later, nothing   *)
(* in the last two hours.                                                  *)
Refund(amount) ==
    CASE phase = "early" -> amount
      [] phase = "part" -> amount \div 2
      [] OTHER -> 0

(* BOOKING_CUTOFF_MINUTES. *)
Open == phase # "closed"

Sellable == status \in {"SCHEDULED", "FILLING"}

(* Faulty variants, each one slip in the code it stands for. *)
RoomUnchecked(seats) == Sellable
RoomWhateverStatus(seats) ==
    status \notin {"NONE", "CANCELLED"} /\ seatsBooked <= TotalSeats - seats
WasPaidAlways(row) == TRUE

(* The conditional update that claims seats. *)
RoomFor(seats) == Sellable /\ seatsBooked <= TotalSeats - seats

(* The status written after a claim, from the seats read before it. *)
Filled(booked, seats) == IF booked + seats >= TotalSeats THEN "FULL" ELSE "FILLING"

(* Withdrawing a bid is not cancelling a booking. *)
WasPaid(row) == row.status = "CONFIRMED"

(* Accepting a passenger's price is also taking the trip. *)
TakesTrip(w) == tx[w].driver

Begin(w, t) == tx[w] = Idle /\ tx' = [tx EXCEPT ![w] = t]
End(w) == tx' = [tx EXCEPT ![w] = Idle]

(* A row not there yet is created by one caller: its id is new. *)
Fresh(b) ==
    /\ booking[b] = NoRow
    /\ \A w \in Workers : tx[w] # Idle => tx[w].req # b

Reading == <<departure, phase, booking, money, arriving, raced>>

(* A write by id of a row as it was read; the race is recorded. *)
Races(b, row) == raced' = IF booking[b] = row THEN raced ELSE raced \cup {b}

Charge(b, amount) ==
    /\ charged[b] = 0
    /\ charged' = [charged EXCEPT ![b] = amount]

-----------------------------------------------------------------------------
(***************************************************************************)
(* Riders                                                                  *)
(***************************************************************************)
(* createTravelRequest: the whole vehicle or some seats, at the posted     *)
(* fare (paid at once) or below it (an offer).                             *)
TravelRequest(b, alone, seats, bids) ==
    /\ mode = "NONE" /\ Open /\ Fresh(b)
    /\ alone => seats = TotalSeats
    /\ mode' = IF alone THEN "CHARTER" ELSE "SHARED"
    /\ status' = IF bids \/ seats < TotalSeats THEN "SCHEDULED" ELSE "FULL"
    /\ seatsBooked' = IF bids THEN 0 ELSE seats
    /\ booking' = [booking EXCEPT ![b] =
                      IF bids THEN Row("PENDING_OFFER", seats, seats * Bid)
                      ELSE Row("CONFIRMED", seats, seats * Price)]
    /\ IF bids THEN UNCHANGED charged ELSE Charge(b, seats * Price)
    /\ UNCHANGED <<driver, phase, refunded, arriving, tx, raced>>

Charter(b) ==
    /\ mode = "NONE" /\ Open /\ Fresh(b)
    /\ mode' = "CHARTER"
    /\ status' = "FULL"
    /\ seatsBooked' = TotalSeats
    /\ booking' = [booking EXCEPT ![b] =
                      Row("CONFIRMED", TotalSeats, TotalSeats * Price)]
    /\ Charge(b, TotalSeats * Price)
    /\ UNCHANGED <<driver, phase, refunded, arriving, tx, raced>>

ForSale(seats) ==
    /\ mode = "SHARED" /\ Sellable /\ Open
    /\ TotalSeats - seatsBooked >= seats

BeginBookSeats(w, b, seats) ==
    /\ Fresh(b) /\ ForSale(seats)
    /\ Begin(w, [op |-> "book", req |-> b, seats |-> seats, seen |-> seatsBooked])
    /\ UNCHANGED Reading

(* Seats just taken: nothing is written. *)
CommitBookSeats(w) ==
    /\ tx[w].op = "book"
    /\ LET b == tx[w].req
           seats == tx[w].seats
       IN  \/ /\ RoomFor(seats)
              /\ seatsBooked' = seatsBooked + seats
              /\ status' = Filled(tx[w].seen, seats)
              /\ Charge(b, seats * Price)
              /\ booking' = [booking EXCEPT ![b] = Row("CONFIRMED", seats, seats * Price)]
           \/ /\ ~RoomFor(seats)
              /\ UNCHANGED <<seatsBooked, status, charged, booking>>
    /\ End(w)
    /\ UNCHANGED <<mode, driver, phase, refunded, arriving, raced>>

(* offerForSeats finds the rider's live bid on the departure, if any. *)
BeginOffer(w, b, seats) ==
    /\ ForSale(seats)
    /\ \/ booking[b].status = "PENDING_OFFER"
       \/ Fresh(b) /\ \A x \in Bookings :
                         RiderOf[x] = RiderOf[b] => booking[x].status # "PENDING_OFFER"
    /\ Begin(w, [op |-> "offer", req |-> b, seats |-> seats, row |-> booking[b]])
    /\ UNCHANGED Reading

(* It replaces that bid by id, whatever has become of it. *)
CommitOffer(w) ==
    /\ tx[w].op = "offer"
    /\ LET b == tx[w].req
           seats == tx[w].seats
           kept == IF tx[w].row = NoRow THEN "PENDING_OFFER" ELSE booking[b].status
       IN  /\ booking' = [booking EXCEPT ![b] = Row(kept, seats, seats * Bid)]
           /\ Races(b, tx[w].row)
    /\ End(w)
    /\ UNCHANGED <<departure, phase, money, arriving>>

BeginCancelBooking(w, b) ==
    /\ \/ booking[b].status = "PENDING_OFFER"
       \/ booking[b].status = "CONFIRMED" /\ status \notin {"IN_TRANSIT", "COMPLETED"}
    /\ Begin(w, [op |-> "cancel", req |-> b, row |-> booking[b],
                 refund |-> Refund(booking[b].amount)])
    /\ UNCHANGED Reading

(* Transaction is unique on wallet, type, direction and reference: a       *)
(* second refund of a booking rolls back.                                  *)
Refundable(w) == tx[w].refund > 0 => refunded[tx[w].req] = 0

(* A charter takes its departure with it, a seat returns to the pool. *)
SeatsReturn(seats) ==
    IF mode = "CHARTER"
    THEN status' = "CANCELLED" /\ UNCHANGED seatsBooked
    ELSE /\ seatsBooked' = seatsBooked - seats
         /\ status' = IF status \notin {"FULL", "FILLING"} THEN status
                      ELSE IF seatsBooked' > 0 THEN "FILLING" ELSE "SCHEDULED"

CommitCancelBooking(w) ==
    /\ tx[w].op = "cancel"
    /\ LET b == tx[w].req
           row == tx[w].row
           refund == tx[w].refund
       IN  \/ /\ WasPaid(row) /\ Refundable(w)
              /\ refunded' = [refunded EXCEPT ![b] = IF refund > 0 THEN refund ELSE @]
              /\ booking' = [booking EXCEPT ![b].status =
                                IF refund > 0 THEN "REFUNDED" ELSE "CANCELLED"]
              /\ SeatsReturn(row.seats)
              /\ Races(b, row)
           \/ /\ ~WasPaid(row)
              /\ booking' = [booking EXCEPT ![b].status = "CANCELLED"]
              /\ Races(b, row)
              /\ UNCHANGED <<refunded, seatsBooked, status>>
           \/ /\ WasPaid(row) /\ ~Refundable(w)
              /\ UNCHANGED <<refunded, booking, seatsBooked, status, raced>>
    /\ End(w)
    /\ UNCHANGED <<mode, driver, phase, charged, arriving>>

Abort(w) ==
    /\ tx[w] # Idle
    /\ End(w)
    /\ UNCHANGED Reading

-----------------------------------------------------------------------------
(***************************************************************************)
(* Drivers                                                                 *)
(***************************************************************************)
BeginAcceptOffer(w, b, d) ==
    /\ booking[b].status = "PENDING_OFFER" /\ Open
    /\ Begin(w, [op |-> "accept", req |-> b, row |-> booking[b], seen |-> seatsBooked,
                 taken |-> driver # NoDriver, driver |-> d])
    /\ UNCHANGED Reading

(* Seats that went while the offer was waiting: the error rolls back the   *)
(* OFFER_DECLINED written before it, too.  So does a second charge.        *)
CommitAcceptOffer(w) ==
    /\ tx[w].op = "accept"
    /\ LET b == tx[w].req
           row == tx[w].row
       IN  \/ /\ RoomFor(row.seats)
              /\ Charge(b, row.amount)
              /\ seatsBooked' = seatsBooked + row.seats
              /\ status' = Filled(tx[w].seen, row.seats)
              /\ driver' = IF tx[w].taken THEN driver ELSE TakesTrip(w)
              /\ booking' = [booking EXCEPT ![b].status = "CONFIRMED"]
              /\ Races(b, row)
           \/ /\ ~RoomFor(row.seats) \/ charged[b] # 0
              /\ UNCHANGED <<seatsBooked, status, driver, charged, booking, raced>>
    /\ End(w)
    /\ UNCHANGED <<mode, phase, refunded, arriving>>

DeclineOffer(b) ==
    /\ booking[b].status = "PENDING_OFFER"
    /\ booking' = [booking EXCEPT ![b].status = "OFFER_DECLINED"]
    /\ UNCHANGED <<departure, phase, money, arriving, tx, raced>>

ClaimDeparture(d) ==
    /\ driver = NoDriver /\ status \in {"SCHEDULED", "FILLING", "FULL"}
    /\ driver' = d
    /\ status' = "DISPATCHED"
    /\ UNCHANGED <<mode, seatsBooked, phase, booking, money, arriving, tx, raced>>

(* advanceDriverDeparture: on the road ... *)
StartDeparture(d) ==
    /\ driver = d /\ status = "DISPATCHED"
    /\ status' = "IN_TRANSIT"
    /\ UNCHANGED <<mode, seatsBooked, driver, phase, booking, money, arriving, tx, raced>>

(* ... and arrived, the bookings in an update of their own, which a        *)
(* gateway that dies never makes.                                          *)
CompleteDeparture(d) ==
    /\ driver = d /\ status = "IN_TRANSIT"
    /\ status' = "COMPLETED"
    /\ arriving' = TRUE
    /\ UNCHANGED <<mode, seatsBooked, driver, phase, booking, money, tx, raced>>

CompleteBookings ==
    /\ arriving
    /\ booking' = [b \in Bookings |->
          IF booking[b].status = "CONFIRMED"
          THEN [booking[b] EXCEPT !.status = "COMPLETED"] ELSE booking[b]]
    /\ arriving' = FALSE
    /\ UNCHANGED <<departure, phase, money, tx, raced>>

GatewayDies ==
    /\ arriving
    /\ arriving' = FALSE
    /\ UNCHANGED <<departure, phase, booking, money, tx, raced>>

-----------------------------------------------------------------------------

Tick ==
    /\ phase # "closed"
    /\ phase' = CASE phase = "early" -> "part"
                  [] phase = "part" -> "late"
                  [] phase = "late" -> "closed"
    /\ UNCHANGED <<departure, booking, money, arriving, tx, raced>>

(* The handlers of interstate.route.ts, as the gateway dispatches to them: *)
(* seats asked for, bought or bid for; a charter, or a booking given back; *)
(* a driver's answer to a bid; a driver's departure.                       *)
SeatRoutes(b) ==
    \/ \E seats \in Seats, alone, bids \in BOOLEAN : TravelRequest(b, alone, seats, bids)
    \/ \E w \in Workers, seats \in Seats : BeginBookSeats(w, b, seats) \/ BeginOffer(w, b, seats)

CharterRoutes(b) == Charter(b) \/ \E w \in Workers : BeginCancelBooking(w, b)

OfferRoutes(b) ==
    DeclineOffer(b) \/ \E w \in Workers, d \in Drivers : BeginAcceptOffer(w, b, d)

DepartureRoutes(d) == ClaimDeparture(d) \/ StartDeparture(d) \/ CompleteDeparture(d)

Next ==
    \/ \E b \in Bookings : SeatRoutes(b) \/ CharterRoutes(b) \/ OfferRoutes(b)
    \/ \E w \in Workers :
          \/ CommitBookSeats(w) \/ CommitOffer(w) \/ CommitAcceptOffer(w)
          \/ CommitCancelBooking(w) \/ Abort(w)
    \/ \E d \in Drivers : DepartureRoutes(d)
    \/ CompleteBookings \/ GatewayDies \/ Tick

Spec == Init /\ [][Next]_vars
-----------------------------------------------------------------------------

TypeOK ==
    /\ mode \in {"NONE", "SHARED", "CHARTER"}
    /\ status \in Statuses
    /\ seatsBooked \in Int
    /\ driver \in Drivers \cup {NoDriver}
    /\ phase \in {"early", "part", "late", "closed"}
    /\ booking \in [Bookings -> Rows]
    /\ charged \in [Bookings -> Fares]
    /\ refunded \in [Bookings -> Fares]
    /\ arriving \in BOOLEAN
    /\ tx \in [Workers -> Transactions \cup {Idle}]
    /\ raced \in SUBSET Bookings

SeatsHeld ==
    [b \in Bookings |-> IF booking[b].status \in {"CONFIRMED", "COMPLETED"}
                        THEN booking[b].seats ELSE 0]

(* Seats are sold once: however buyers, offers, acceptances and            *)
(* cancellations race, seatsBooked never passes the capacity, and as long  *)
(* as no booking was written on a row that had changed, it is what the     *)
(* bookings hold, so nobody stands (a cancelled charter keeps its count).  *)
SeatsMatchBookings ==
    /\ seatsBooked <= TotalSeats
    /\ raced = {} /\ status # "CANCELLED" =>
           seatsBooked = Tally(SeatsHeld, Bookings, TotalSeats)

(* Money moves with the seat: a rider has paid for what is confirmed, the  *)
(* price of the row and nothing back; an offer pending, declined or        *)
(* withdrawn cost nothing; a refund is of a fare paid, and no more than    *)
(* it.  For bookings not written on a stale read.                          *)
FareFollowsSeat ==
    \A b \in Bookings \ raced :
        LET row == booking[b]
        IN  CASE row.status \in {"CONFIRMED", "COMPLETED"} ->
                     charged[b] = row.amount /\ refunded[b] = 0
              [] row.status = "REFUNDED" ->
                     charged[b] = row.amount /\ refunded[b] \in 1..charged[b]
              [] row.status = "CANCELLED" ->
                     charged[b] \in {0, row.amount} /\ refunded[b] = 0
              [] OTHER -> charged[b] = 0 /\ refunded[b] = 0

(* Once a driver has the trip it is neither sold further nor handed to     *)
(* somebody else: an offer accepted or a seat bought on a screen that is   *)
(* behind comes too late.                                                  *)
DispatchedIsSettled ==
    [][(status \in {"DISPATCHED", "IN_TRANSIT", "COMPLETED"}) =>
           driver' = driver /\ seatsBooked' <= seatsBooked]_vars

(***************************************************************************)
(* The contract of SeatSale.  What it calls contested is a booking written *)
(* on a row that had changed.                                              *)
(***************************************************************************)
PlaceOf(b) ==
    CASE booking[b].status = "NONE" -> "FREE"
      [] booking[b].status = "PENDING_OFFER" -> "BID"
      [] booking[b].status = "CONFIRMED" -> "SOLD"
      [] booking[b].status = "COMPLETED" -> "RODE"
      [] OTHER -> "BACK"

TripOf ==
    CASE status = "DISPATCHED" -> "TAKEN"
      [] status = "IN_TRANSIT" -> "ROAD"
      [] status = "COMPLETED" -> "OVER"
      [] status = "CANCELLED" -> "OFF"
      [] OTHER -> "OPEN"

Sale == INSTANCE SeatSale WITH
            sold <- seatsBooked,
            trip <- TripOf,
            place <- [b \in Bookings |-> PlaceOf(b)],
            seats <- SeatsHeld,
            fare <- charged,
            back <- refunded,
            contested <- raced

(* Every step of the routes is a step of the sale or leaves it alone:      *)
(* whatever is bought, bid for, accepted and given back at the same time,  *)
(* seats, fare and row change together.                                    *)
KeepsSaleContract == Sale!Spec
=============================================================================

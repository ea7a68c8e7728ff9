-------------------------- MODULE Interstate_proofs --------------------------
(***************************************************************************)
(* Trips.  Interstate: for every number of seats, riders, drivers and      *)
(* callers, the types of the rows, seats sold once, every seat at its      *)
(* fare, trips settled once they have a driver, and (at the end) that the  *)
(* routes implement SeatSale.  Then a trip under way: for any places,      *)
(* stops and events, and any instances, sockets and faults, the route      *)
(* remembers where the car has been, and a connected driver sees the ride  *)
(* it won.                                                                 *)
(***************************************************************************)
EXTENDS Interstate, TripRoute, TallyTheorems

(* What an open transaction has read and was asked for. *)
LEMMA TxFields ==
    ASSUME TypeOK, NEW w \in Workers
    PROVE  /\ tx[w].op = "book" =>
                  tx[w].req \in Bookings /\ tx[w].seats \in Seats /\ tx[w].seen \in Int
           /\ tx[w].op = "offer" =>
                  tx[w].req \in Bookings /\ tx[w].seats \in Seats /\ tx[w].row \in Rows
           /\ tx[w].op = "accept" =>
                  /\ tx[w].req \in Bookings /\ tx[w].row \in Rows
                  /\ tx[w].seen \in Int /\ tx[w].driver \in Drivers
           /\ tx[w].op = "cancel" =>
                  tx[w].req \in Bookings /\ tx[w].row \in Rows /\ tx[w].refund \in Fares
<1>1. tx[w] \in Transactions \cup {Idle}
    BY DEF TypeOK
<1>2. QED
    BY <1>1 DEF Transactions, Idle

(* Seats at the posted fare, or at the bid, cost no more than the vehicle. *)
LEMMA SeatFares ==
    ASSUME NEW seats \in Seats
    PROVE  seats * Price \in Fares /\ seats * Bid \in Fares
<1>1. seats \in Nat /\ TotalSeats \in Nat /\ seats <= TotalSeats
    BY InterstateAssumption DEF Seats
<1>2. Price \in Nat /\ Bid \in Nat /\ Bid <= Price
    BY InterstateAssumption
<1>3. seats * Price <= TotalSeats * Price
    BY <1>1, <1>2
<1>4. seats * Bid <= seats * Price
    BY <1>1, <1>2
<1>5. seats * Price \in Nat /\ seats * Bid \in Nat /\ TotalSeats * Price \in Nat
    BY <1>1, <1>2
<1>6. QED
    BY <1>3, <1>4, <1>5 DEF Fares

(* A row of as many seats, at either fare. *)
LEMMA RowTyped ==
    ASSUME NEW s \in BookingStatuses, NEW seats \in Seats, NEW amount \in Fares
    PROVE  Row(s, seats, amount) \in Rows
BY InterstateAssumption DEF Row, Rows, Seats

(* A refund is a part of the fare. *)
LEMMA RefundTyped ==
    ASSUME NEW amount \in Fares
    PROVE  Refund(amount) \in Fares
<1>1. TotalSeats * Price \in Nat
    BY InterstateAssumption
<1>2. QED
    BY <1>1 DEF Refund, Fares
-----------------------------------------------------------------------------
(***************************************************************************)
(* Types                                                                   *)
(***************************************************************************)
TxTyped == tx \in [Workers -> Transactions \cup {Idle}]

(* Beginning a transaction records what it read, and ending one forgets it. *)
LEMMA BeginTyped ==
    ASSUME TypeOK, NEW w \in Workers, NEW t \in Transactions, Begin(w, t), Reading' = Reading
    PROVE  TypeOK'
BY DEF TypeOK, Begin, Reading, departure, money

LEMMA EndTyped ==
    ASSUME TypeOK, NEW w \in Workers, End(w)
    PROVE  TxTyped'
BY DEF TypeOK, TxTyped, End

LEMMA InitTypeOK == Init => TypeOK
<1>1. 0 \in Fares /\ 0 \in 0..TotalSeats
    <2>1. TotalSeats * Price \in Nat
        BY InterstateAssumption
    <2>2. QED
        BY <2>1, InterstateAssumption DEF Fares
<1>2. NoRow \in Rows
    BY <1>1 DEF NoRow, Row, Rows, BookingStatuses
<1>3. ASSUME Init
      PROVE  TypeOK
    <2>1. /\ booking \in [Bookings -> Rows]
          /\ charged \in [Bookings -> Fares]
          /\ refunded \in [Bookings -> Fares]
          /\ tx \in [Workers -> Transactions \cup {Idle}]
        BY <1>1, <1>2, <1>3 DEF Init
    <2>2. /\ mode \in {"NONE", "SHARED", "CHARTER"}
          /\ status \in Statuses
          /\ seatsBooked \in Int
          /\ driver \in Drivers \cup {NoDriver}
          /\ phase \in {"early", "part", "late", "closed"}
          /\ raced \in SUBSET Bookings
        BY <1>3 DEF Init, Statuses
    <2>3. arriving \in BOOLEAN
        BY <1>3, Zenon DEF Init
    <2>4. QED
        BY <2>1, <2>2, <2>3, Zenon DEF TypeOK
<1>4. QED
    BY <1>3

LEMMA NextTypeOK == TypeOK /\ [Next]_vars => TypeOK'
<1> SUFFICES ASSUME TypeOK, [Next]_vars
             PROVE  TypeOK'
    OBVIOUS
<1>1. ASSUME NEW b \in Bookings, NEW seats \in Seats, NEW alone \in BOOLEAN,
             NEW bids \in BOOLEAN, TravelRequest(b, alone, seats, bids)
      PROVE  TypeOK'
    <2>1. seats * Price \in Fares /\ seats * Bid \in Fares
        BY SeatFares
    <2>2. /\ Row("PENDING_OFFER", seats, seats * Bid) \in Rows
          /\ Row("CONFIRMED", seats, seats * Price) \in Rows
        BY <2>1, RowTyped DEF BookingStatuses
    <2>3. booking' \in [Bookings -> Rows]
        BY <1>1, <2>2 DEF TravelRequest, TypeOK
    <2>4. charged' \in [Bookings -> Fares]
        BY <1>1, <2>1 DEF TravelRequest, Charge, TypeOK
    <2>5. /\ mode' \in {"NONE", "SHARED", "CHARTER"}
          /\ status' \in Statuses
          /\ seatsBooked' \in Int
        BY <1>1 DEF TravelRequest, Statuses, Seats
    <2>6. QED
        BY <1>1, <2>3, <2>4, <2>5 DEF TravelRequest, TypeOK
<1>2. ASSUME NEW b \in Bookings, Charter(b)
      PROVE  TypeOK'
    <2>1. TotalSeats \in Seats /\ TotalSeats \in Int
        BY InterstateAssumption DEF Seats
    <2>2. TotalSeats * Price \in Fares
        BY <2>1, SeatFares
    <2>3. Row("CONFIRMED", TotalSeats, TotalSeats * Price) \in Rows
        BY <2>1, <2>2, RowTyped DEF BookingStatuses
    <2>4. QED
        BY <1>2, <2>1, <2>2, <2>3 DEF Charter, Charge, TypeOK, Statuses
<1>3. ASSUME NEW b \in Bookings, DeclineOffer(b)
      PROVE  TypeOK'
    BY <1>3 DEF DeclineOffer, departure, money, TypeOK, Rows, BookingStatuses
<1>4. ASSUME NEW w \in Workers, NEW b \in Bookings, NEW seats \in Seats,
             BeginBookSeats(w, b, seats)
      PROVE  TypeOK'
    <2>1. [op |-> "book", req |-> b, seats |-> seats, seen |-> seatsBooked] \in Transactions
        BY DEF Transactions, TypeOK
    <2>2. QED
        BY <1>4, <2>1, BeginTyped DEF BeginBookSeats
<1>5. ASSUME NEW w \in Workers, NEW b \in Bookings, NEW seats \in Seats,
             BeginOffer(w, b, seats)
      PROVE  TypeOK'
    <2>1. [op |-> "offer", req |-> b, seats |-> seats, row |-> booking[b]] \in Transactions
        BY DEF Transactions, TypeOK
    <2>2. QED
        BY <1>5, <2>1, BeginTyped DEF BeginOffer
<1>6. ASSUME NEW w \in Workers, NEW b \in Bookings, NEW d \in Drivers,
             BeginAcceptOffer(w, b, d)
      PROVE  TypeOK'
    <2>1. [op |-> "accept", req |-> b, row |-> booking[b], seen |-> seatsBooked,
           taken |-> driver # NoDriver, driver |-> d] \in Transactions
        BY DEF Transactions, TypeOK
    <2>2. QED
        BY <1>6, <2>1, BeginTyped DEF BeginAcceptOffer
<1>7. ASSUME NEW w \in Workers, NEW b \in Bookings, BeginCancelBooking(w, b)
      PROVE  TypeOK'
    <2>1. booking[b] \in Rows /\ booking[b].amount \in Fares
        BY DEF TypeOK, Rows
    <2>2. [op |-> "cancel", req |-> b, row |-> booking[b],
           refund |-> Refund(booking[b].amount)] \in Transactions
        BY <2>1, RefundTyped DEF Transactions
    <2>3. QED
        BY <1>7, <2>2, BeginTyped DEF BeginCancelBooking
<1>8. ASSUME NEW w \in Workers, CommitBookSeats(w)
      PROVE  TypeOK'
    <2>1. tx[w].req \in Bookings /\ tx[w].seats \in Seats /\ tx[w].seats \in Int
        BY <1>8, TxFields DEF CommitBookSeats, Seats
    <2>2. tx[w].seats * Price \in Fares
        BY <2>1, SeatFares
    <2>3. Row("CONFIRMED", tx[w].seats, tx[w].seats * Price) \in Rows
        BY <2>1, <2>2, RowTyped DEF BookingStatuses
    <2>4. TxTyped'
        BY <1>8, EndTyped DEF CommitBookSeats
    <2>5. status' \in Statuses /\ seatsBooked' \in Int
        BY <1>8, <2>1 DEF CommitBookSeats, TypeOK, Filled, Statuses
    <2>6. charged' \in [Bookings -> Fares] /\ booking' \in [Bookings -> Rows]
        BY <1>8, <2>1, <2>2, <2>3 DEF CommitBookSeats, Charge, TypeOK
    <2>7. QED
        BY <1>8, <2>4, <2>5, <2>6 DEF CommitBookSeats, TypeOK, TxTyped
<1>9. ASSUME NEW w \in Workers, CommitOffer(w)
      PROVE  TypeOK'
    <2> DEFINE b == tx[w].req
               kept == IF tx[w].row = NoRow THEN "PENDING_OFFER" ELSE booking[b].status
    <2>1. b \in Bookings /\ tx[w].seats \in Seats
        BY <1>9, TxFields DEF CommitOffer
    <2>2. kept \in BookingStatuses
        BY <2>1 DEF TypeOK, Rows, BookingStatuses
    <2>3. tx[w].seats * Bid \in Fares
        BY <2>1, SeatFares
    <2>4. Row(kept, tx[w].seats, tx[w].seats * Bid) \in Rows
        BY <2>1, <2>2, <2>3, RowTyped
    <2>5. booking' \in [Bookings -> Rows]
        BY <1>9, <2>4 DEF CommitOffer, TypeOK
    <2>6. raced' \in SUBSET Bookings
        BY <1>9, <2>1 DEF CommitOffer, Races, TypeOK
    <2>7. TxTyped'
        BY <1>9, EndTyped DEF CommitOffer
    <2>8. QED
        BY <1>9, <2>5, <2>6, <2>7 DEF CommitOffer, TypeOK, TxTyped, departure, money
<1>10. ASSUME NEW w \in Workers, CommitAcceptOffer(w)
       PROVE  TypeOK'
    <2>1. /\ tx[w].req \in Bookings /\ tx[w].row.seats \in Int
          /\ tx[w].row.amount \in Fares /\ tx[w].driver \in Drivers
        BY <1>10, TxFields DEF CommitAcceptOffer, Rows
    <2>2. TxTyped'
        BY <1>10, EndTyped DEF CommitAcceptOffer
    <2>3. status' \in Statuses /\ seatsBooked' \in Int
        BY <1>10, <2>1 DEF CommitAcceptOffer, TypeOK, Filled, Statuses
    <2>4. driver' \in Drivers \cup {NoDriver}
        BY <1>10, <2>1 DEF CommitAcceptOffer, TakesTrip, TypeOK
    <2>5. charged' \in [Bookings -> Fares]
        BY <1>10, <2>1 DEF CommitAcceptOffer, Charge, TypeOK
    <2>6. booking' \in [Bookings -> Rows]
        BY <1>10, <2>1 DEF CommitAcceptOffer, TypeOK, Rows, BookingStatuses
    <2>7. raced' \in SUBSET Bookings
        BY <1>10, <2>1 DEF CommitAcceptOffer, Races, TypeOK
    <2>8. QED
        BY <1>10, <2>2, <2>3, <2>4, <2>5, <2>6, <2>7
        DEF CommitAcceptOffer, TypeOK, TxTyped
<1>11. ASSUME NEW w \in Workers, CommitCancelBooking(w)
       PROVE  TypeOK'
    <2>1. tx[w].req \in Bookings /\ tx[w].row.seats \in Int /\ tx[w].refund \in Fares
        BY <1>11, TxFields DEF CommitCancelBooking, Rows
    <2>2. TxTyped'
        BY <1>11, EndTyped DEF CommitCancelBooking
    <2>3. status' \in Statuses /\ seatsBooked' \in Int
        BY <1>11, <2>1 DEF CommitCancelBooking, SeatsReturn, TypeOK, Statuses
    <2>4. refunded' \in [Bookings -> Fares]
        BY <1>11, <2>1 DEF CommitCancelBooking, TypeOK
    <2>5. booking' \in [Bookings -> Rows]
        BY <1>11, <2>1 DEF CommitCancelBooking, TypeOK, Rows, BookingStatuses
    <2>6. raced' \in SUBSET Bookings
        BY <1>11, <2>1 DEF CommitCancelBooking, Races, TypeOK
    <2>7. QED
        BY <1>11, <2>2, <2>3, <2>4, <2>5, <2>6 DEF CommitCancelBooking, TypeOK, TxTyped
<1>12. ASSUME NEW w \in Workers, Abort(w)
       PROVE  TypeOK'
    <2>1. TxTyped'
        BY <1>12, EndTyped DEF Abort
    <2>2. QED
        BY <1>12, <2>1 DEF Abort, Reading, departure, money, TypeOK, TxTyped
<1>13. ASSUME NEW d \in Drivers,
              ClaimDeparture(d) \/ StartDeparture(d) \/ CompleteDeparture(d)
       PROVE  TypeOK'
    BY <1>13 DEF ClaimDeparture, StartDeparture, CompleteDeparture, money, TypeOK, Statuses
<1>14. CASE CompleteBookings
    <2>1. booking' \in [Bookings -> Rows]
        BY <1>14 DEF CompleteBookings, TypeOK, Rows, BookingStatuses
    <2>2. QED
        BY <1>14, <2>1 DEF CompleteBookings, departure, money, TypeOK
<1>15. CASE GatewayDies \/ Tick
    BY <1>15 DEF GatewayDies, Tick, departure, money, TypeOK
<1>16. CASE UNCHANGED vars
    BY <1>16 DEF vars, departure, money, TypeOK
<1>17. QED
    BY <1>1, <1>2, <1>3, <1>4, <1>5, <1>6, <1>7, <1>8, <1>9, <1>10, <1>11, <1>12,
       <1>13, <1>14, <1>15, <1>16
    DEF Next, SeatRoutes, CharterRoutes, OfferRoutes, DepartureRoutes

(* Every reachable state is well typed: the rows hold the statuses, seats  *)
(* and amounts of the schema, and a departure's driver is a driver.        *)
THEOREM TypeCorrect == Spec => []TypeOK
BY InitTypeOK, NextTypeOK, PTL DEF Spec
-----------------------------------------------------------------------------
(***************************************************************************)
(* What every transaction may count on about the row it has read, and what *)
(* there is before a departure is.                                         *)
(***************************************************************************)
(* A booking being made has no row, and nobody else is at it. *)
BuysAlone ==
    \A w \in Workers : tx[w].op = "book" =>
        /\ booking[tx[w].req] = NoRow
        /\ \A v \in Workers \ {w} : tx[v] # Idle => tx[v].req # tx[w].req

(* An offer replaces no seat held, an acceptance was of an offer, and a    *)
(* cancellation of an offer or of a seat.                                  *)
ReadAsChecked ==
    \A w \in Workers :
        /\ tx[w].op = "offer" => tx[w].row.status \in {"NONE", "PENDING_OFFER"}
        /\ tx[w].op = "accept" => tx[w].row.status = "PENDING_OFFER"
        /\ tx[w].op = "cancel" => tx[w].row.status \in {"PENDING_OFFER", "CONFIRMED"}

Undisturbed ==
    mode = "NONE" =>
        /\ status = "NONE" /\ seatsBooked = 0
        /\ \A b \in Bookings : booking[b] = NoRow
        /\ \A w \in Workers : tx[w] = Idle

IInv == TypeOK /\ BuysAlone /\ ReadAsChecked /\ Undisturbed /\ SeatsMatchBookings

LEMMA InitIInv == Init => BuysAlone /\ ReadAsChecked /\ Undisturbed
BY DEF Init, BuysAlone, ReadAsChecked, Undisturbed, Idle

(* Beginning a transaction leaves what the others count on as it was. *)
LEMMA BeginKeeps ==
    ASSUME TypeOK, BuysAlone, NEW w \in Workers, NEW t, Begin(w, t), booking' = booking,
           t.req \in Bookings,
           t.op = "book" => Fresh(t.req),
           t.op \in {"book", "offer", "accept", "cancel"},
           booking[t.req] # NoRow \/ Fresh(t.req)
    PROVE  BuysAlone'
<1>1. /\ tx[w] = Idle /\ tx'[w] = t
      /\ \A v \in Workers : v # w => tx'[v] = tx[v]
    BY DEF Begin, TypeOK
<1>2. tx[w].op = "idle" /\ Idle.op = "idle" /\ t # Idle
    BY <1>1 DEF Idle
<1> SUFFICES ASSUME NEW u \in Workers, tx'[u].op = "book"
             PROVE  /\ booking[tx'[u].req] = NoRow
                    /\ \A v \in Workers \ {u} : tx'[v] # Idle => tx'[v].req # tx'[u].req
    BY DEF BuysAlone
<1>3. CASE u = w
    BY <1>1, <1>3 DEF Fresh
<1>4. CASE u # w
    <2>1. /\ tx[u].op = "book" /\ tx'[u] = tx[u] /\ tx[u] # Idle
          /\ booking[tx[u].req] = NoRow
        BY <1>1, <1>2, <1>4 DEF BuysAlone
    <2>2. t.req # tx[u].req
        BY <2>1 DEF Fresh
    <2>3. QED
        BY <1>1, <1>4, <2>1, <2>2 DEF BuysAlone
<1>5. QED
    BY <1>3, <1>4

(* So does ending one, as long as it writes no row but its own. *)
LEMMA EndKeeps ==
    ASSUME TypeOK, BuysAlone, ReadAsChecked, NEW w \in Workers, End(w), tx[w] # Idle,
           \A b \in Bookings : b # tx[w].req => booking'[b] = booking[b]
    PROVE  BuysAlone' /\ ReadAsChecked'
<1>1. tx'[w] = Idle /\ \A v \in Workers : v # w => tx'[v] = tx[v]
    BY DEF End, TypeOK
<1>2. Idle.op = "idle"
    BY DEF Idle
<1>3. ASSUME NEW u \in Workers, tx'[u].op = "book"
      PROVE  /\ booking'[tx'[u].req] = NoRow
             /\ \A v \in Workers \ {u} : tx'[v] # Idle => tx'[v].req # tx'[u].req
    <2>1. u # w /\ tx'[u] = tx[u]
        BY <1>1, <1>2, <1>3
    <2>2. /\ booking[tx[u].req] = NoRow
          /\ \A v \in Workers \ {u} : tx[v] # Idle => tx[v].req # tx[u].req
        BY <1>3, <2>1 DEF BuysAlone
    <2>3. tx[u].req \in Bookings
        BY <1>3, <2>1, TxFields
    <2>4. tx[w].req # tx[u].req
        BY <2>1, <2>2
    <2>5. QED
        BY <1>1, <2>1, <2>2, <2>3, <2>4
<1>4. ReadAsChecked'
    BY <1>1, <1>2 DEF ReadAsChecked
<1>5. QED
    BY <1>3, <1>4 DEF BuysAlone

(* A row that is new is nobody else's. *)
LEMMA NewRowKeeps ==
    ASSUME TypeOK, BuysAlone, ReadAsChecked, UNCHANGED tx, NEW b \in Bookings,
           booking[b] # NoRow \/ Fresh(b),
           \A x \in Bookings : x # b => booking'[x] = booking[x]
    PROVE  BuysAlone' /\ ReadAsChecked'
<1>1. ASSUME NEW u \in Workers, tx[u].op = "book"
      PROVE  booking'[tx[u].req] = NoRow
    <2>1. tx[u].req \in Bookings /\ tx[u] # Idle /\ booking[tx[u].req] = NoRow
        BY <1>1, TxFields DEF Idle, BuysAlone
    <2>2. tx[u].req # b
        BY <2>1 DEF Fresh
    <2>3. QED
        BY <2>1, <2>2
<1>2. QED
    BY <1>1 DEF BuysAlone, ReadAsChecked

LEMMA NoRowStatus == NoRow.status = "NONE" /\ NoRow.seats = 0
BY DEF NoRow, Row

LEMMA NextReadings ==
    TypeOK /\ BuysAlone /\ ReadAsChecked /\ [Next]_vars => BuysAlone' /\ ReadAsChecked'
<1> SUFFICES ASSUME TypeOK, BuysAlone, ReadAsChecked, [Next]_vars
             PROVE  BuysAlone' /\ ReadAsChecked'
    OBVIOUS
<1>1. ASSUME NEW b \in Bookings, NEW seats \in Seats, NEW alone \in BOOLEAN,
             NEW bids \in BOOLEAN, TravelRequest(b, alone, seats, bids)
      PROVE  BuysAlone' /\ ReadAsChecked'
    <2>1. \A x \in Bookings : x # b => booking'[x] = booking[x]
        BY <1>1 DEF TravelRequest, TypeOK
    <2>2. Fresh(b) /\ UNCHANGED tx
        BY <1>1 DEF TravelRequest
    <2>3. QED
        BY <2>1, <2>2, NewRowKeeps
<1>2. ASSUME NEW b \in Bookings, Charter(b)
      PROVE  BuysAlone' /\ ReadAsChecked'
    <2>1. \A x \in Bookings : x # b => booking'[x] = booking[x]
        BY <1>2 DEF Charter, TypeOK
    <2>2. Fresh(b) /\ UNCHANGED tx
        BY <1>2 DEF Charter
    <2>3. QED
        BY <2>1, <2>2, NewRowKeeps
<1>3. ASSUME NEW b \in Bookings, DeclineOffer(b)
      PROVE  BuysAlone' /\ ReadAsChecked'
    <2>1. \A x \in Bookings : x # b => booking'[x] = booking[x]
        BY <1>3 DEF DeclineOffer, TypeOK
    <2>2. booking[b] # NoRow /\ UNCHANGED tx
        BY <1>3, NoRowStatus DEF DeclineOffer
    <2>3. QED
        BY <2>1, <2>2, NewRowKeeps
<1>4. ASSUME NEW w \in Workers, NEW b \in Bookings, NEW seats \in Seats,
             BeginBookSeats(w, b, seats)
      PROVE  BuysAlone' /\ ReadAsChecked'
    <2> DEFINE t == [op |-> "book", req |-> b, seats |-> seats, seen |-> seatsBooked]
    <2>1. Begin(w, t) /\ booking' = booking /\ Fresh(b)
        BY <1>4 DEF BeginBookSeats, Reading
    <2>2. t.op = "book" /\ t.req = b
        OBVIOUS
    <2> HIDE DEF t
    <2>3. BuysAlone'
        BY <2>1, <2>2, BeginKeeps
    <2>4. ReadAsChecked'
        BY <2>1, <2>2 DEF ReadAsChecked, Begin, TypeOK
    <2>5. QED
        BY <2>3, <2>4
<1>5. ASSUME NEW w \in Workers, NEW b \in Bookings, NEW seats \in Seats,
             BeginOffer(w, b, seats)
      PROVE  BuysAlone' /\ ReadAsChecked'
    <2> DEFINE t == [op |-> "offer", req |-> b, seats |-> seats, row |-> booking[b]]
    <2>1. Begin(w, t) /\ booking' = booking
        BY <1>5 DEF BeginOffer, Reading
    <2>2. \/ booking[b].status = "PENDING_OFFER" /\ booking[b] # NoRow
          \/ Fresh(b) /\ booking[b].status = "NONE"
        BY <1>5, NoRowStatus DEF BeginOffer, Fresh
    <2>3. t.op = "offer" /\ t.req = b /\ t.row = booking[b]
        OBVIOUS
    <2> HIDE DEF t
    <2>4. BuysAlone'
        BY <2>1, <2>2, <2>3, BeginKeeps
    <2>5. ReadAsChecked'
        BY <2>1, <2>2, <2>3 DEF ReadAsChecked, Begin, TypeOK
    <2>6. QED
        BY <2>4, <2>5
<1>6. ASSUME NEW w \in Workers, NEW b \in Bookings, NEW d \in Drivers,
             BeginAcceptOffer(w, b, d)
      PROVE  BuysAlone' /\ ReadAsChecked'
    <2> DEFINE t == [op |-> "accept", req |-> b, row |-> booking[b], seen |-> seatsBooked,
                     taken |-> driver # NoDriver, driver |-> d]
    <2>1. /\ Begin(w, t) /\ booking' = booking
          /\ booking[b].status = "PENDING_OFFER"
        BY <1>6 DEF BeginAcceptOffer, Reading
    <2>2. booking[b] # NoRow
        BY <2>1, NoRowStatus
    <2>3. t.op = "accept" /\ t.req = b /\ t.row = booking[b]
        OBVIOUS
    <2> HIDE DEF t
    <2>4. BuysAlone'
        BY <2>1, <2>2, <2>3, BeginKeeps
    <2>5. ReadAsChecked'
        BY <2>1, <2>3 DEF ReadAsChecked, Begin, TypeOK
    <2>6. QED
        BY <2>4, <2>5
<1>7. ASSUME NEW w \in Workers, NEW b \in Bookings, BeginCancelBooking(w, b)
      PROVE  BuysAlone' /\ ReadAsChecked'
    <2> DEFINE t == [op |-> "cancel", req |-> b, row |-> booking[b],
                     refund |-> Refund(booking[b].amount)]
    <2>1. /\ Begin(w, t) /\ booking' = booking
          /\ booking[b].status \in {"PENDING_OFFER", "CONFIRMED"}
        BY <1>7 DEF BeginCancelBooking, Reading
    <2>2. booking[b] # NoRow
        BY <2>1, NoRowStatus
    <2>3. t.op = "cancel" /\ t.req = b /\ t.row = booking[b]
        OBVIOUS
    <2> HIDE DEF t
    <2>4. BuysAlone'
        BY <2>1, <2>2, <2>3, BeginKeeps
    <2>5. ReadAsChecked'
        BY <2>1, <2>3 DEF ReadAsChecked, Begin, TypeOK
    <2>6. QED
        BY <2>4, <2>5
<1>8. ASSUME NEW w \in Workers,
             \/ CommitBookSeats(w) \/ CommitOffer(w) \/ CommitAcceptOffer(w)
             \/ CommitCancelBooking(w) \/ Abort(w)
      PROVE  BuysAlone' /\ ReadAsChecked'
    <2>1. End(w) /\ tx[w] # Idle
        BY <1>8 DEF CommitBookSeats, CommitOffer, CommitAcceptOffer, CommitCancelBooking,
                    Abort, Idle
    <2>2. \A b \in Bookings : b # tx[w].req => booking'[b] = booking[b]
        BY <1>8 DEF CommitBookSeats, CommitOffer, CommitAcceptOffer, CommitCancelBooking,
                    Abort, Reading, TypeOK
    <2>3. QED
        BY <2>1, <2>2, EndKeeps
<1>9. CASE CompleteBookings
    <2>1. \A b \in Bookings : booking[b] = NoRow => booking'[b] = NoRow
        BY <1>9, NoRowStatus DEF CompleteBookings
    <2>2. UNCHANGED tx
        BY <1>9 DEF CompleteBookings
    <2>3. \A u \in Workers : tx[u].op = "book" => tx[u].req \in Bookings
        BY TxFields
    <2>4. QED
        BY <2>1, <2>2, <2>3 DEF BuysAlone, ReadAsChecked
<1>10. ASSUME UNCHANGED <<booking, tx>>
       PROVE  BuysAlone' /\ ReadAsChecked'
    BY <1>10 DEF BuysAlone, ReadAsChecked
<1>11. ASSUME NEW d \in Drivers,
              ClaimDeparture(d) \/ StartDeparture(d) \/ CompleteDeparture(d)
       PROVE  UNCHANGED <<booking, tx>>
    BY <1>11 DEF ClaimDeparture, StartDeparture, CompleteDeparture
<1>12. CASE GatewayDies \/ Tick \/ UNCHANGED vars
    BY <1>10, <1>12 DEF GatewayDies, Tick, vars
<1>13. QED
    BY <1>1, <1>2, <1>3, <1>4, <1>5, <1>6, <1>7, <1>8, <1>9, <1>10, <1>11, <1>12
    DEF Next, SeatRoutes, CharterRoutes, OfferRoutes, DepartureRoutes

(* Before there is a departure, only a request for one does anything. *)
LEMMA NextUndisturbed ==
    TypeOK /\ Undisturbed /\ [Next]_vars => Undisturbed'
<1> SUFFICES ASSUME TypeOK, Undisturbed, [Next]_vars, mode' = "NONE"
             PROVE  Undisturbed'
    BY DEF Undisturbed
<1>1. mode = "NONE"
    BY DEF Next, SeatRoutes, CharterRoutes, OfferRoutes, DepartureRoutes,
           TravelRequest, Charter, DeclineOffer, BeginBookSeats, BeginOffer,
           BeginAcceptOffer, BeginCancelBooking, CommitBookSeats, CommitOffer,
           CommitAcceptOffer, CommitCancelBooking, Abort, ClaimDeparture, StartDeparture,
           CompleteDeparture, CompleteBookings, GatewayDies, Tick, Reading, departure, vars
<1>2. /\ status = "NONE" /\ seatsBooked = 0
      /\ \A b \in Bookings : booking[b] = NoRow /\ booking[b].status = "NONE"
      /\ \A w \in Workers : tx[w] = Idle /\ tx[w].op = "idle"
    BY <1>1, NoRowStatus DEF Undisturbed, Idle
<1>3. /\ UNCHANGED <<status, seatsBooked, tx>>
      /\ \A b \in Bookings : booking'[b] = booking[b]
    BY <1>1, <1>2
    DEF Next, SeatRoutes, CharterRoutes, OfferRoutes, DepartureRoutes,
        TravelRequest, Charter, DeclineOffer, BeginBookSeats, BeginOffer, ForSale,
        BeginAcceptOffer, BeginCancelBooking, CommitBookSeats, CommitOffer,
        CommitAcceptOffer, CommitCancelBooking, Abort, ClaimDeparture, StartDeparture,
        CompleteDeparture, CompleteBookings, GatewayDies, Tick, Reading, departure, vars
<1>4. QED
    BY <1>2, <1>3 DEF Undisturbed

-----------------------------------------------------------------------------
(***************************************************************************)
(* Seats.  As with the holds, a step does one of few things to the seats:  *)
(* it changes what one booking holds and the count by as much, or neither, *)
(* or it is one the invariant says nothing of (a write on a row that had   *)
(* changed, a charter cancelled).                                          *)
(***************************************************************************)
Column == Tally(SeatsHeld, Bookings, TotalSeats)

Excepted == raced # {} \/ status = "CANCELLED"

SeatsKept == seatsBooked' = seatsBooked /\ SeatsHeld' = SeatsHeld

SeatsMoved(b) ==
    /\ seatsBooked' = seatsBooked - SeatsHeld[b] + SeatsHeld'[b]
    /\ \A x \in Bookings : x # b => SeatsHeld'[x] = SeatsHeld[x]

SeatsMove ==
    /\ seatsBooked' <= TotalSeats
    /\ Excepted => Excepted'
    /\ Excepted' \/ SeatsKept \/ \E b \in Bookings : SeatsMoved(b)

LEMMA HeldTyped ==
    ASSUME TypeOK
    PROVE  SeatsHeld \in [Bookings -> 0..TotalSeats]
<1>1. \A b \in Bookings : booking[b].seats \in 0..TotalSeats
    BY DEF TypeOK, Rows
<1>2. 0 \in 0..TotalSeats
    BY InterstateAssumption
<1>3. QED
    BY <1>1, <1>2 DEF SeatsHeld

(* Rows that did not change hold what they held. *)
LEMMA HeldElsewhere ==
    ASSUME NEW b, \A x \in Bookings : x # b => booking'[x] = booking[x]
    PROVE  \A x \in Bookings : x # b => SeatsHeld'[x] = SeatsHeld[x]
BY DEF SeatsHeld

LEMMA SeatsMoveKeeps ==
    ASSUME TypeOK, TypeOK', SeatsMatchBookings, SeatsMove
    PROVE  SeatsMatchBookings'
<1> DEFINE f == SeatsHeld
           g == SeatsHeld'
<1>1. f \in [Bookings -> 0..TotalSeats]
    BY HeldTyped
<1>2. g \in [Bookings -> 0..TotalSeats]
    <2>1. \A b \in Bookings : booking'[b].seats \in 0..TotalSeats
        BY DEF TypeOK, Rows
    <2>2. 0 \in 0..TotalSeats
        BY InterstateAssumption
    <2>3. QED
        BY <2>1, <2>2 DEF SeatsHeld
<1>3. IsFiniteSet(Bookings) /\ TotalSeats \in Nat
    BY InterstateAssumption
<1>4. ASSUME ~Excepted'
      PROVE  seatsBooked' = Tally(g, Bookings, TotalSeats)
    <2>1. ~Excepted
        BY <1>4 DEF SeatsMove
    <2>2. seatsBooked = Tally(f, Bookings, TotalSeats)
        BY <2>1 DEF Excepted, SeatsMatchBookings
    <2>3. CASE SeatsKept
        <3>1. g = f
            BY <2>3 DEF SeatsKept
        <3>2. seatsBooked' = seatsBooked
            BY <2>3 DEF SeatsKept
        <3> HIDE DEF f, g
        <3>3. QED
            BY <2>2, <3>1, <3>2, Zenon
    <2>4. ASSUME NEW b \in Bookings, SeatsMoved(b)
          PROVE  seatsBooked' = Tally(g, Bookings, TotalSeats)
        <3>1. /\ seatsBooked' = seatsBooked - f[b] + g[b]
              /\ \A x \in Bookings : x # b => g[x] = f[x]
            BY <2>4 DEF SeatsMoved
        <3> HIDE DEF f, g
        <3>2. DiffersAt(f, g, b, Bookings, TotalSeats)
            BY <1>1, <1>2, <1>3, <3>1, TallyAt
        <3>3. QED
            BY <2>2, <3>1, <3>2, Zenon DEF DiffersAt
    <2>5. QED
        BY <1>4, <2>3, <2>4 DEF SeatsMove
<1>5. seatsBooked' <= TotalSeats
    BY DEF SeatsMove
<1>6. QED
    BY <1>4, <1>5, Zenon DEF SeatsMatchBookings, Excepted

LEMMA StepMovesSeats ==
    ASSUME IInv, [Next]_vars
    PROVE  SeatsMove
<1> USE DEF IInv
<1>0. /\ TotalSeats \in Nat \ {0} /\ seatsBooked \in Int /\ seatsBooked <= TotalSeats
      /\ status \in Statuses
    BY InterstateAssumption DEF TypeOK, SeatsMatchBookings
<1>1. ASSUME NEW b \in Bookings, NEW seats \in Seats, NEW alone \in BOOLEAN,
             NEW bids \in BOOLEAN, TravelRequest(b, alone, seats, bids)
      PROVE  SeatsMove
    <2>1. seats \in Int /\ seats <= TotalSeats
        BY <1>0 DEF Seats
    <2>2. /\ status = "NONE" /\ seatsBooked = 0 /\ booking[b] = NoRow
          /\ raced' = raced
        BY <1>1 DEF TravelRequest, Undisturbed
    <2>3. SeatsHeld[b] = 0
        BY <2>2, NoRowStatus DEF SeatsHeld
    <2>4. /\ \A x \in Bookings : x # b => booking'[x] = booking[x]
          /\ booking'[b] = IF bids THEN Row("PENDING_OFFER", seats, seats * Bid)
                           ELSE Row("CONFIRMED", seats, seats * Price)
          /\ seatsBooked' = IF bids THEN 0 ELSE seats
        BY <1>1 DEF TravelRequest, TypeOK
    <2>5. SeatsHeld'[b] = IF bids THEN 0 ELSE seats
        BY <2>4 DEF SeatsHeld, Row
    <2>6. SeatsMoved(b)
        BY <2>1, <2>2, <2>3, <2>4, <2>5, HeldElsewhere DEF SeatsMoved
    <2>7. QED
        BY <1>0, <2>1, <2>2, <2>4, <2>6 DEF SeatsMove, Excepted
<1>2. ASSUME NEW b \in Bookings, Charter(b)
      PROVE  SeatsMove
    <2>1. /\ status = "NONE" /\ seatsBooked = 0 /\ booking[b] = NoRow
          /\ raced' = raced
        BY <1>2 DEF Charter, Undisturbed
    <2>2. SeatsHeld[b] = 0
        BY <2>1, NoRowStatus DEF SeatsHeld
    <2>3. /\ \A x \in Bookings : x # b => booking'[x] = booking[x]
          /\ booking'[b] = Row("CONFIRMED", TotalSeats, TotalSeats * Price)
          /\ seatsBooked' = TotalSeats
        BY <1>2 DEF Charter, TypeOK
    <2>4. SeatsHeld'[b] = TotalSeats
        BY <2>3 DEF SeatsHeld, Row
    <2>5. SeatsMoved(b)
        BY <1>0, <2>1, <2>2, <2>3, <2>4, HeldElsewhere DEF SeatsMoved
    <2>6. QED
        BY <1>0, <2>1, <2>3, <2>5 DEF SeatsMove, Excepted
<1>3. ASSUME NEW b \in Bookings, DeclineOffer(b)
      PROVE  SeatsMove
    <2>1. /\ booking[b].status = "PENDING_OFFER"
          /\ booking'[b].status = "OFFER_DECLINED"
          /\ \A x \in Bookings : x # b => booking'[x] = booking[x]
          /\ UNCHANGED <<seatsBooked, status, raced>>
        BY <1>3 DEF DeclineOffer, departure, TypeOK
    <2>2. SeatsHeld[b] = 0 /\ SeatsHeld'[b] = 0
        BY <2>1 DEF SeatsHeld
    <2>3. SeatsMoved(b)
        BY <1>0, <2>1, <2>2, HeldElsewhere DEF SeatsMoved
    <2>4. QED
        BY <1>0, <2>1, <2>3 DEF SeatsMove, Excepted
<1>4. ASSUME NEW w \in Workers, CommitBookSeats(w)
      PROVE  SeatsMove
    <2> DEFINE b == tx[w].req
               seats == tx[w].seats
    <2>1. b \in Bookings /\ seats \in Seats /\ seats \in Int
        BY <1>4, TxFields DEF CommitBookSeats, Seats
    <2>2. booking[b] = NoRow /\ raced' = raced
        BY <1>4 DEF CommitBookSeats, BuysAlone
    <2>3. CASE RoomFor(seats)
        <3>1. /\ seatsBooked' = seatsBooked + seats
              /\ status' \in {"FULL", "FILLING"}
              /\ \A x \in Bookings : x # b => booking'[x] = booking[x]
              /\ booking'[b] = Row("CONFIRMED", seats, seats * Price)
            BY <1>4, <2>1, <2>3 DEF CommitBookSeats, Filled, TypeOK
        <3>2. status # "CANCELLED" /\ seatsBooked' <= TotalSeats
            BY <1>0, <2>1, <2>3, <3>1 DEF RoomFor, Sellable
        <3>3. SeatsHeld[b] = 0 /\ SeatsHeld'[b] = seats
            BY <2>1, <2>2, <3>1, NoRowStatus DEF SeatsHeld, Row
        <3>4. SeatsMoved(b)
            <4>1. \A x \in Bookings : x # b => SeatsHeld'[x] = SeatsHeld[x]
                BY <3>1, HeldElsewhere
            <4>2. QED
                BY <1>0, <2>1, <3>1, <3>3, <4>1 DEF SeatsMoved
        <3>5. QED
            BY <2>1, <2>2, <3>2, <3>4 DEF SeatsMove, Excepted
    <2>4. CASE ~RoomFor(seats)
        BY <1>0, <1>4, <2>2, <2>4 DEF CommitBookSeats, SeatsMove, SeatsKept, SeatsHeld, Excepted
    <2>5. QED
        BY <2>3, <2>4
<1>5. ASSUME NEW w \in Workers, CommitOffer(w)
      PROVE  SeatsMove
    <2> DEFINE b == tx[w].req
    <2>1. b \in Bookings /\ tx[w].row.status \in {"NONE", "PENDING_OFFER"}
        BY <1>5, TxFields DEF CommitOffer, ReadAsChecked
    <2>2. UNCHANGED <<seatsBooked, status>>
        BY <1>5 DEF CommitOffer, departure
    <2>3. CASE booking[b] = tx[w].row
        <3>1. raced' = raced
            BY <1>5, <2>3 DEF CommitOffer, Races
        <3>2. /\ booking'[b].status \in {"NONE", "PENDING_OFFER"}
              /\ \A x \in Bookings : x # b => booking'[x] = booking[x]
            BY <1>5, <2>1, <2>3 DEF CommitOffer, Row, TypeOK
        <3>3. SeatsHeld[b] = 0 /\ SeatsHeld'[b] = 0
            BY <2>1, <2>3, <3>2 DEF SeatsHeld
        <3>4. SeatsMoved(b)
            BY <1>0, <2>2, <3>2, <3>3, HeldElsewhere DEF SeatsMoved
        <3>5. QED
            BY <1>0, <2>1, <2>2, <3>1, <3>4 DEF SeatsMove, Excepted
    <2>4. CASE booking[b] # tx[w].row
        <3>1. raced' # {}
            BY <1>5, <2>4 DEF CommitOffer, Races
        <3>2. QED
            BY <1>0, <2>2, <3>1 DEF SeatsMove, Excepted
    <2>5. QED
        BY <2>3, <2>4
<1>6. ASSUME NEW w \in Workers, CommitAcceptOffer(w)
      PROVE  SeatsMove
    <2> DEFINE b == tx[w].req
               row == tx[w].row
    <2>1. b \in Bookings /\ row.seats \in Int /\ row.status = "PENDING_OFFER"
        BY <1>6, TxFields DEF CommitAcceptOffer, ReadAsChecked, Rows
    <2>2. CASE UNCHANGED <<seatsBooked, status, booking, raced>>
        BY <1>0, <2>2 DEF SeatsMove, SeatsKept, SeatsHeld, Excepted
    <2>3. CASE /\ RoomFor(row.seats)
               /\ seatsBooked' = seatsBooked + row.seats
               /\ status' = Filled(tx[w].seen, row.seats)
               /\ booking' = [booking EXCEPT ![b].status = "CONFIRMED"]
               /\ Races(b, row)
        <3>1. seatsBooked' <= TotalSeats /\ status # "CANCELLED"
            BY <1>0, <2>1, <2>3 DEF RoomFor, Sellable
        <3>2. CASE booking[b] = row
            <4>1. raced' = raced
                BY <2>3, <3>2 DEF Races
            <4>2. /\ booking[b] \in Rows
                  /\ booking'[b].status = "CONFIRMED" /\ booking'[b].seats = row.seats
                  /\ \A x \in Bookings : x # b => booking'[x] = booking[x]
                BY <2>1, <2>3, <3>2 DEF TypeOK, Rows
            <4>3. SeatsHeld[b] = 0 /\ SeatsHeld'[b] = row.seats
                BY <2>1, <3>2, <4>2 DEF SeatsHeld
            <4>4. SeatsMoved(b)
                <5>1. \A x \in Bookings : x # b => SeatsHeld'[x] = SeatsHeld[x]
                    BY <4>2, HeldElsewhere
                <5>2. QED
                    BY <1>0, <2>1, <2>3, <4>3, <5>1 DEF SeatsMoved
            <4>5. status' # "CANCELLED"
                BY <2>3 DEF Filled
            <4>6. QED
                BY <2>1, <3>1, <4>1, <4>4, <4>5 DEF SeatsMove, Excepted
        <3>3. CASE booking[b] # row
            <4>1. raced' # {}
                BY <2>3, <3>3 DEF Races
            <4>2. QED
                BY <3>1, <4>1 DEF SeatsMove, Excepted
        <3>4. QED
            BY <3>2, <3>3
    <2>4. QED
        BY <1>6, <2>2, <2>3 DEF CommitAcceptOffer
<1>7. ASSUME NEW w \in Workers, CommitCancelBooking(w)
      PROVE  SeatsMove
    <2> DEFINE b == tx[w].req
               row == tx[w].row
    <2>1. /\ b \in Bookings /\ row.seats \in 0..TotalSeats /\ row.seats \in Int
          /\ row.seats >= 0
          /\ row.status \in {"PENDING_OFFER", "CONFIRMED"}
        BY <1>0, <1>7, TxFields DEF CommitCancelBooking, ReadAsChecked, Rows
    <2>2. CASE UNCHANGED <<seatsBooked, status, booking, raced>>
        BY <1>0, <2>2 DEF SeatsMove, SeatsKept, SeatsHeld, Excepted
    <2>3. CASE /\ WasPaid(row)
               /\ booking'[b].status \in {"REFUNDED", "CANCELLED"}
               /\ \A x \in Bookings : x # b => booking'[x] = booking[x]
               /\ SeatsReturn(row.seats)
               /\ Races(b, row)
        <3>1. /\ seatsBooked' <= TotalSeats
              /\ status = "CANCELLED" => status' = "CANCELLED"
            <4>1. CASE mode = "CHARTER"
                BY <1>0, <2>3, <4>1 DEF SeatsReturn
            <4>2. CASE mode # "CHARTER"
                <5>1. seatsBooked' = seatsBooked - row.seats
                    BY <2>3, <4>2 DEF SeatsReturn
                <5>2. status = "CANCELLED" => status' = "CANCELLED"
                    BY <2>3, <4>2 DEF SeatsReturn
                <5>3. QED
                    BY <1>0, <2>1, <5>1, <5>2
            <4>3. QED
                BY <4>1, <4>2
        <3>2. CASE status' = "CANCELLED"
            BY <3>1, <3>2 DEF SeatsMove, Excepted
        <3>3. CASE status' # "CANCELLED" /\ booking[b] = row
            <4>1. raced' = raced
                BY <2>3, <3>3 DEF Races
            <4>2. seatsBooked' = seatsBooked - row.seats
                BY <2>3, <3>3 DEF SeatsReturn
            <4>3. SeatsHeld[b] = row.seats /\ SeatsHeld'[b] = 0
                BY <2>1, <2>3, <3>3 DEF SeatsHeld, WasPaid
            <4>4. SeatsMoved(b)
                <5>1. \A x \in Bookings : x # b => SeatsHeld'[x] = SeatsHeld[x]
                    BY <2>3, HeldElsewhere
                <5>2. QED
                    BY <1>0, <2>1, <4>2, <4>3, <5>1 DEF SeatsMoved
            <4>5. QED
                BY <2>1, <3>1, <4>1, <4>4 DEF SeatsMove, Excepted
        <3>4. CASE booking[b] # row
            <4>1. raced' # {}
                BY <2>3, <3>4 DEF Races
            <4>2. QED
                BY <3>1, <4>1 DEF SeatsMove, Excepted
        <3>5. QED
            BY <3>2, <3>3, <3>4
    <2>4. CASE /\ ~WasPaid(row)
               /\ booking'[b].status = "CANCELLED"
               /\ \A x \in Bookings : x # b => booking'[x] = booking[x]
               /\ Races(b, row)
               /\ UNCHANGED <<seatsBooked, status>>
        <3>1. CASE booking[b] = row
            <4>1. raced' = raced
                BY <2>4, <3>1 DEF Races
            <4>2. SeatsHeld[b] = 0 /\ SeatsHeld'[b] = 0
                BY <2>1, <2>4, <3>1 DEF SeatsHeld, WasPaid
            <4>3. SeatsMoved(b)
                BY <1>0, <2>1, <2>4, <4>2, HeldElsewhere DEF SeatsMoved
            <4>4. QED
                BY <1>0, <2>1, <2>4, <4>1, <4>3 DEF SeatsMove, Excepted
        <3>2. CASE booking[b] # row
            <4>1. raced' # {}
                BY <2>4, <3>2 DEF Races
            <4>2. QED
                BY <1>0, <2>4, <4>1 DEF SeatsMove, Excepted
        <3>3. QED
            BY <3>1, <3>2
    <2>5. booking[b] \in Rows
        BY <2>1 DEF TypeOK
    <2>6. QED
        BY <1>7, <2>1, <2>2, <2>3, <2>4, <2>5 DEF CommitCancelBooking, TypeOK, Rows
<1>8. CASE CompleteBookings
    <2>1. UNCHANGED <<seatsBooked, status, raced>>
        BY <1>8 DEF CompleteBookings, departure
    <2>2. ASSUME NEW b \in Bookings
          PROVE  SeatsHeld'[b] = SeatsHeld[b]
        <3>1. booking[b] \in Rows
            BY DEF TypeOK
        <3>2. booking'[b] = IF booking[b].status = "CONFIRMED"
                            THEN [booking[b] EXCEPT !.status = "COMPLETED"] ELSE booking[b]
            BY <1>8 DEF CompleteBookings
        <3>3. QED
            BY <3>1, <3>2 DEF SeatsHeld, Rows
    <2>3. SeatsHeld' = SeatsHeld
        BY <2>2 DEF SeatsHeld
    <2>4. QED
        BY <1>0, <2>1, <2>3 DEF SeatsMove, SeatsKept, Excepted
<1>9. ASSUME UNCHANGED <<seatsBooked, booking, raced>>,
             status = "CANCELLED" => status' = "CANCELLED"
      PROVE  SeatsMove
    BY <1>0, <1>9 DEF SeatsMove, SeatsKept, SeatsHeld, Excepted
<1>10. ASSUME NEW w \in Workers, NEW b \in Bookings,
              \/ \E seats \in Seats : BeginBookSeats(w, b, seats) \/ BeginOffer(w, b, seats)
              \/ \E d \in Drivers : BeginAcceptOffer(w, b, d)
              \/ BeginCancelBooking(w, b)
       PROVE  UNCHANGED <<seatsBooked, booking, raced, status>>
    BY <1>10 DEF BeginBookSeats, BeginOffer, BeginAcceptOffer, BeginCancelBooking, Reading,
                 departure
<1>11. ASSUME NEW d \in Drivers,
              ClaimDeparture(d) \/ StartDeparture(d) \/ CompleteDeparture(d)
       PROVE  UNCHANGED <<seatsBooked, booking, raced>> /\ status # "CANCELLED"
    BY <1>11 DEF ClaimDeparture, StartDeparture, CompleteDeparture
<1>12. ASSUME \/ GatewayDies \/ Tick \/ UNCHANGED vars
              \/ \E w \in Workers : Abort(w)
       PROVE  UNCHANGED <<seatsBooked, booking, raced, status>>
    BY <1>12 DEF GatewayDies, Tick, vars, departure, Abort, Reading
<1>13. QED
    BY <1>1, <1>2, <1>3, <1>4, <1>5, <1>6, <1>7, <1>8, <1>9, <1>10, <1>11, <1>12
    DEF Next, SeatRoutes, CharterRoutes, OfferRoutes, DepartureRoutes

LEMMA InitSeats == Init => SeatsMatchBookings
<1> SUFFICES ASSUME Init
             PROVE  SeatsMatchBookings
    OBVIOUS
<1>1. SeatsHeld = [x \in Bookings |-> 0]
    BY NoRowStatus DEF Init, SeatsHeld
<1>2. Tally([x \in Bookings |-> 0], Bookings, TotalSeats) = 0
    BY InterstateAssumption, TallyZero
<1>3. seatsBooked = 0 /\ 0 <= TotalSeats
    BY InterstateAssumption DEF Init
<1>4. QED
    BY <1>1, <1>2, <1>3 DEF SeatsMatchBookings

LEMMA NextIInv == IInv /\ [Next]_vars => IInv'
<1> SUFFICES ASSUME IInv, [Next]_vars
             PROVE  IInv'
    OBVIOUS
<1>1. TypeOK'
    BY NextTypeOK DEF IInv
<1>2. BuysAlone' /\ ReadAsChecked' /\ Undisturbed'
    BY NextReadings, NextUndisturbed DEF IInv
<1>3. SeatsMatchBookings'
    BY <1>1, StepMovesSeats, SeatsMoveKeeps DEF IInv
<1>4. QED
    BY <1>1, <1>2, <1>3 DEF IInv

(* Seats are sold once: however many riders buy, bid and cancel and        *)
(* however many drivers accept at the same time, a departure never counts  *)
(* more seats than it has, and counts those its bookings hold.             *)
THEOREM SeatsSoldOnce == Spec => []SeatsMatchBookings
<1>1. Init => IInv
    BY InitTypeOK, InitIInv, InitSeats DEF IInv
<1>2. IInv => SeatsMatchBookings
    BY DEF IInv
<1>3. QED
    BY <1>1, <1>2, NextIInv, PTL DEF Spec

-----------------------------------------------------------------------------
(***************************************************************************)
(* Fares.  A step changes the row and the money of one booking, and what   *)
(* it does to that one is right if it was written on the row as it is.     *)
(***************************************************************************)
FarePaid(b) ==
    LET row == booking[b]
    IN  CASE row.status \in {"CONFIRMED", "COMPLETED"} ->
                 charged[b] = row.amount /\ refunded[b] = 0
          [] row.status = "REFUNDED" ->
                 charged[b] = row.amount /\ refunded[b] \in 1..charged[b]
          [] row.status = "CANCELLED" ->
                 charged[b] \in {0, row.amount} /\ refunded[b] = 0
          [] OTHER -> charged[b] = 0 /\ refunded[b] = 0

(* A cancellation under way gives back no more than the fare it has read. *)
RefundsWithinFare ==
    \A w \in Workers : tx[w].op = "cancel" => tx[w].refund <= tx[w].row.amount

FareInv == IInv /\ RefundsWithinFare /\ FareFollowsSeat

(* Elsewhere than in booking b nothing was written. *)
OnlyAt(b) ==
    \A x \in Bookings : x # b =>
        booking'[x] = booking[x] /\ charged'[x] = charged[x] /\ refunded'[x] = refunded[x]

FareMove(b) ==
    /\ raced \subseteq raced' /\ OnlyAt(b)
    /\ b \in raced' \/ FarePaid(b)'

LEMMA FareMoveKeeps ==
    ASSUME FareFollowsSeat, NEW b \in Bookings, FareMove(b)
    PROVE  FareFollowsSeat'
<1> SUFFICES ASSUME NEW x \in Bookings \ raced'
             PROVE  FarePaid(x)'
    BY DEF FareFollowsSeat, FarePaid
<1>1. CASE x = b
    BY <1>1 DEF FareMove
<1>2. CASE x # b
    <2>1. x \in Bookings \ raced
        BY DEF FareMove
    <2>2. FarePaid(x)
        BY <2>1 DEF FareFollowsSeat, FarePaid
    <2>3. booking'[x] = booking[x] /\ charged'[x] = charged[x] /\ refunded'[x] = refunded[x]
        BY <1>2, <2>1 DEF FareMove, OnlyAt
    <2>4. QED
        BY <2>2, <2>3 DEF FarePaid
<1>3. QED
    BY <1>1, <1>2

LEMMA RefundAtMost ==
    ASSUME NEW amount \in Nat
    PROVE  Refund(amount) \in Nat /\ Refund(amount) <= amount
BY DEF Refund

(* Only the beginning of a cancellation fixes a refund. *)
LEMMA NextRefunds == TypeOK /\ RefundsWithinFare /\ [Next]_vars => RefundsWithinFare'
<1> SUFFICES ASSUME TypeOK, RefundsWithinFare, [Next]_vars,
                    NEW u \in Workers, tx'[u].op = "cancel"
             PROVE  tx'[u].refund <= tx'[u].row.amount
    BY DEF RefundsWithinFare
<1>1. CASE tx'[u] = tx[u]
    BY <1>1 DEF RefundsWithinFare
<1>2. ASSUME NEW b \in Bookings, BeginCancelBooking(u, b)
      PROVE  tx'[u].refund <= tx'[u].row.amount
    <2>1. booking[b].amount \in Nat
        BY InterstateAssumption DEF TypeOK, Rows, Fares
    <2>2. /\ tx'[u].row = booking[b]
          /\ tx'[u].refund = Refund(booking[b].amount)
        BY <1>2 DEF BeginCancelBooking, Begin, TypeOK
    <2>3. QED
        BY <2>1, <2>2, RefundAtMost
<1>3. ASSUME tx'[u] # tx[u]
      PROVE  \E b \in Bookings : BeginCancelBooking(u, b)
    <2>1. Idle.op = "idle"
        BY DEF Idle
    <2>2. \A w \in Workers : End(w) => tx'[u] \in {tx[u], Idle}
        BY DEF End, TypeOK
    <2>3. \A w \in Workers : \A t : Begin(w, t) => tx'[u] = tx[u] \/ (u = w /\ tx'[u] = t)
        BY DEF Begin, TypeOK
    <2>4. ASSUME NEW w \in Workers, NEW b \in Bookings, NEW seats \in Seats
          PROVE  ~BeginBookSeats(w, b, seats) /\ ~BeginOffer(w, b, seats)
        BY <1>3, <2>3 DEF BeginBookSeats, BeginOffer
    <2>5. ASSUME NEW w \in Workers, NEW b \in Bookings, NEW d \in Drivers
          PROVE  ~BeginAcceptOffer(w, b, d)
        BY <1>3, <2>3 DEF BeginAcceptOffer
    <2>6. ASSUME NEW w \in Workers
          PROVE  /\ ~CommitBookSeats(w) /\ ~CommitOffer(w) /\ ~CommitAcceptOffer(w)
                 /\ ~CommitCancelBooking(w) /\ ~Abort(w)
        BY <1>3, <2>1, <2>2 DEF CommitBookSeats, CommitOffer, CommitAcceptOffer,
                                CommitCancelBooking, Abort
    <2>7. \A w \in Workers, b \in Bookings : BeginCancelBooking(w, b) => w = u
        BY <1>3, <2>3 DEF BeginCancelBooking
    <2>8. tx' # tx
        BY <1>3
    <2>9. QED
        BY <2>4, <2>5, <2>6, <2>7, <2>8
        DEF Next, SeatRoutes, CharterRoutes, OfferRoutes, DepartureRoutes,
            TravelRequest, Charter, DeclineOffer, ClaimDeparture, StartDeparture,
            CompleteDeparture, CompleteBookings, GatewayDies, Tick, vars
<1>4. QED
    BY <1>1, <1>2, <1>3

FareStep == FareFollowsSeat' \/ \E b \in Bookings : FareMove(b)

LEMMA NewRowIsFree ==
    ASSUME FareFollowsSeat, NEW b \in Bookings \ raced, booking[b] = NoRow
    PROVE  charged[b] = 0 /\ refunded[b] = 0
<1>1. booking[b].status = "NONE"
    BY NoRowStatus
<1>2. FarePaid(b)
    BY DEF FareFollowsSeat, FarePaid
<1>3. QED
    BY <1>1, <1>2 DEF FarePaid

LEMMA StepMovesFare ==
    ASSUME FareInv, [Next]_vars
    PROVE  FareStep
<1> USE DEF FareInv, IInv
<1>0. \A b \in Bookings \ raced : FarePaid(b)
    BY DEF FareFollowsSeat, FarePaid
<1>1. ASSUME NEW b \in Bookings, NEW seats \in Seats, NEW alone \in BOOLEAN,
             NEW bids \in BOOLEAN, TravelRequest(b, alone, seats, bids)
      PROVE  FareStep
    <2>1. OnlyAt(b) /\ raced' = raced /\ booking[b] = NoRow
        BY <1>1 DEF TravelRequest, Charge, Fresh, OnlyAt, TypeOK
    <2>2. CASE b \in raced
        BY <2>1, <2>2 DEF FareStep, FareMove
    <2>3. CASE b \notin raced
        <3>1. charged[b] = 0 /\ refunded[b] = 0
            BY <2>1, <2>3, NewRowIsFree
        <3>2. refunded'[b] = 0
            BY <1>1, <3>1 DEF TravelRequest
        <3>3. FarePaid(b)'
            BY <1>1, <3>1, <3>2 DEF TravelRequest, Charge, FarePaid, Row, TypeOK
        <3>4. QED
            BY <2>1, <3>3 DEF FareStep, FareMove
    <2>4. QED
        BY <2>2, <2>3
<1>2. ASSUME NEW b \in Bookings, Charter(b)
      PROVE  FareStep
    <2>1. OnlyAt(b) /\ raced' = raced /\ booking[b] = NoRow
        BY <1>2 DEF Charter, Charge, Fresh, OnlyAt, TypeOK
    <2>2. CASE b \in raced
        BY <2>1, <2>2 DEF FareStep, FareMove
    <2>3. CASE b \notin raced
        <3>1. refunded[b] = 0
            BY <2>1, <2>3, NewRowIsFree
        <3>2. FarePaid(b)'
            BY <1>2, <3>1 DEF Charter, Charge, FarePaid, Row, TypeOK
        <3>3. QED
            BY <2>1, <3>2 DEF FareStep, FareMove
    <2>4. QED
        BY <2>2, <2>3
<1>3. ASSUME NEW b \in Bookings, DeclineOffer(b)
      PROVE  FareStep
    <2>1. /\ OnlyAt(b) /\ raced' = raced /\ UNCHANGED <<charged, refunded>>
          /\ booking[b].status = "PENDING_OFFER"
          /\ booking'[b].status = "OFFER_DECLINED"
        BY <1>3 DEF DeclineOffer, OnlyAt, money, TypeOK, Rows
    <2>2. FarePaid(b) => FarePaid(b)'
        BY <2>1 DEF FarePaid
    <2>3. QED
        BY <1>0, <2>1, <2>2 DEF FareStep, FareMove
<1>4. ASSUME NEW w \in Workers, CommitBookSeats(w)
      PROVE  FareStep
    <2> DEFINE seats == tx[w].seats
    <2>0. PICK b \in Bookings : b = tx[w].req
        BY <1>4, TxFields DEF CommitBookSeats
    <2>1. booking[b] = NoRow /\ raced' = raced
        BY <1>4, <2>0 DEF CommitBookSeats, BuysAlone
    <2>2. OnlyAt(b) /\ UNCHANGED refunded
        BY <1>4, <2>0 DEF CommitBookSeats, Charge, OnlyAt, TypeOK
    <2>3. CASE b \in raced
        BY <2>1, <2>2, <2>3 DEF FareStep, FareMove
    <2>4. CASE b \notin raced
        <3>1. charged[b] = 0 /\ refunded[b] = 0
            BY <2>1, <2>4, NewRowIsFree
        <3>2. CASE RoomFor(seats)
            <4>1. /\ booking'[b].status = "CONFIRMED"
                  /\ booking'[b].amount = seats * Price
                  /\ charged'[b] = seats * Price
                BY <1>4, <2>0, <2>1, <3>2 DEF CommitBookSeats, Charge, Row, TypeOK
            <4>2. FarePaid(b)'
                BY <2>2, <3>1, <4>1 DEF FarePaid
            <4>3. QED
                BY <2>1, <2>2, <4>2 DEF FareStep, FareMove
        <3>3. CASE ~RoomFor(seats)
            <4>1. UNCHANGED <<charged, booking, refunded>>
                BY <1>4, <2>0, <3>3 DEF CommitBookSeats
            <4>2. FarePaid(b)'
                BY <1>0, <2>1, <2>4, <4>1 DEF FarePaid
            <4>3. QED
                BY <2>1, <2>2, <4>2 DEF FareStep, FareMove
        <3>4. QED
            BY <3>2, <3>3
    <2>5. QED
        BY <2>3, <2>4
<1>5. ASSUME NEW w \in Workers, CommitOffer(w)
      PROVE  FareStep
    <2> DEFINE row == tx[w].row
    <2>0. PICK b \in Bookings : b = tx[w].req
        BY <1>5, TxFields DEF CommitOffer
    <2>1. row.status \in {"NONE", "PENDING_OFFER"}
        BY <1>5, <2>0 DEF CommitOffer, ReadAsChecked
    <2>2. OnlyAt(b) /\ UNCHANGED <<charged, refunded>> /\ raced \subseteq raced'
        BY <1>5, <2>0 DEF CommitOffer, money, Races, OnlyAt, TypeOK
    <2>3. CASE b \in raced'
        BY <2>1, <2>2, <2>3 DEF FareStep, FareMove
    <2>4. CASE b \notin raced'
        <3>1. booking[b] = row /\ b \notin raced
            BY <1>5, <2>0, <2>4 DEF CommitOffer, Races
        <3>2. booking'[b].status \in {"NONE", "PENDING_OFFER"}
            BY <1>5, <2>0, <2>1, <3>1 DEF CommitOffer, Row, TypeOK
        <3>3. FarePaid(b) => FarePaid(b)'
            BY <2>1, <2>2, <3>1, <3>2 DEF FarePaid
        <3>4. QED
            BY <1>0, <2>1, <2>2, <3>1, <3>3 DEF FareStep, FareMove
    <2>5. QED
        BY <2>3, <2>4
<1>6. ASSUME NEW w \in Workers, CommitAcceptOffer(w)
      PROVE  FareStep
    <2> DEFINE row == tx[w].row
    <2>0. PICK b \in Bookings : b = tx[w].req
        BY <1>6, TxFields DEF CommitAcceptOffer
    <2>1. row.status = "PENDING_OFFER"
        BY <1>6, <2>0 DEF CommitAcceptOffer, ReadAsChecked
    <2>2. CASE UNCHANGED <<charged, booking, raced>>
        BY <1>0, <1>6, <2>0, <2>2 DEF CommitAcceptOffer, FareStep, FareFollowsSeat
    <2>3. CASE /\ Charge(b, row.amount)
               /\ booking' = [booking EXCEPT ![b].status = "CONFIRMED"]
               /\ Races(b, row)
        <3>1. OnlyAt(b) /\ UNCHANGED refunded /\ raced \subseteq raced'
            BY <1>6, <2>0, <2>3 DEF CommitAcceptOffer, Charge, Races, OnlyAt, TypeOK
        <3>2. CASE b \in raced'
            BY <2>1, <3>1, <3>2 DEF FareStep, FareMove
        <3>3. CASE b \notin raced'
            <4>1. booking[b] = row /\ b \notin raced
                BY <2>0, <2>3, <3>3 DEF Races
            <4>2. refunded[b] = 0
                BY <1>0, <2>1, <4>1 DEF FarePaid
            <4>3. /\ booking'[b].status = "CONFIRMED"
                  /\ booking'[b].amount = row.amount
                  /\ charged'[b] = row.amount
                BY <2>0, <2>1, <2>3, <4>1 DEF Charge, TypeOK, Rows
            <4>4. FarePaid(b)'
                BY <3>1, <4>2, <4>3 DEF FarePaid
            <4>5. QED
                BY <2>1, <3>1, <4>4 DEF FareStep, FareMove
        <3>4. QED
            BY <3>2, <3>3
    <2>4. QED
        BY <1>6, <2>0, <2>2, <2>3 DEF CommitAcceptOffer
<1>7. ASSUME NEW w \in Workers, CommitCancelBooking(w)
      PROVE  FareStep
    <2> DEFINE row == tx[w].row
               refund == tx[w].refund
    <2>0. PICK b \in Bookings : b = tx[w].req
        BY <1>7, TxFields DEF CommitCancelBooking
    <2>1. /\ row \in Rows
          /\ row.status \in {"PENDING_OFFER", "CONFIRMED"}
          /\ refund \in Int /\ 0 <= refund /\ refund <= row.amount
          /\ row.amount \in Int
        <3>1. refund \in Fares /\ row \in Rows
            BY <1>7, TxFields DEF CommitCancelBooking
        <3>2. QED
            BY <1>7, <2>0, <3>1, InterstateAssumption
            DEF CommitCancelBooking, ReadAsChecked, RefundsWithinFare, Fares, Rows
    <2>2. OnlyAt(b) /\ UNCHANGED charged /\ raced \subseteq raced'
        BY <1>7, <2>0 DEF CommitCancelBooking, Races, OnlyAt, TypeOK
    <2>3. CASE b \in raced'
        BY <2>1, <2>2, <2>3 DEF FareStep, FareMove
    <2>4. CASE UNCHANGED <<refunded, booking, raced>>
        BY <1>0, <2>2, <2>4 DEF FareStep, FareFollowsSeat
    <2>5. CASE b \notin raced' /\ Races(b, row) /\ (WasPaid(row) => Refundable(w))
        <3>1. booking[b] = row /\ b \notin raced
            BY <2>0, <2>5 DEF Races
        <3>2. FarePaid(b)
            BY <1>0, <2>1, <3>1
        <3>3. CASE WasPaid(row) /\ refund > 0
            <4>1. /\ booking'[b].status = "REFUNDED"
                  /\ booking'[b].amount = row.amount
                  /\ refunded'[b] = refund
                BY <1>7, <2>0, <2>1, <2>5, <3>1, <3>3 DEF CommitCancelBooking, TypeOK, Rows, Refundable
            <4>2. charged[b] = row.amount
                BY <3>1, <3>2, <3>3 DEF FarePaid, WasPaid
            <4>3. refund \in 1..row.amount
                BY <2>1, <3>3
            <4>4. FarePaid(b)'
                BY <2>2, <4>1, <4>2, <4>3 DEF FarePaid
            <4>5. QED
                BY <2>1, <2>2, <4>4 DEF FareStep, FareMove
        <3>4. CASE ~WasPaid(row) \/ ~(refund > 0)
            <4>1. /\ booking'[b].status = "CANCELLED"
                  /\ booking'[b].amount = row.amount
                  /\ refunded'[b] = refunded[b]
                BY <1>7, <2>0, <2>1, <2>5, <3>1, <3>4 DEF CommitCancelBooking, TypeOK, Rows
            <4>2. charged[b] \in {0, row.amount} /\ refunded[b] = 0
                BY <2>1, <3>1, <3>2 DEF FarePaid
            <4>3. FarePaid(b)'
                BY <2>2, <4>1, <4>2 DEF FarePaid
            <4>4. QED
                BY <2>1, <2>2, <4>3 DEF FareStep, FareMove
        <3>5. QED
            BY <3>3, <3>4
    <2>6. QED
        BY <1>7, <2>0, <2>3, <2>4, <2>5 DEF CommitCancelBooking
<1>8. CASE CompleteBookings
    <2>1. UNCHANGED <<charged, refunded, raced>>
        BY <1>8 DEF CompleteBookings, money
    <2>2. ASSUME NEW b \in Bookings, FarePaid(b)
          PROVE  FarePaid(b)'
        <3>1. booking[b] \in Rows
            BY DEF TypeOK
        <3>2. booking'[b] = IF booking[b].status = "CONFIRMED"
                            THEN [booking[b] EXCEPT !.status = "COMPLETED"] ELSE booking[b]
            BY <1>8 DEF CompleteBookings
        <3>3. QED
            BY <2>1, <2>2, <3>1, <3>2 DEF FarePaid, Rows
    <2>3. \A b \in Bookings \ raced : FarePaid(b)'
        BY <1>0, <2>2
    <2>4. QED
        BY <2>1, <2>3 DEF FareStep, FareFollowsSeat, FarePaid
<1>9. ASSUME UNCHANGED <<booking, charged, refunded, raced>>
      PROVE  FareStep
    BY <1>9 DEF FareStep, FareFollowsSeat
<1>10. ASSUME NEW w \in Workers, NEW b \in Bookings,
              \/ \E seats \in Seats : BeginBookSeats(w, b, seats) \/ BeginOffer(w, b, seats)
              \/ \E d \in Drivers : BeginAcceptOffer(w, b, d)
              \/ BeginCancelBooking(w, b)
       PROVE  UNCHANGED <<booking, charged, refunded, raced>>
    BY <1>10 DEF BeginBookSeats, BeginOffer, BeginAcceptOffer, BeginCancelBooking, Reading,
                 money
<1>11. ASSUME NEW d \in Drivers,
              ClaimDeparture(d) \/ StartDeparture(d) \/ CompleteDeparture(d)
       PROVE  UNCHANGED <<booking, charged, refunded, raced>>
    BY <1>11 DEF ClaimDeparture, StartDeparture, CompleteDeparture, money
<1>12. ASSUME \/ GatewayDies \/ Tick \/ UNCHANGED vars
              \/ \E w \in Workers : Abort(w)
       PROVE  UNCHANGED <<booking, charged, refunded, raced>>
    BY <1>12 DEF GatewayDies, Tick, vars, Abort, Reading, money
<1>13. QED
    BY <1>1, <1>2, <1>3, <1>4, <1>5, <1>6, <1>7, <1>8, <1>9, <1>10, <1>11, <1>12
    DEF Next, SeatRoutes, CharterRoutes, OfferRoutes, DepartureRoutes

LEMMA NextFareInv == FareInv /\ [Next]_vars => FareInv'
<1> SUFFICES ASSUME FareInv, [Next]_vars
             PROVE  FareInv'
    OBVIOUS
<1>1. IInv' /\ RefundsWithinFare'
    BY NextIInv, NextRefunds DEF FareInv, IInv
<1>2. FareFollowsSeat'
    BY StepMovesFare, FareMoveKeeps DEF FareInv, FareStep
<1>3. QED
    BY <1>1, <1>2 DEF FareInv

LEMMA InitFareInv == Init => FareInv
<1> SUFFICES ASSUME Init
             PROVE  FareInv
    OBVIOUS
<1>1. IInv
    BY InitTypeOK, InitIInv, InitSeats DEF IInv
<1>2. RefundsWithinFare
    BY DEF Init, Idle, RefundsWithinFare
<1>3. FareFollowsSeat
    BY NoRowStatus DEF Init, FareFollowsSeat
<1>4. QED
    BY <1>1, <1>2, <1>3 DEF FareInv

(* Money moves with the seat: however a rider's booking, bid, cancellation *)
(* and a driver's acceptance race, a booking not written on a stale row    *)
(* has been charged its fare exactly when it was confirmed, and given back *)
(* no more than that.                                                      *)
THEOREM FareWithSeat == Spec => []FareFollowsSeat
<1>1. FareInv => FareFollowsSeat
    BY DEF FareInv
<1>2. QED
    BY <1>1, InitFareInv, NextFareInv, PTL DEF Spec

-----------------------------------------------------------------------------
(***************************************************************************)
(* Drivers                                                                 *)
(***************************************************************************)
TripTaken == status \in {"DISPATCHED", "IN_TRANSIT", "COMPLETED"}

Settled == driver' = driver /\ seatsBooked' <= seatsBooked

LEMMA TakenIsSettled ==
    ASSUME TypeOK, Undisturbed, TripTaken, [Next]_vars
    PROVE  Settled
<1>1. mode # "NONE" /\ seatsBooked \in Int /\ driver \in Drivers \cup {NoDriver}
    BY DEF Undisturbed, TripTaken, TypeOK
<1>2. \A seats : ~RoomFor(seats)
    BY DEF RoomFor, Sellable, TripTaken
<1>3. ASSUME NEW w \in Workers, CommitBookSeats(w)
      PROVE  Settled
    BY <1>1, <1>2, <1>3 DEF CommitBookSeats, Settled
<1>4. ASSUME NEW w \in Workers, CommitAcceptOffer(w)
      PROVE  Settled
    BY <1>1, <1>2, <1>4 DEF CommitAcceptOffer, Settled
<1>5. ASSUME NEW w \in Workers, CommitCancelBooking(w)
      PROVE  Settled
    <2>1. tx[w].row.seats \in Int /\ tx[w].row.seats >= 0
        BY <1>5, TxFields, InterstateAssumption DEF CommitCancelBooking, Rows
    <2>2. driver' = driver
        BY <1>5 DEF CommitCancelBooking
    <2>3. seatsBooked' = seatsBooked \/ seatsBooked' = seatsBooked - tx[w].row.seats
        BY <1>5 DEF CommitCancelBooking, SeatsReturn
    <2>4. QED
        BY <1>1, <2>1, <2>2, <2>3 DEF Settled
<1>6. ASSUME NEW d \in Drivers,
             ClaimDeparture(d) \/ StartDeparture(d) \/ CompleteDeparture(d)
      PROVE  Settled
    BY <1>1, <1>6 DEF ClaimDeparture, StartDeparture, CompleteDeparture, TripTaken, Settled
<1>7. ASSUME UNCHANGED departure
      PROVE  Settled
    BY <1>1, <1>7 DEF departure, Settled
<1>8. ASSUME NEW w \in Workers, CommitOffer(w) \/ Abort(w)
      PROVE  UNCHANGED departure
    BY <1>8 DEF CommitOffer, Abort, Reading
<1>9. ASSUME NEW b \in Bookings, NEW w \in Workers,
             \/ \E seats \in Seats : BeginBookSeats(w, b, seats) \/ BeginOffer(w, b, seats)
             \/ \E d \in Drivers : BeginAcceptOffer(w, b, d)
             \/ BeginCancelBooking(w, b)
      PROVE  UNCHANGED departure
    BY <1>9 DEF BeginBookSeats, BeginOffer, BeginAcceptOffer,
                BeginCancelBooking, Reading
<1>10. ASSUME \/ CompleteBookings \/ GatewayDies \/ Tick \/ UNCHANGED vars
              \/ \E b \in Bookings : DeclineOffer(b)
       PROVE  UNCHANGED departure
    BY <1>10 DEF CompleteBookings, GatewayDies, Tick, vars, DeclineOffer
<1>11. ASSUME NEW b \in Bookings
       PROVE  /\ ~Charter(b)
              /\ \A seats \in Seats, alone, bids \in BOOLEAN :
                     ~TravelRequest(b, alone, seats, bids)
    BY <1>1 DEF Charter, TravelRequest
<1>12. QED
    BY <1>3, <1>4, <1>5, <1>6, <1>7, <1>8, <1>9, <1>10, <1>11
    DEF Next, SeatRoutes, CharterRoutes, OfferRoutes, DepartureRoutes

(* A trip that has been dispatched keeps its driver, and no further seat   *)
(* of it is sold, whoever was buying, bidding or accepting at the time.    *)
THEOREM DispatchedStays == Spec => DispatchedIsSettled
<1>1. Init => IInv
    BY InitTypeOK, InitIInv, InitSeats DEF IInv
<1>2. IInv /\ [Next]_vars =>
          [(status \in {"DISPATCHED", "IN_TRANSIT", "COMPLETED"}) =>
              driver' = driver /\ seatsBooked' <= seatsBooked]_vars
    BY TakenIsSettled DEF IInv, TripTaken, Settled
<1>3. QED
    BY <1>1, <1>2, NextIInv, PTL DEF Spec, DispatchedIsSettled

-----------------------------------------------------------------------------
(***************************************************************************)
(* The route of a trip under way.  What the rows keep through a rewrite is *)
(* a count over a recursive function (Visited), followed stop by stop;     *)
(* what the gateway was last told is the last snapshot it has not read, or *)
(* the one it shows (LastPushed).                                          *)
(***************************************************************************)
Stops == [at : Places, final : BOOLEAN, done : BOOLEAN]
Routes == Seq(Stops)
Vias == {<<>>} \cup {<<p>> : p \in Places}
RideEvents ==
    [type : {"update"}, via : Vias, to : Places] \cup [type : {"confirm", "end", "completed"}]
    \cup [type : {"cancelled"}, by : {"rider", "driver"}]

RouteTyped ==
    /\ stops \in Routes
    /\ events \in Seq(RideEvents)
    /\ handling \in {"idle", "snapshot", "completed"}
    /\ handling # "idle" => events # <<>>
    /\ snapshots \in Seq(Routes)
    /\ shown \in Routes
    /\ visited \in [Places -> Nat]
FaultsFall == traffic \in Traffics /\ faults \in Nat /\ faults <= traffic.faults

(* The route the gateway pushes last of those it was told of *)
LastPushed == IF snapshots = <<>> THEN shown ELSE snapshots[Len(snapshots)]
PushedInTime == NothingFailed /\ handling # "snapshot" => Arrived(LastPushed) = Arrived(stops)

RouteInv == RouteTyped /\ FaultsFall /\ VisitedStaysDone /\ CopyIsTheRows /\ PushedInTime

-----------------------------------------------------------------------------
(* The stops that are done *)

DoneAt(route, p) == {k \in DOMAIN route : route[k].at = p /\ route[k].done}
DoneTo(route, n, p) == {k \in 1..n : route[k].at = p /\ route[k].done}

Builds(route, n, f) ==
    f = [m \in 0..n |->
            IF m = 0 THEN <<>>
            ELSE IF IsDone(route[m]) THEN Append(f[m - 1], route[m]) ELSE f[m - 1]]

LEMMA BuildsExist ==
    ASSUME NEW route
    PROVE  \A n \in Nat : \E f : Builds(route, n, f)
<1> DEFINE S == {n \in Nat : \E f : Builds(route, n, f)}
<1>1. 0 \in S
    <2>1. PICK f : f = [m \in 0..0 |-> <<>>]
        OBVIOUS
    <2>2. Builds(route, 0, f)
        BY <2>1 DEF Builds
    <2>3. QED
        BY <2>2
<1>2. ASSUME NEW n \in Nat, n \in S  PROVE n + 1 \in S
    <2>1. PICK f : Builds(route, n, f)
        BY <1>2
    <2>2. PICK g : g = [m \in 0..(n + 1) |->
                           IF m = n + 1
                           THEN IF IsDone(route[m]) THEN Append(f[m - 1], route[m]) ELSE f[m - 1]
                           ELSE f[m]]
        OBVIOUS
    <2>3. \A m \in 0..n : g[m] = f[m]
        BY <2>2
    <2>4. ASSUME NEW m \in 0..(n + 1)
          PROVE  g[m] = IF m = 0 THEN <<>>
                        ELSE IF IsDone(route[m]) THEN Append(g[m - 1], route[m]) ELSE g[m - 1]
        <3>1. CASE m = n + 1
            <4>1. g[m - 1] = f[m - 1]
                BY <2>3, <3>1
            <4>2. QED
                BY <2>2, <3>1, <4>1
        <3>2. CASE m # n + 1
            <4>1. m \in 0..n /\ g[m] = f[m]
                BY <2>3, <3>2
            <4>2. f[m] = IF m = 0 THEN <<>>
                         ELSE IF IsDone(route[m]) THEN Append(f[m - 1], route[m]) ELSE f[m - 1]
                BY <2>1, <4>1 DEF Builds
            <4>3. m # 0 => g[m - 1] = f[m - 1]
                BY <2>3, <4>1
            <4>4. QED
                BY <4>1, <4>2, <4>3
        <3>3. QED
            BY <3>1, <3>2
    <2>5. g = [m \in 0..(n + 1) |-> g[m]]
        BY <2>2
    <2>6. Builds(route, n + 1, g)
        BY <2>4, <2>5 DEF Builds
    <2>7. QED
        BY <2>6
<1> HIDE DEF S
<1>3. \A n \in Nat : n \in S
    BY <1>1, <1>2, SetInduction
<1>4. QED
    BY <1>3 DEF S

LEMMA VisitedBuilds ==
    ASSUME NEW route \in Routes
    PROVE  \E f : Builds(route, Len(route), f) /\ Visited(route) = f[Len(route)]
<1>1. Len(route) \in Nat
    BY DEF Routes
<1>2. \E f : Builds(route, Len(route), f)
    BY <1>1, BuildsExist
<1>3. PICK f : f = CHOOSE g : Builds(route, Len(route), g)
    OBVIOUS
<1>4. Builds(route, Len(route), f)
    BY <1>2, <1>3, Zenon
<1>5. Visited(route) = f[Len(route)]
    BY <1>3, Zenon DEF Visited, Builds
<1>6. QED
    BY <1>4, <1>5

LEMMA DoneIsFinite ==
    ASSUME NEW route, NEW n \in Nat, NEW p
    PROVE  IsFiniteSet(DoneTo(route, n, p)) /\ Cardinality(DoneTo(route, n, p)) \in Nat
<1>1. IsFiniteSet(1..n) /\ DoneTo(route, n, p) \subseteq 1..n
    BY FS_Interval DEF DoneTo
<1>2. IsFiniteSet(DoneTo(route, n, p))
    BY <1>1, FS_Subset
<1>3. QED
    BY <1>2, FS_CardinalityType

LEMMA DoneAtIsTo ==
    ASSUME NEW route \in Routes, NEW p
    PROVE  DoneAt(route, p) = DoneTo(route, Len(route), p)
BY DEF DoneAt, DoneTo, Routes

(* One stop more, done or not *)
LEMMA OneMoreStop ==
    ASSUME NEW route, NEW n \in Nat, NEW p
    PROVE  Cardinality(DoneTo(route, n + 1, p)) =
              Cardinality(DoneTo(route, n, p))
                 + IF route[n + 1].at = p /\ route[n + 1].done THEN 1 ELSE 0
<1>1. IsFiniteSet(DoneTo(route, n, p)) /\ Cardinality(DoneTo(route, n, p)) \in Nat
    BY DoneIsFinite
<1>2. n + 1 \notin DoneTo(route, n, p)
    BY DEF DoneTo
<1>3. CASE route[n + 1].at = p /\ route[n + 1].done
    <2>1. DoneTo(route, n + 1, p) = DoneTo(route, n, p) \cup {n + 1}
        BY <1>3 DEF DoneTo
    <2>2. Cardinality(DoneTo(route, n, p) \cup {n + 1}) = Cardinality(DoneTo(route, n, p)) + 1
        BY <1>1, <1>2, FS_AddElement
    <2>3. QED
        BY <1>3, <2>1, <2>2
<1>4. CASE ~(route[n + 1].at = p /\ route[n + 1].done)
    <2>1. DoneTo(route, n + 1, p) = DoneTo(route, n, p)
        BY <1>4 DEF DoneTo
    <2>2. QED
        BY <1>1, <1>4, <2>1
<1>5. QED
    BY <1>3, <1>4

LEMMA VisitedKeepsDone ==
    ASSUME NEW route \in Routes
    PROVE  /\ Visited(route) \in Routes
           /\ \A p \in Places :
                 Cardinality(DoneAt(Visited(route), p)) = Cardinality(DoneAt(route, p))
<1>1. PICK f : Builds(route, Len(route), f) /\ Visited(route) = f[Len(route)]
    BY VisitedBuilds
<1>2. PICK len \in Nat : len = Len(route)
    BY DEF Routes
<1> DEFINE Kept(n) ==
        /\ f[n] \in Routes
        /\ \A p \in Places : Cardinality(DoneTo(f[n], Len(f[n]), p)) = Cardinality(DoneTo(route, n, p))
    S == {n \in Nat : n <= len => Kept(n)}
<1>3. 0 \in S
    <2>1. f[0] = <<>>
        BY <1>1, <1>2 DEF Builds
    <2>2. f[0] \in Routes /\ Len(f[0]) = 0
        BY <2>1 DEF Routes
    <2>3. PICK t : t = f[0]
        OBVIOUS
    <2>4. ASSUME NEW p \in Places
          PROVE  Cardinality(DoneTo(t, 0, p)) = Cardinality(DoneTo(route, 0, p))
        <3>1. DoneTo(t, 0, p) = {}
            BY DEF DoneTo
        <3>2. DoneTo(route, 0, p) = {}
            BY DEF DoneTo
        <3>3. QED
            BY <3>1, <3>2
    <2>5. \A p \in Places : Cardinality(DoneTo(f[0], Len(f[0]), p)) = Cardinality(DoneTo(route, 0, p))
        BY <2>2, <2>3, <2>4
    <2>6. Kept(0)
        BY <2>2, <2>5
    <2>7. QED
        BY <2>6
<1>4. ASSUME NEW n \in Nat, n \in S  PROVE n + 1 \in S
    <2>1. SUFFICES ASSUME n + 1 <= len  PROVE Kept(n + 1)
        OBVIOUS
    <2>2. Kept(n)
        BY <1>4, <2>1
    <2>3. PICK t, e : t = f[n] /\ e = route[n + 1]
        OBVIOUS
    <2>4. t \in Routes
        BY <2>2, <2>3
    <2>10. n + 1 \in 1..Len(route) /\ n + 1 \in 0..Len(route) /\ n + 1 # 0 /\ (n + 1) - 1 = n
        BY <1>2, <2>1
    <2>11. e \in Stops
        BY <2>3, <2>10 DEF Routes
    <2>12. e.done \in BOOLEAN
        BY <2>11 DEF Stops
    <2>13. f[n + 1] = IF n + 1 = 0 THEN <<>>
                      ELSE IF IsDone(route[n + 1]) THEN Append(f[(n + 1) - 1], route[n + 1])
                           ELSE f[(n + 1) - 1]
        BY <1>1, <2>10, Zenon DEF Builds
    <2>14. f[(n + 1) - 1] = t
        BY <2>3, <2>10
    <2>5. f[n + 1] = IF e.done THEN Append(t, e) ELSE t
        BY <2>3, <2>10, <2>13, <2>14 DEF IsDone
    <2>6. CASE e.done
        <3>1. PICK u : u = Append(t, e)
            OBVIOUS
        <3>2. PICK l \in Nat : l = Len(t)
            BY <2>4 DEF Routes
        <3>3. u \in Routes /\ Len(u) = l + 1 /\ u[l + 1] = e /\ \A k \in 1..l : u[k] = t[k]
            BY <2>4, <2>11, <3>1, <3>2 DEF Routes
        <3>4. ASSUME NEW p \in Places
              PROVE  Cardinality(DoneTo(u, l + 1, p)) = Cardinality(DoneTo(route, n + 1, p))
            <4>1. DoneTo(u, l, p) = DoneTo(t, l, p)
                BY <3>3 DEF DoneTo
            <4>2. Cardinality(DoneTo(t, l, p)) = Cardinality(DoneTo(route, n, p))
                BY <2>2, <2>3, <3>2
            <4>3. Cardinality(DoneTo(u, l + 1, p)) =
                     Cardinality(DoneTo(u, l, p)) + IF e.at = p /\ e.done THEN 1 ELSE 0
                BY <3>3, OneMoreStop
            <4>4. Cardinality(DoneTo(route, n + 1, p)) =
                     Cardinality(DoneTo(route, n, p)) + IF e.at = p /\ e.done THEN 1 ELSE 0
                BY <2>3, OneMoreStop
            <4>5. QED
                BY <4>1, <4>2, <4>3, <4>4
        <3>5. QED
            BY <2>5, <2>6, <3>1, <3>3, <3>4
    <2>7. CASE ~e.done
        <3>1. f[n + 1] = f[n]
            BY <2>3, <2>5, <2>7
        <3>2. ASSUME NEW p \in Places
              PROVE  Cardinality(DoneTo(route, n + 1, p)) = Cardinality(DoneTo(route, n, p))
            <4>1. Cardinality(DoneTo(route, n + 1, p)) = Cardinality(DoneTo(route, n, p)) + 0
                BY <2>3, <2>7, OneMoreStop
            <4>2. QED
                BY <4>1, DoneIsFinite
        <3>3. QED
            BY <2>2, <3>1, <3>2
    <2>8. QED
        BY <2>6, <2>7
<1> HIDE DEF S
<1>5. \A n \in Nat : n \in S
    BY <1>3, <1>4, SetInduction
<1>6. Kept(len)
    BY <1>5 DEF S
<1>7. QED
    BY <1>1, <1>2, <1>6, DoneAtIsTo

LEMMA AddedIsUndone ==
    ASSUME NEW route \in Routes, NEW more \in Routes,
           \A k \in DOMAIN more : ~more[k].done
    PROVE  /\ route \o more \in Routes
           /\ \A p \in Places : DoneAt(route \o more, p) = DoneAt(route, p)
<1>1. PICK n \in Nat, m \in Nat : n = Len(route) /\ m = Len(more)
    BY DEF Routes
<1>2. PICK both : both = route \o more
    OBVIOUS
<1>3. /\ both \in Routes /\ Len(both) = n + m
      /\ \A k \in 1..(n + m) : both[k] = IF k <= n THEN route[k] ELSE more[k - n]
    BY <1>1, <1>2 DEF Routes
<1>4. ASSUME NEW k \in 1..(n + m), k > n  PROVE ~both[k].done
    <2>1. k - n \in DOMAIN more
        BY <1>1, <1>4 DEF Routes
    <2>2. QED
        BY <1>3, <1>4, <2>1
<1>5. ASSUME NEW p \in Places  PROVE DoneTo(both, n + m, p) = DoneTo(route, n, p)
    <2>1. ASSUME NEW k \in 1..n  PROVE k \in 1..(n + m) /\ both[k] = route[k]
        BY <1>3
    <2>2. ASSUME NEW k \in 1..(n + m), k \notin 1..n  PROVE ~both[k].done
        <3>1. k > n
            BY <2>2
        <3>2. QED
            BY <1>4, <3>1
    <2>3. DoneTo(both, n + m, p) \subseteq DoneTo(route, n, p)
        BY <2>1, <2>2 DEF DoneTo
    <2>4. DoneTo(route, n, p) \subseteq DoneTo(both, n + m, p)
        BY <2>1 DEF DoneTo
    <2>5. QED
        BY <2>3, <2>4
<1>6. ASSUME NEW p \in Places  PROVE DoneAt(both, p) = DoneAt(route, p)
    <2>1. DoneAt(both, p) = DoneTo(both, n + m, p)
        BY <1>3, DoneAtIsTo
    <2>2. DoneAt(route, p) = DoneTo(route, n, p)
        BY <1>1, DoneAtIsTo
    <2>3. QED
        BY <1>5, <2>1, <2>2
<1>7. QED
    BY <1>2, <1>3, <1>6

LEMMA RebuiltKeepsDone ==
    ASSUME NEW route \in Routes, NEW via \in Vias, NEW to \in Places
    PROVE  /\ Rebuilt(route, via, to) \in Routes
           /\ \A p \in Places :
                 Cardinality(DoneAt(Rebuilt(route, via, to), p)) = Cardinality(DoneAt(route, p))
<1>1. PICK done : done = Visited(route)
    OBVIOUS
<1>2. PICK way : way = [k \in DOMAIN via |-> Stop(via[k])]
    OBVIOUS
<1>3. PICK end : end = <<Final(to)>>
    OBVIOUS
<1>4. /\ done \in Routes
      /\ \A p \in Places : Cardinality(DoneAt(done, p)) = Cardinality(DoneAt(route, p))
    BY <1>1, VisitedKeepsDone
<1>5. PICK n \in Nat : DOMAIN via = 1..n /\ \A k \in 1..n : via[k] \in Places
    <2>1. CASE via = <<>>
        BY <2>1
    <2>2. CASE \E p \in Places : via = <<p>>
        BY <2>2
    <2>3. QED
        BY <2>1, <2>2 DEF Vias
<1>6. ASSUME NEW p \in Places
      PROVE  Stop(p) \in Stops /\ ~Stop(p).done /\ Final(p) \in Stops /\ ~Final(p).done
    BY Zenon DEF Stop, Final, Stops
<1>7. way \in Routes /\ \A k \in DOMAIN way : ~way[k].done
    <2>1. DOMAIN way = 1..n /\ \A k \in 1..n : way[k] = Stop(via[k])
        BY <1>2, <1>5
    <2>2. \A k \in 1..n : way[k] \in Stops /\ ~way[k].done
        BY <1>5, <1>6, <2>1
    <2>3. way \in [1..n -> Stops]
        BY <1>2, <1>5, <2>1, <2>2
    <2>4. QED
        BY <2>1, <2>2, <2>3 DEF Routes
<1>8. end \in Routes /\ \A k \in DOMAIN end : ~end[k].done
    <2>1. PICK e : e = Final(to)
        OBVIOUS
    <2>2. e \in Stops /\ ~e.done
        BY <1>6, <2>1
    <2>3. end = <<e>>
        BY <1>3, <2>1
    <2>4. QED
        BY <2>2, <2>3 DEF Routes
<1>9. /\ done \o way \in Routes
      /\ \A p \in Places : DoneAt(done \o way, p) = DoneAt(done, p)
    BY <1>4, <1>7, AddedIsUndone
<1>10. PICK first : first = done \o way
    OBVIOUS
<1>11. /\ first \o end \in Routes
       /\ \A p \in Places : DoneAt(first \o end, p) = DoneAt(first, p)
    BY <1>8, <1>9, <1>10, AddedIsUndone
<1>12. Rebuilt(route, via, to) = first \o end
    BY <1>1, <1>2, <1>3, <1>10, Zenon DEF Rebuilt
<1>13. QED
    BY <1>4, <1>9, <1>10, <1>11, <1>12

LEMMA FirstIsPending ==
    ASSUME NEW route \in Routes, NEW final, NEW open, open = Pending(route, final), open # {}
    PROVE  First(open) \in open
<1>1. open \subseteq Nat
    BY DEF Pending, Routes
<1>2. PICK k \in open : \A l \in open : k <= l
    <2>1. PICK R : IsWellFoundedOn(R, Nat) /\ \A x, y \in Nat : x < y => <<x, y>> \in R
        BY OrderOfNaturals, Zenon
    <2>2. PICK x \in open : \A y \in open : ~ (<<y, x>> \in R)
        BY <1>1, <2>1, MinimalElement, Zenon
    <2>3. \A y \in open : ~ (y < x)
        BY <1>1, <2>1, <2>2, Zenon
    <2>4. QED
        BY <1>1, <2>3
<1>3. QED
    BY <1>2, Zenon DEF First

LEMMA TickedOff ==
    ASSUME NEW route \in Routes, NEW k \in DOMAIN route, ~route[k].done
    PROVE  /\ TickOff(route, k) \in Routes
           /\ \A p \in Places :
                 Cardinality(DoneAt(TickOff(route, k), p)) =
                    Cardinality(DoneAt(route, p)) + IF route[k].at = p THEN 1 ELSE 0
           /\ route[k].final => Arrived(TickOff(route, k)) = Arrived(route)
<1>1. PICK n \in Nat : n = Len(route)
    BY DEF Routes
<1>2. DOMAIN route = 1..n /\ route \in [1..n -> Stops]
    BY <1>1 DEF Routes
<1>3. PICK e : e = route[k]
    OBVIOUS
<1>4. PICK g : g = [e EXCEPT !.done = TRUE]
    OBVIOUS
<1>5. /\ e \in Stops /\ g \in Stops
      /\ g.at = e.at /\ g.final = e.final /\ g.done = TRUE /\ e.done = FALSE
    BY <1>2, <1>3, <1>4 DEF Stops
<1>6. PICK r : r = TickOff(route, k)
    OBVIOUS
<1>7. r = [route EXCEPT ![k] = g]
    BY <1>3, <1>4, <1>6 DEF TickOff
<1>8. /\ r \in Routes /\ Len(r) = n /\ r[k] = g /\ DOMAIN r = 1..n
      /\ \A l \in 1..n : l # k => r[l] = route[l]
    BY <1>1, <1>2, <1>5, <1>7 DEF Routes
<1>9. ASSUME NEW p \in Places
      PROVE  Cardinality(DoneAt(r, p)) =
                Cardinality(DoneAt(route, p)) + IF e.at = p THEN 1 ELSE 0
    <2>1. IsFiniteSet(DoneAt(route, p)) /\ Cardinality(DoneAt(route, p)) \in Nat
        BY <1>1, DoneAtIsTo, DoneIsFinite
    <2>2. k \notin DoneAt(route, p)
        BY <1>3, <1>5 DEF DoneAt
    <2>3. CASE e.at = p
        <3>1. DoneAt(r, p) = DoneAt(route, p) \cup {k}
            BY <1>2, <1>5, <1>8, <2>3 DEF DoneAt
        <3>2. Cardinality(DoneAt(route, p) \cup {k}) = Cardinality(DoneAt(route, p)) + 1
            BY <2>1, <2>2, FS_AddElement
        <3>3. QED
            BY <2>3, <3>1, <3>2
    <2>4. CASE e.at # p
        <3>1. DoneAt(r, p) = DoneAt(route, p)
            BY <1>2, <1>3, <1>5, <1>8, <2>4 DEF DoneAt
        <3>2. QED
            BY <2>1, <2>4, <3>1
    <2>5. QED
        BY <2>3, <2>4
<1>10. ASSUME e.final  PROVE Arrived(r) = Arrived(route)
    <2>1. DOMAIN r = DOMAIN route
        BY <1>2, <1>8
    <2>2. ASSUME NEW l \in DOMAIN route
          PROVE  [r[l] EXCEPT !.done = @ \/ r[l].final] =
                    [route[l] EXCEPT !.done = @ \/ route[l].final]
        <3>1. CASE l = k
            <4>1. [g EXCEPT !.done = @ \/ g.final] = [e EXCEPT !.done = @ \/ e.final]
                BY <1>5, <1>10 DEF Stops
            <4>2. QED
                BY <1>3, <1>8, <3>1, <4>1
        <3>2. CASE l # k
            BY <1>2, <1>8, <3>2
        <3>3. QED
            BY <3>1, <3>2
    <2>3. QED
        BY <2>1, <2>2 DEF Arrived
<1>11. QED
    BY <1>3, <1>6, <1>8, <1>9, <1>10

-----------------------------------------------------------------------------
(* The steps of the route *)

LEMMA RouteStarts == TripInit => RouteInv
<1> SUFFICES ASSUME TripInit  PROVE RouteInv
    OBVIOUS
<1>1. PICK v, e : v = Stop(Via) /\ e = Final(To)
    OBVIOUS
<1>2. v \in Stops /\ e \in Stops /\ ~v.done /\ ~e.done
    BY <1>1, TripRouteAssumption DEF Stop, Final, Stops
<1>3. stops = <<v, e>> /\ stops \in Routes
    BY <1>1, <1>2 DEF TripInit, RouteInit, Routes
<1>4. ASSUME NEW p \in Places  PROVE Cardinality(DoneAt(stops, p)) = 0
    <2>1. DOMAIN stops = 1..2 /\ stops[1] = v /\ stops[2] = e
        BY <1>3
    <2>2. \A k \in DOMAIN stops : ~stops[k].done
        BY <1>2, <2>1
    <2>3. DoneAt(stops, p) = {}
        BY <2>2 DEF DoneAt
    <2>4. QED
        BY <2>3, FS_EmptySet
<1>5. \A p \in Places : visited[p] = 0
    BY DEF TripInit, RouteInit
<1>6. VisitedStaysDone
    BY <1>4, <1>5 DEF VisitedStaysDone, DoneAt
<1>7. shown = stops /\ snapshots = <<>> /\ cached = stops /\ events = <<>> /\ handling = "idle"
      /\ visited \in [Places -> Nat]
    BY DEF TripInit, RouteInit
<1>8. RouteTyped
    BY <1>3, <1>7 DEF RouteTyped
<1>9. FaultsFall
    BY PresenceAssumption DEF TripInit, TelemetryInit, PresenceInit, FaultsFall
<1>10. CopyIsTheRows /\ PushedInTime
    BY <1>7 DEF CopyIsTheRows, PushedInTime, LastPushed
<1>11. QED
    BY <1>6, <1>8, <1>9, <1>10 DEF RouteInv

(* What a fault leaves: nothing is promised of the push any more *)
LEMMA FaultExcuses ==
    ASSUME FaultsFall, Fault, traffic' = traffic
    PROVE  FaultsFall' /\ PushedInTime'
<1>1. faults' \in Nat /\ faults' < traffic.faults /\ traffic.faults \in Nat
    BY PresenceAssumption DEF FaultsFall, Fault
<1>2. FaultsFall'
    BY <1>1 DEF FaultsFall
<1>3. ~NothingFailed'
    BY <1>1 DEF NothingFailed
<1>4. QED
    BY <1>2, <1>3 DEF PushedInTime

LEMMA NoFault ==
    ASSUME FaultsFall, faults' = faults, traffic' = traffic
    PROVE  FaultsFall' /\ (NothingFailed' => NothingFailed)
BY DEF FaultsFall, NothingFailed

(* What leaves the rows alone leaves the ticks on them *)
LEMMA RowsUntouched ==
    ASSUME VisitedStaysDone, stops' = stops, visited' = visited
    PROVE  VisitedStaysDone'
BY DEF VisitedStaysDone

LEMMA RouteUntouched ==
    ASSUME RouteInv, UNCHANGED routeVars, traffic' = traffic, faults' = faults \/ Fault
    PROVE  RouteInv'
<1>1. /\ stops' = stops /\ cached' = cached /\ events' = events /\ handling' = handling
      /\ snapshots' = snapshots /\ shown' = shown /\ visited' = visited
    BY DEF routeVars
<1>2. RouteTyped' /\ VisitedStaysDone' /\ CopyIsTheRows'
    BY <1>1, RowsUntouched DEF RouteInv, RouteTyped, CopyIsTheRows
<1>3. CASE Fault
    <2>1. FaultsFall' /\ PushedInTime'
        BY <1>3, FaultExcuses DEF RouteInv
    <2>2. QED
        BY <1>2, <2>1 DEF RouteInv
<1>4. CASE faults' = faults
    <2>1. FaultsFall' /\ (NothingFailed' => NothingFailed)
        BY <1>4, NoFault DEF RouteInv
    <2>2. PushedInTime'
        BY <1>1, <2>1 DEF RouteInv, PushedInTime, LastPushed
    <2>3. QED
        BY <1>2, <2>1, <2>2 DEF RouteInv
<1>5. QED
    BY <1>3, <1>4

LEMMA PublishedEvent ==
    ASSUME RouteInv, NEW e \in RideEvents, Publishes(e)
    PROVE  RouteInv'
<1>1. /\ stops' = stops /\ cached' = cached /\ handling' = handling
      /\ snapshots' = snapshots /\ shown' = shown /\ visited' = visited
      /\ events' = Append(events, e) /\ faults' = faults /\ traffic' = traffic
    BY DEF Publishes
<1>2. events' \in Seq(RideEvents) /\ events' # <<>>
    BY <1>1 DEF RouteInv, RouteTyped
<1>3. RouteTyped' /\ VisitedStaysDone' /\ CopyIsTheRows'
    BY <1>1, <1>2, RowsUntouched DEF RouteInv, RouteTyped, CopyIsTheRows
<1>4. FaultsFall' /\ (NothingFailed' => NothingFailed)
    BY <1>1, NoFault DEF RouteInv
<1>5. PushedInTime'
    BY <1>1, <1>4 DEF RouteInv, PushedInTime, LastPushed
<1>6. QED
    BY <1>3, <1>4, <1>5 DEF RouteInv

(* The first event of a ride is read *)
LEMMA FirstEvent ==
    ASSUME RouteTyped, events # <<>>
    PROVE  Head(events) \in RideEvents /\ Tail(events) \in Seq(RideEvents)
BY DEF RouteTyped

LEMMA RouteConsumes ==
    ASSUME RouteInv, events # <<>>, Consumed,
           UNCHANGED <<stops, snapshots, shown, visited>>, cached' \in {cached, None},
           traffic' = traffic,
           \/ faults' = faults /\ handling = "idle"
           \/ Fault
    PROVE  RouteInv'
<1>1. /\ stops' = stops /\ snapshots' = snapshots /\ shown' = shown /\ visited' = visited
      /\ events' \in Seq(RideEvents) /\ handling' = "idle"
    BY FirstEvent DEF RouteInv, Consumed
<1>2. RouteTyped' /\ VisitedStaysDone' /\ CopyIsTheRows'
    BY <1>1, RowsUntouched DEF RouteInv, RouteTyped, CopyIsTheRows
<1>3. CASE Fault
    <2>1. FaultsFall' /\ PushedInTime'
        BY <1>3, FaultExcuses DEF RouteInv
    <2>2. QED
        BY <1>2, <2>1 DEF RouteInv
<1>4. CASE faults' = faults /\ handling = "idle"
    <2>1. FaultsFall' /\ (NothingFailed' => NothingFailed)
        BY <1>4, NoFault DEF RouteInv
    <2>2. PushedInTime'
        BY <1>1, <1>4, <2>1 DEF RouteInv, PushedInTime, LastPushed
    <2>3. QED
        BY <1>2, <2>1, <2>2 DEF RouteInv
<1>5. QED
    BY <1>3, <1>4

(* A handler that rewrites the rows and has its push before it *)
LEMMA RouteChanged ==
    ASSUME RouteInv, NEW route \in Routes, NEW next \in {"snapshot", "completed"},
           events # <<>>, Changes(route, next), UNCHANGED <<presenceVars, snapshots, shown>>,
           visited' \in [Places -> Nat],
           \A p \in Places : visited'[p] = Cardinality(DoneAt(route, p)),
           next = "completed" => handling = "idle" /\ Arrived(route) = Arrived(stops)
    PROVE  RouteInv'
<1>1. /\ stops' = route /\ cached' = route /\ handling' = next /\ events' = events
      /\ snapshots' = snapshots /\ shown' = shown /\ faults' = faults /\ traffic' = traffic
    BY DEF Changes, Synced, presenceVars
<1>2. RouteTyped' /\ CopyIsTheRows'
    BY <1>1 DEF RouteInv, RouteTyped, CopyIsTheRows
<1>3. VisitedStaysDone'
    BY <1>1 DEF VisitedStaysDone, DoneAt
<1>4. FaultsFall' /\ (NothingFailed' => NothingFailed)
    BY <1>1, NoFault DEF RouteInv
<1>5. PushedInTime'
    <2>1. CASE next = "snapshot"
        BY <1>1, <2>1 DEF PushedInTime
    <2>2. CASE next = "completed"
        BY <1>1, <1>4, <2>2 DEF RouteInv, PushedInTime, LastPushed
    <2>3. QED
        BY <2>1, <2>2
<1>6. QED
    BY <1>2, <1>3, <1>4, <1>5 DEF RouteInv

LEMMA UpdateHandled ==
    ASSUME RouteInv, HandlesUpdate
    PROVE  RouteInv'
<1>1. PICK e : e = Head(events)
    OBVIOUS
<1>2. events # <<>> /\ e.type = "update"
    BY <1>1 DEF HandlesUpdate, Handles
<1>3. e \in RideEvents
    BY <1>1, <1>2, FirstEvent DEF RouteInv
<1>4. e.via \in Vias /\ e.to \in Places
    BY <1>2, <1>3 DEF RideEvents
<1>5. PICK route : route = Rebuilt(stops, e.via, e.to)
    OBVIOUS
<1>6. stops \in Routes
    BY DEF RouteInv, RouteTyped
<1>7. route \in Routes /\ \A p \in Places : Cardinality(DoneAt(route, p)) = Cardinality(DoneAt(stops, p))
    BY <1>4, <1>5, <1>6, RebuiltKeepsDone
<1>8. visited' = visited /\ visited' \in [Places -> Nat]
    BY DEF HandlesUpdate, RouteInv, RouteTyped
<1>9. \A p \in Places : visited'[p] = Cardinality(DoneAt(route, p))
    BY <1>7, <1>8 DEF RouteInv, VisitedStaysDone, DoneAt
<1>10. Changes(route, "snapshot") /\ UNCHANGED <<presenceVars, snapshots, shown>>
    BY <1>1, <1>5 DEF HandlesUpdate
<1>11. QED
    BY <1>2, <1>7, <1>8, <1>9, <1>10, RouteChanged

(* A tick of the first open stop, counted *)
LEMMA StopTicked ==
    ASSUME RouteInv, NEW final \in BOOLEAN, NEW open, open = Pending(stops, final), open # {},
           visited' = [visited EXCEPT ![stops[First(open)].at] = @ + 1]
    PROVE  /\ TickOff(stops, First(open)) \in Routes
           /\ visited' \in [Places -> Nat]
           /\ \A p \in Places :
                 visited'[p] = Cardinality(DoneAt(TickOff(stops, First(open)), p))
           /\ final => Arrived(TickOff(stops, First(open))) = Arrived(stops)
<1>1. stops \in Routes /\ visited \in [Places -> Nat]
    BY DEF RouteInv, RouteTyped
<1>2. PICK k : k = First(open)
    OBVIOUS
<1>3. k \in open
    BY <1>1, <1>2, FirstIsPending
<1>4. k \in DOMAIN stops /\ ~stops[k].done /\ stops[k].final = final
    BY <1>3 DEF Pending
<1>5. PICK at : at = stops[k].at
    OBVIOUS
<1>6. at \in Places
    <2>1. stops[k] \in Stops
        BY <1>1, <1>4 DEF Routes
    <2>2. QED
        BY <1>5, <2>1 DEF Stops
<1>7. visited' = [visited EXCEPT ![at] = @ + 1]
    BY <1>2, <1>5
<1>8. visited' \in [Places -> Nat]
    BY <1>1, <1>6, <1>7
<1>9. /\ TickOff(stops, k) \in Routes
      /\ \A p \in Places :
            Cardinality(DoneAt(TickOff(stops, k), p)) =
               Cardinality(DoneAt(stops, p)) + IF stops[k].at = p THEN 1 ELSE 0
      /\ stops[k].final => Arrived(TickOff(stops, k)) = Arrived(stops)
    BY <1>1, <1>4, TickedOff
<1>10. \A p \in Places : visited[p] = Cardinality(DoneAt(stops, p)) /\ visited[p] \in Nat
    BY <1>1 DEF RouteInv, VisitedStaysDone, DoneAt
<1>11. ASSUME NEW p \in Places
       PROVE  visited'[p] = Cardinality(DoneAt(TickOff(stops, k), p))
    <2>1. visited'[p] = visited[p] + IF at = p THEN 1 ELSE 0
        BY <1>1, <1>6, <1>7, <1>10
    <2>2. QED
        BY <1>5, <1>9, <1>10, <2>1
<1>12. QED
    BY <1>2, <1>4, <1>8, <1>9, <1>11

LEMMA ConfirmHandled ==
    ASSUME RouteInv, HandlesConfirm
    PROVE  RouteInv'
<1>1. PICK open : open = Pending(stops, FALSE)
    OBVIOUS
<1>2. /\ events # <<>> /\ handling = "idle"
      /\ UNCHANGED <<presenceVars, snapshots, shown>> /\ faults' = faults /\ traffic' = traffic
    BY DEF HandlesConfirm, Handles, presenceVars
<1>3. CASE open = {}
    <2>1. Consumed /\ UNCHANGED <<stops, cached, visited>>
        BY <1>1, <1>3 DEF HandlesConfirm
    <2>2. QED
        BY <1>2, <2>1, RouteConsumes
<1>4. CASE open # {}
    <2>1. PICK route : route = TickOff(stops, First(open))
        OBVIOUS
    <2>2. /\ Changes(route, "snapshot")
          /\ visited' = [visited EXCEPT ![stops[First(open)].at] = @ + 1]
        BY <1>1, <1>4, <2>1 DEF HandlesConfirm
    <2>3. /\ route \in Routes /\ visited' \in [Places -> Nat]
          /\ \A p \in Places : visited'[p] = Cardinality(DoneAt(route, p))
        BY <1>1, <1>4, <2>1, <2>2, StopTicked
    <2>4. QED
        BY <1>2, <2>2, <2>3, RouteChanged
<1>5. QED
    BY <1>3, <1>4

LEMMA EndHandled ==
    ASSUME RouteInv, HandlesEnd
    PROVE  RouteInv'
<1>1. PICK open : open = Pending(stops, TRUE)
    OBVIOUS
<1>2. /\ events # <<>> /\ handling = "idle"
      /\ UNCHANGED <<presenceVars, snapshots, shown>> /\ faults' = faults /\ traffic' = traffic
    BY DEF HandlesEnd, Handles, presenceVars
<1>3. CASE rowStatus \in {"COMPLETED", "CANCELLED"}
    <2>1. Consumed /\ UNCHANGED <<stops, cached, visited>>
        BY <1>3 DEF HandlesEnd
    <2>2. QED
        BY <1>2, <2>1, RouteConsumes
<1>4. CASE rowStatus \notin {"COMPLETED", "CANCELLED"} /\ open = {}
    <2>1. Changes(stops, "completed") /\ visited' = visited
        BY <1>1, <1>4 DEF HandlesEnd
    <2>2. stops \in Routes /\ visited' \in [Places -> Nat]
        BY <2>1 DEF RouteInv, RouteTyped
    <2>3. \A p \in Places : visited'[p] = Cardinality(DoneAt(stops, p))
        BY <2>1 DEF RouteInv, VisitedStaysDone, DoneAt
    <2>4. QED
        BY <1>2, <2>1, <2>2, <2>3, RouteChanged
<1>5. CASE rowStatus \notin {"COMPLETED", "CANCELLED"} /\ open # {}
    <2>1. PICK route : route = TickOff(stops, First(open))
        OBVIOUS
    <2>2. /\ Changes(route, "completed")
          /\ visited' = [visited EXCEPT ![stops[First(open)].at] = @ + 1]
        BY <1>1, <1>5, <2>1 DEF HandlesEnd
    <2>3. /\ route \in Routes /\ visited' \in [Places -> Nat]
          /\ \A p \in Places : visited'[p] = Cardinality(DoneAt(route, p))
          /\ Arrived(route) = Arrived(stops)
        BY <1>1, <1>5, <2>1, <2>2, StopTicked
    <2>4. QED
        BY <1>2, <2>2, <2>3, RouteChanged
<1>6. QED
    BY <1>3, <1>4, <1>5

LEMMA SnapshotPublished ==
    ASSUME RouteInv, PublishesSnapshot
    PROVE  RouteInv'
<1>1. /\ handling = "snapshot" /\ handling' = "idle" /\ events' = Tail(events)
      /\ stops' = stops /\ cached' = cached /\ shown' = shown /\ visited' = visited
      /\ snapshots' = Append(snapshots, stops) /\ faults' = faults /\ traffic' = traffic
    BY DEF PublishesSnapshot, Consumed, presenceVars
<1>2. events' \in Seq(RideEvents)
    BY <1>1, FirstEvent DEF RouteInv, RouteTyped
<1>3. snapshots' \in Seq(Routes) /\ snapshots' # <<>> /\ snapshots'[Len(snapshots')] = stops
    <2>1. snapshots \in Seq(Routes) /\ stops \in Routes
        BY DEF RouteInv, RouteTyped
    <2>2. ASSUME NEW s \in Seq(Routes), NEW r \in Routes
          PROVE  LET t == Append(s, r)
                 IN  t \in Seq(Routes) /\ t # <<>> /\ t[Len(t)] = r
        OBVIOUS
    <2>3. QED
        BY <1>1, <2>1, <2>2
<1>4. RouteTyped' /\ VisitedStaysDone' /\ CopyIsTheRows'
    BY <1>1, <1>2, <1>3, RowsUntouched DEF RouteInv, RouteTyped, CopyIsTheRows
<1>5. FaultsFall'
    BY <1>1, NoFault DEF RouteInv
<1>6. PushedInTime'
    BY <1>1, <1>3 DEF PushedInTime, LastPushed
<1>7. QED
    BY <1>4, <1>5, <1>6 DEF RouteInv

LEMMA CompletionPublished ==
    ASSUME RouteInv, PublishesCompleted
    PROVE  RouteInv'
<1>1. /\ handling = "completed" /\ handling' = "idle"
      /\ stops' = stops /\ cached' = cached /\ shown' = shown /\ visited' = visited
      /\ snapshots' = snapshots /\ faults' = faults /\ traffic' = traffic
    BY DEF PublishesCompleted, presenceVars
<1>2. events' \in Seq(RideEvents)
    <2>1. PICK e : e = [type |-> "completed"]
        OBVIOUS
    <2>2. e \in RideEvents
        BY <2>1 DEF RideEvents
    <2>3. Tail(events) \in Seq(RideEvents)
        BY <1>1, FirstEvent DEF RouteInv, RouteTyped
    <2>4. events' = Append(Tail(events), e)
        BY <2>1 DEF PublishesCompleted
    <2>5. QED
        BY <2>2, <2>3, <2>4
<1>3. RouteTyped' /\ VisitedStaysDone' /\ CopyIsTheRows'
    BY <1>1, <1>2, RowsUntouched DEF RouteInv, RouteTyped, CopyIsTheRows
<1>4. FaultsFall' /\ (NothingFailed' => NothingFailed)
    BY <1>1, NoFault DEF RouteInv
<1>5. PushedInTime'
    BY <1>1, <1>4 DEF RouteInv, PushedInTime, LastPushed
<1>6. QED
    BY <1>3, <1>4, <1>5 DEF RouteInv

LEMMA RouteShown ==
    ASSUME RouteInv, GatewayShows
    PROVE  RouteInv'
<1>1. /\ snapshots # <<>> /\ shown' = Head(snapshots) /\ snapshots' = Tail(snapshots)
      /\ stops' = stops /\ cached' = cached /\ visited' = visited
      /\ events' = events /\ handling' = handling /\ faults' = faults /\ traffic' = traffic
    BY DEF GatewayShows, presenceVars
<1>2. snapshots \in Seq(Routes)
    BY DEF RouteInv, RouteTyped
<1>3. snapshots' \in Seq(Routes) /\ shown' \in Routes
    BY <1>1, <1>2
<1>4. LastPushed' = LastPushed
    <2>1. PICK q : q = snapshots
        OBVIOUS
    <2>2. PICK t : t = Tail(q)
        OBVIOUS
    <2>3. PICK n \in Nat : n = Len(q)
        BY <1>2, <2>1
    <2>4. q \in Seq(Routes) /\ n >= 1
        BY <1>1, <1>2, <2>1, <2>3
    <2>5. LastPushed = q[n] /\ snapshots' = t /\ shown' = q[1]
        BY <1>1, <2>1, <2>2, <2>3, <2>4 DEF LastPushed
    <2>6. Len(t) = n - 1 /\ t \in Seq(Routes)
        BY <2>2, <2>3, <2>4
    <2>7. \A k \in 1..(n - 1) : t[k] = q[k + 1]
        BY <2>2, <2>3, <2>4
    <2>8. CASE n = 1
        <3>1. t = <<>>
            BY <2>6, <2>8
        <3>2. QED
            BY <2>5, <2>8, <3>1 DEF LastPushed
    <2>9. CASE n # 1
        <3>1. t # <<>> /\ n - 1 \in 1..(n - 1) /\ (n - 1) + 1 = n
            BY <2>3, <2>4, <2>6, <2>9
        <3>2. t[n - 1] = q[n]
            BY <2>7, <3>1
        <3>3. QED
            BY <2>5, <2>6, <3>1, <3>2 DEF LastPushed
    <2>10. QED
        BY <2>3, <2>4, <2>8, <2>9
<1>5. RouteTyped' /\ VisitedStaysDone' /\ CopyIsTheRows'
    BY <1>1, <1>3, RowsUntouched DEF RouteInv, RouteTyped, CopyIsTheRows
<1>6. FaultsFall' /\ (NothingFailed' => NothingFailed)
    BY <1>1, NoFault DEF RouteInv
<1>7. PushedInTime'
    BY <1>1, <1>4, <1>6 DEF RouteInv, PushedInTime
<1>8. QED
    BY <1>5, <1>6, <1>7 DEF RouteInv

LEMMA PingReadOnRoute ==
    ASSUME RouteInv, ReadsPingOnRoute
    PROVE  RouteInv'
<1>1. /\ stops' = stops /\ shown' = shown /\ visited' = visited /\ snapshots' = snapshots
      /\ events' = events /\ handling' = handling /\ faults' = faults /\ traffic' = traffic
    BY DEF ReadsPingOnRoute, ReadsPing, presenceVars
<1>2. cached' \in {cached, stops}
    BY DEF ReadsPingOnRoute, LoadsRoute
<1>3. RouteTyped' /\ VisitedStaysDone' /\ CopyIsTheRows'
    BY <1>1, <1>2, RowsUntouched DEF RouteInv, RouteTyped, CopyIsTheRows
<1>4. FaultsFall' /\ (NothingFailed' => NothingFailed)
    BY <1>1, NoFault DEF RouteInv
<1>5. PushedInTime'
    BY <1>1, <1>4 DEF RouteInv, PushedInTime, LastPushed
<1>6. QED
    BY <1>3, <1>4, <1>5 DEF RouteInv

LEMMA RestartedOnRoute ==
    ASSUME RouteInv, RestartsOnRoute
    PROVE  RouteInv'
<1>1. /\ stops' = stops /\ shown' = shown /\ visited' = visited /\ snapshots' = snapshots
      /\ events' = events /\ handling' = "idle" /\ cached' = None
      /\ Fault /\ traffic' = traffic
    BY DEF RestartsOnRoute, ServiceRestarts
<1>2. RouteTyped' /\ VisitedStaysDone' /\ CopyIsTheRows'
    BY <1>1, RowsUntouched DEF RouteInv, RouteTyped, CopyIsTheRows
<1>3. FaultsFall' /\ PushedInTime'
    BY <1>1, FaultExcuses DEF RouteInv
<1>4. QED
    BY <1>2, <1>3 DEF RouteInv

LEMMA RouteSteps ==
    ASSUME RouteInv, RouteStep
    PROVE  RouteInv'
<1>1. CASE UpdatesRoute
    <2>1. PICK via \in Vias, to \in Places : Publishes([type |-> "update", via |-> via, to |-> to])
        BY <1>1 DEF UpdatesRoute, Vias
    <2>2. PICK e : e = [type |-> "update", via |-> via, to |-> to]
        OBVIOUS
    <2>3. e \in RideEvents
        BY <2>2 DEF RideEvents
    <2>4. QED
        BY <2>1, <2>2, <2>3, PublishedEvent
<1>2. CASE ConfirmsStop
    <2>1. PICK e : e = [type |-> "confirm"]
        OBVIOUS
    <2>2. e \in RideEvents
        BY <2>1 DEF RideEvents
    <2>3. QED
        BY <1>2, <2>1, <2>2, PublishedEvent DEF ConfirmsStop
<1>3. CASE EndsRide
    <2>1. PICK e : e = [type |-> "end"]
        OBVIOUS
    <2>2. e \in RideEvents
        BY <2>1 DEF RideEvents
    <2>3. QED
        BY <1>3, <2>1, <2>2, PublishedEvent DEF EndsRide
<1>4. CASE Cancels
    <2>1. PICK by \in {"rider", "driver"} : Publishes([type |-> "cancelled", by |-> by])
        BY <1>4 DEF Cancels
    <2>2. PICK e : e = [type |-> "cancelled", by |-> by]
        OBVIOUS
    <2>3. e \in RideEvents
        BY <2>2 DEF RideEvents
    <2>4. QED
        BY <2>1, <2>2, <2>3, PublishedEvent
<1>5. CASE HandlesUpdate
    BY <1>5, UpdateHandled
<1>6. CASE SkipsUpdate
    <2>1. /\ events # <<>> /\ Consumed /\ UNCHANGED <<stops, snapshots, shown, visited>>
          /\ cached' = cached /\ traffic' = traffic /\ Fault
        BY <1>6 DEF SkipsUpdate, Handles
    <2>2. QED
        BY <2>1, RouteConsumes
<1>7. CASE HandlesConfirm
    BY <1>7, ConfirmHandled
<1>8. CASE HandlesEnd
    BY <1>8, EndHandled
<1>9. CASE PublishesSnapshot
    BY <1>9, SnapshotPublished
<1>10. CASE PublishesCompleted
    BY <1>10, CompletionPublished
<1>11. CASE PublishFails
    <2>1. /\ handling # "idle" /\ Consumed /\ UNCHANGED <<stops, snapshots, shown, visited>>
          /\ cached' = cached /\ traffic' = traffic /\ Fault
        BY <1>11 DEF PublishFails
    <2>2. events # <<>>
        BY <2>1 DEF RouteInv, RouteTyped
    <2>3. QED
        BY <2>1, <2>2, RouteConsumes
<1>12. CASE HandlesCompleted
    <2>1. /\ events # <<>> /\ handling = "idle" /\ Consumed
          /\ UNCHANGED <<stops, snapshots, shown, visited>>
          /\ cached' = None /\ traffic' = traffic /\ faults' = faults
        BY <1>12 DEF HandlesCompleted, Handles, presenceVars
    <2>2. QED
        BY <2>1, RouteConsumes
<1>13. CASE HandlesCancelled
    <2>1. /\ events # <<>> /\ handling = "idle" /\ Consumed
          /\ UNCHANGED <<stops, snapshots, shown, visited>>
          /\ cached' = None /\ traffic' = traffic /\ faults' = faults
        BY <1>13 DEF HandlesCancelled, Handles, presenceVars
    <2>2. QED
        BY <2>1, RouteConsumes
<1>14. CASE ReadsPingOnRoute
    BY <1>14, PingReadOnRoute
<1>15. CASE RestartsOnRoute
    BY <1>15, RestartedOnRoute
<1>16. CASE GatewayShows
    BY <1>16, RouteShown
<1>17. CASE LooksAtAge /\ UNCHANGED routeVars
    <2>1. faults' = faults /\ traffic' = traffic
        BY <1>17 DEF LooksAtAge, presenceVars
    <2>2. QED
        BY <1>17, <2>1, RouteUntouched
<1>18. CASE (\E s \in Sockets : SendsPing(s)) /\ UNCHANGED routeVars
    <2>1. faults' = faults /\ traffic' = traffic
        BY <1>18 DEF SendsPing
    <2>2. QED
        BY <1>18, <2>1, RouteUntouched
<1>19. QED
    BY <1>1, <1>2, <1>3, <1>4, <1>5, <1>6, <1>7, <1>8, <1>9, <1>10, <1>11, <1>12, <1>13,
       <1>14, <1>15, <1>16, <1>17, <1>18 DEF RouteStep

-----------------------------------------------------------------------------
(* No step of the sockets, the market or the ride's warnings changes what    *)
(* happens, and faults are spent one at a time.                              *)

SpendsFaults == traffic' = traffic /\ (faults' = faults \/ Fault)

LEMMA SocketStepSpends == SocketStep => SpendsFaults
<1>1. RelayArrives => SpendsFaults
    BY DEF RelayArrives, SpendsFaults
<1>2. \A i \in Instances : RedisServes(i) => SpendsFaults
    BY DEF RedisServes, SpendsFaults
<1>3. \A i \in Instances : RedisFails(i) => SpendsFaults
    BY DEF RedisFails, SpendsFaults
<1>4. \A i \in Instances : Restarts(i) => SpendsFaults
    BY DEF Restarts, SpendsFaults
<1>5. \A s \in Sockets : Drops(s) => SpendsFaults
    BY DEF Drops, SpendsFaults
<1>6. \A s \in Sockets : HearsClose(s) => SpendsFaults
    BY DEF HearsClose, SpendsFaults
<1>7. \A s \in Sockets : HearsError(s) => SpendsFaults
    BY DEF HearsError, SpendsFaults
<1>8. QED
    BY <1>1, <1>2, <1>3, <1>4, <1>5, <1>6, <1>7, Zenon DEF SocketStep

LEMMA PresenceStepSpends == PresenceStep => SpendsFaults
<1>1. \A i \in Instances : Connects(i, Driver) => SpendsFaults
    BY DEF Connects, SpendsFaults
<1>2. \A i \in Instances : TimerFires(i) => SpendsFaults
    BY DEF TimerFires, SpendsFaults
<1>3. \A s \in Sockets : ResyncFinds(s) \/ ResyncFails(s) \/ ResyncSends(s) => SpendsFaults
    BY DEF ResyncFinds, ResyncFails, ResyncSends, SpendsFaults
<1>4. \A s \in Sockets : GoesOnline(s) \/ GoesOffline(s) \/ Bids(s) => SpendsFaults
    BY DEF GoesOnline, GoesOffline, Bids, SpendsFaults
<1>5. Pings \/ GoesUnseen \/ TripEnds \/ RiderRefused => SpendsFaults
    BY DEF Pings, GoesUnseen, TripEnds, RiderRefused, SpendsFaults
<1>6. FindsBids \/ WithdrawsBids \/ ServiceHears => SpendsFaults
    BY DEF FindsBids, WithdrawsBids, ServiceHears, SpendsFaults
<1>7. RiderChecks \/ RiderAccepts \/ ServiceAssigns \/ GatewayAssigned \/ PushesMatch
         => SpendsFaults
    BY DEF RiderChecks, RiderAccepts, ServiceAssigns, GatewayAssigned, PushesMatch, SpendsFaults
<1>8. QED
    BY <1>1, <1>2, <1>3, <1>4, <1>5, <1>6, <1>7, SocketStepSpends, Zenon DEF PresenceStep

LEMMA TripStepSpends == TripStep => SpendsFaults
<1>1. \A s \in Sockets : SendsPing(s) => SpendsFaults
    BY DEF SendsPing, SpendsFaults
<1>2. ReadsPing \/ LooksAtAge \/ WarnsFromPing => SpendsFaults
    BY DEF ReadsPing, LooksAtAge, WarnsFromPing, SpendsFaults, presenceVars
<1>3. MonitorTicks \/ MonitorWarns => SpendsFaults
    BY DEF MonitorTicks, MonitorWarns, SpendsFaults, presenceVars
<1>4. \A r \in Riders : PushesWarning(r) => SpendsFaults
    BY DEF PushesWarning, SpendsFaults
<1>5. PingFails \/ MonitorFails => SpendsFaults
    BY DEF PingFails, MonitorFails, SpendsFaults
<1>6. WindowPasses \/ WarningAges => SpendsFaults
    BY DEF WindowPasses, WarningAges, SpendsFaults, presenceVars
<1>7. RideEnds \/ ServiceRestarts => SpendsFaults
    BY DEF RideEnds, ServiceRestarts, SpendsFaults
<1>8. QED
    BY <1>1, <1>2, <1>3, <1>4, <1>5, <1>6, <1>7, Zenon DEF TripStep, ServiceStep

LEMMA TelemetrySpends == TelemetryNext => SpendsFaults
BY TripStepSpends, PresenceStepSpends, SocketStepSpends DEF TelemetryNext

(* Every state of a ride under way satisfies RouteInv: what was ticked off is *)
(* counted by the rows, the copy is the rows, and the last route the gateway  *)
(* was or will be told of is theirs, unless a push of it is still due or      *)
(* something failed.                                                          *)
THEOREM RouteInvariant == TripSpec => []RouteInv
<1>1. TripInit => RouteInv
    BY RouteStarts
<1>2. RouteInv /\ [TripNext]_allVars => RouteInv'
    <2>1. SUFFICES ASSUME RouteInv, [TripNext]_allVars  PROVE RouteInv'
        OBVIOUS
    <2>2. CASE RouteStep
        BY <2>1, <2>2, RouteSteps
    <2>3. CASE TelemetryNext /\ UNCHANGED routeVars
        <3>1. traffic' = traffic /\ (faults' = faults \/ Fault)
            BY <2>3, TelemetrySpends DEF SpendsFaults
        <3>2. QED
            BY <2>1, <2>3, <3>1, RouteUntouched
    <2>4. CASE UNCHANGED allVars
        <3>1. UNCHANGED routeVars /\ traffic' = traffic /\ faults' = faults
            BY <2>4 DEF allVars, telemetryVars, presenceVars
        <3>2. QED
            BY <2>1, <3>1, RouteUntouched
    <2>5. QED
        BY <2>1, <2>2, <2>3, <2>4 DEF TripNext
<1>3. QED
    BY <1>1, <1>2, PTL DEF TripSpec

(* Whatever both sides do to the route while it is driven, and through        *)
(* restarts, no stop that was ticked off is lost from the rows, the pings are *)
(* answered from a copy of the rows, and, when nothing failed and nothing is  *)
(* under way, the riders see the rows' route.                                 *)
THEOREM RouteIsRemembered == TripSpec => []RouteRemembersTrip
<1>1. RouteInv => RouteRemembersTrip
    <2>1. SUFFICES ASSUME RouteInv  PROVE RouteRemembersTrip
        OBVIOUS
    <2>2. VisitedStaysDone /\ CopyIsTheRows
        BY <2>1 DEF RouteInv
    <2>3. events = <<>> => handling = "idle"
        BY <2>1 DEF RouteInv, RouteTyped
    <2>4. ShownIsTheRows
        BY <2>1, <2>3 DEF RouteInv, PushedInTime, LastPushed, ShownIsTheRows
    <2>5. QED
        BY <2>2, <2>4 DEF RouteRemembersTrip
<1>2. QED
    BY <1>1, RouteInvariant, PTL

-----------------------------------------------------------------------------
(***************************************************************************)
(* The sockets.  A match reaches a socket by three ways: pushed here,      *)
(* relayed from the instance that reads the ride's events, or found by the *)
(* socket's own resync.  MatchReaches follows it on each of them; that a   *)
(* relay goes where a live socket is needs that Redis lists its instance   *)
(* (LiveIsListed), and that nothing on the way will unlist it              *)
(* (NotUnlisted).                                                          *)
(***************************************************************************)
Messages == {"matched", "driver_rejected", "stale_warning"}
Stages == {"new", "joining", "live", "cut", "deaf", "over"}
Connections ==
    [user : Users, inst : Instances, at : Stages] \cup [user : {None}, inst : {None}, at : {"new", "over"}]
Commands ==
    [op : {"sadd"}, user : Users, sock : Sockets] \cup [op : {"srem"}, user : Users]
    \cup [op : {"smembers"}, user : Users, msg : Messages]

SocketsTyped ==
    /\ sock \in [Sockets -> Connections]
    /\ redis \in [Users -> SUBSET Instances]
    /\ cmds \in [Instances -> Seq(Commands)]
    /\ relays \subseteq [to : Instances, user : Users, msg : Messages]
    /\ heard \in [Sockets -> SUBSET Messages]
    /\ resync \in [Sockets -> {"none", "find", "send", "done", "failed"}]
    /\ trip \in {"none", "checked", "chosen", "over"}
    /\ written \in BOOLEAN /\ excused \in BOOLEAN
    /\ push \in {"no", "due", "sent"}

(* A registration is of a socket of its user here *)
OwnRegistration ==
    \A i \in Instances : \A k \in DOMAIN cmds[i] :
        cmds[i][k].op = "sadd" =>
            sock[cmds[i][k].sock].user = cmds[i][k].user /\ sock[cmds[i][k].sock].inst = i

(* Nothing unlists a user behind the registration of a socket it still has *)
NotUnlisted ==
    \A i \in Instances : \A k, l \in DOMAIN cmds[i] :
        /\ k < l /\ cmds[i][k].op = "sadd" /\ cmds[i][l].op = "srem"
        /\ cmds[i][l].user = cmds[i][k].user
        => sock[cmds[i][k].sock].at # "joining"

(* Redis lists whoever has a live socket, and goes on to *)
LiveIsListed ==
    \A s \in Sockets :
        sock[s].at = "live" /\ sock[s].user \in Users =>
            /\ sock[s].inst \in redis[sock[s].user]
            /\ \A k \in DOMAIN cmds[sock[s].inst] :
                   cmds[sock[s].inst][k].op = "srem" =>
                       cmds[sock[s].inst][k].user # sock[s].user

MatchCommands ==
    \A i \in Instances : \A k \in DOMAIN cmds[i] :
        cmds[i][k].op = "smembers" /\ cmds[i][k].user = Driver => cmds[i][k].msg = "matched"

RideInOrder ==
    /\ push # "no" => trip \in {"chosen", "over"}
    /\ written => trip \in {"chosen", "over"}
    /\ push = "sent" /\ ~excused => written

MatchCommand(c) == c.op = "smembers" /\ c.user = Driver
AskedFor == \E k \in DOMAIN cmds[Consumer] : MatchCommand(cmds[Consumer][k])
RelayedTo(i) == \E m \in relays : m.to = i /\ m.user = Driver /\ m.msg = "matched"

CaughtUp(s) == sock[s].user = Driver /\ sock[s].at = "live" /\ resync[s] = "done"
MatchReaches ==
    trip = "chosen" /\ written /\ ~excused /\ push = "sent" =>
        \A s \in Sockets :
            CaughtUp(s) =>
                \/ "matched" \in heard[s]
                \/ sock[s].inst # Consumer /\ (AskedFor \/ RelayedTo(sock[s].inst))

AskedOncePushed == AskedFor => push # "no"

SocketsInv ==
    /\ SocketsTyped
    /\ OwnRegistration /\ NotUnlisted /\ LiveIsListed
    /\ MatchCommands /\ RideInOrder /\ AskedOncePushed /\ MatchReaches

-----------------------------------------------------------------------------
(* Sockets and commands as their steps change them *)

LEMMA OneConnection ==
    ASSUME SocketsTyped, NEW s \in Sockets
    PROVE  /\ sock[s] \in Connections /\ sock[s].at \in Stages
           /\ sock[s].user \in Users => sock[s].inst \in Instances
           /\ sock[s].at \in {"joining", "live", "cut", "deaf"} => sock[s].user \in Users
<1>1. sock[s] \in Connections
    BY DEF SocketsTyped
<1>2. None \notin Users
    BY PresenceAssumption DEF Users
<1>3. QED
    BY <1>1, <1>2 DEF Connections, Stages

LEMMA DriverIsUser == Driver \in Users /\ Riders \subseteq Users /\ Driver \notin Riders
BY PresenceAssumption DEF Users

(* A socket gets on, or ends: it is whose it was *)
LEMMA MovedConnection ==
    ASSUME NEW old \in Connections, NEW step \in Stages, old.user \in Users \/ step = "over"
    PROVE  /\ [old EXCEPT !.at = step] \in Connections
           /\ [old EXCEPT !.at = step].user = old.user
           /\ [old EXCEPT !.at = step].inst = old.inst
           /\ [old EXCEPT !.at = step].at = step
<1>1. None \notin Users
    BY PresenceAssumption DEF Users
<1>2. QED
    BY <1>1 DEF Connections

LEMMA SocketMoves ==
    ASSUME SocketsTyped, NEW s \in Sockets, NEW step \in Stages, sock' = Moves(s, step),
           sock[s].user \in Users
    PROVE  /\ sock' \in [Sockets -> Connections]
           /\ \A t \in Sockets : sock'[t].user = sock[t].user /\ sock'[t].inst = sock[t].inst
           /\ sock'[s].at = step /\ \A t \in Sockets : t # s => sock'[t] = sock[t]
<1>1. sock \in [Sockets -> Connections]
    BY DEF SocketsTyped
<1>2. PICK old, new : old = sock[s] /\ new = [old EXCEPT !.at = step]
    OBVIOUS
<1>3. old \in Connections
    BY <1>1, <1>2
<1>4. new \in Connections /\ new.user = old.user /\ new.inst = old.inst /\ new.at = step
    BY <1>2, <1>3, MovedConnection
<1>5. sock' = [sock EXCEPT ![s] = new]
    BY <1>2 DEF Moves
<1>6. QED
    BY <1>1, <1>2, <1>4, <1>5

Fades ==
    \A s \in Sockets :
        /\ sock'[s].user = sock[s].user /\ sock'[s].inst = sock[s].inst
        /\ sock'[s].at = sock[s].at \/ sock'[s].at \in {"cut", "deaf", "over"}

LEMMA MovedFades ==
    ASSUME SocketsTyped, NEW s \in Sockets, NEW step \in {"cut", "deaf", "over"},
           sock' = Moves(s, step), sock[s].user \in Users
    PROVE  sock' \in [Sockets -> Connections] /\ Fades
<1>1. step \in Stages
    BY DEF Stages
<1>2. QED
    BY <1>1, SocketMoves DEF Fades

LEMMA CommandTyped ==
    /\ \A u \in Users, s \in Sockets : [op |-> "sadd", user |-> u, sock |-> s] \in Commands
    /\ \A u \in Users : [op |-> "srem", user |-> u] \in Commands
    /\ \A u \in Users, m \in Messages : [op |-> "smembers", user |-> u, msg |-> m] \in Commands
<1>1. ASSUME NEW u \in Users, NEW s \in Sockets
      PROVE  [op |-> "sadd", user |-> u, sock |-> s] \in Commands
    BY DEF Commands
<1>2. ASSUME NEW u \in Users  PROVE [op |-> "srem", user |-> u] \in Commands
    BY DEF Commands
<1>3. ASSUME NEW u \in Users, NEW m \in Messages
      PROVE  [op |-> "smembers", user |-> u, msg |-> m] \in Commands
    BY DEF Commands
<1>4. QED
    BY <1>1, <1>2, <1>3

LEMMA CommandParts ==
    ASSUME NEW c \in Commands
    PROVE  /\ c.op \in {"sadd", "srem", "smembers"} /\ c.user \in Users
           /\ c.op = "sadd" => c.sock \in Sockets
           /\ c.op = "smembers" => c.msg \in Messages
BY DEF Commands

(* A command written is the last of its connection *)
LEMMA CommandWritten ==
    ASSUME SocketsTyped, NEW i \in Instances, NEW c \in Commands, Command(i, c)
    PROVE  /\ cmds' \in [Instances -> Seq(Commands)]
           /\ \A j \in Instances : j # i => cmds'[j] = cmds[j]
           /\ Len(cmds[i]) \in Nat /\ DOMAIN cmds[i] = 1..Len(cmds[i])
           /\ DOMAIN cmds'[i] = 1..(Len(cmds[i]) + 1)
           /\ cmds'[i][Len(cmds[i]) + 1] = c
           /\ \A k \in DOMAIN cmds[i] : cmds'[i][k] = cmds[i][k]
<1>1. cmds \in [Instances -> Seq(Commands)]
    BY DEF SocketsTyped
<1>2. PICK q, r : q = cmds[i] /\ r = Append(q, c)
    OBVIOUS
<1>3. q \in Seq(Commands)
    BY <1>1, <1>2
<1>4. /\ r \in Seq(Commands) /\ Len(q) \in Nat /\ DOMAIN q = 1..Len(q)
      /\ DOMAIN r = 1..(Len(q) + 1) /\ r[Len(q) + 1] = c
      /\ \A k \in DOMAIN q : r[k] = q[k]
    BY <1>2, <1>3
<1>5. cmds' = [cmds EXCEPT ![i] = r]
    BY <1>2 DEF Command
<1>6. QED
    BY <1>1, <1>2, <1>4, <1>5

(* The first command is answered: the others move up *)
LEMMA CommandAnswered ==
    ASSUME SocketsTyped, NEW i \in Instances, cmds[i] # <<>>,
           cmds' = [cmds EXCEPT ![i] = Tail(@)]
    PROVE  /\ cmds' \in [Instances -> Seq(Commands)]
           /\ Head(cmds[i]) \in Commands /\ 1 \in DOMAIN cmds[i] /\ Head(cmds[i]) = cmds[i][1]
           /\ \A j \in Instances : j # i => cmds'[j] = cmds[j]
           /\ \A k \in DOMAIN cmds'[i] :
                  k \in Nat /\ k >= 1 /\ k + 1 \in DOMAIN cmds[i] /\ cmds'[i][k] = cmds[i][k + 1]
           /\ \A k \in DOMAIN cmds[i] :
                  k # 1 => \E l \in DOMAIN cmds'[i] : cmds'[i][l] = cmds[i][k]
<1>1. cmds \in [Instances -> Seq(Commands)]
    BY DEF SocketsTyped
<1>2. PICK q : q = cmds[i]
    OBVIOUS
<1>3. PICK r : r = Tail(q)
    OBVIOUS
<1>4. q \in Seq(Commands) /\ q # <<>>
    BY <1>1, <1>2
<1>5. PICK n \in Nat : n = Len(q)
    BY <1>4
<1>6. DOMAIN q = 1..n /\ n >= 1 /\ Head(q) \in Commands /\ Head(q) = q[1]
    BY <1>4, <1>5
<1>7. r \in Seq(Commands) /\ DOMAIN r = 1..(n - 1) /\ \A k \in 1..(n - 1) : r[k] = q[k + 1]
    BY <1>3, <1>4, <1>5, <1>6
<1>8. ASSUME NEW k \in DOMAIN q, k # 1  PROVE \E l \in DOMAIN r : r[l] = q[k]
    <2>1. k - 1 \in 1..(n - 1) /\ (k - 1) + 1 = k
        BY <1>6, <1>8
    <2>2. r[k - 1] = q[k]
        BY <1>7, <2>1
    <2>3. QED
        BY <1>7, <2>1, <2>2
<1>9. ASSUME NEW k \in DOMAIN r
      PROVE  k \in Nat /\ k >= 1 /\ k + 1 \in DOMAIN q /\ r[k] = q[k + 1]
    BY <1>6, <1>7
<1>10. cmds' = [cmds EXCEPT ![i] = r]
    BY <1>2, <1>3
<1>11. cmds' \in [Instances -> Seq(Commands)] /\ cmds'[i] = r
       /\ \A j \in Instances : j # i => cmds'[j] = cmds[j]
    BY <1>1, <1>7, <1>10
<1>12. 1 \in DOMAIN q
    BY <1>6
<1>13. QED
    BY <1>2, <1>6, <1>8, <1>9, <1>11, <1>12

-----------------------------------------------------------------------------
(* What nothing else is asked of: the commands as they were *)

MatchDue == trip = "chosen" /\ written /\ ~excused /\ push = "sent"

LEMMA QuietStep ==
    ASSUME SocketsInv, SocketsTyped', RideInOrder',
           cmds' = cmds, redis' = redis, relays' = relays, Fades,
           \A s \in Sockets : heard[s] \subseteq heard'[s],
           push # "no" => push' # "no",
           MatchDue' =>
               /\ MatchDue
               /\ \A s \in Sockets :
                      CaughtUp(s)' => CaughtUp(s) \/ "matched" \in heard'[s]
    PROVE  SocketsInv'
<1>1. SocketsTyped
    BY DEF SocketsInv
<1>2. ASSUME NEW i \in Instances, NEW k \in DOMAIN cmds[i], cmds[i][k].op = "sadd"
      PROVE  cmds[i][k].sock \in Sockets
    BY <1>1, <1>2, CommandParts DEF SocketsTyped
<1>3. OwnRegistration'
    BY <1>2 DEF SocketsInv, OwnRegistration, Fades
<1>4. NotUnlisted'
    BY <1>2 DEF SocketsInv, NotUnlisted, Fades
<1>5. LiveIsListed'
    BY DEF SocketsInv, LiveIsListed, Fades
<1>6. MatchCommands'
    BY DEF SocketsInv, MatchCommands
<1>7. MatchReaches'
    <2>1. SUFFICES ASSUME MatchDue', NEW s \in Sockets, CaughtUp(s)'
                   PROVE  \/ "matched" \in heard'[s]
                          \/ sock'[s].inst # Consumer
                             /\ (AskedFor' \/ \E m \in relays' :
                                     m.to = sock'[s].inst /\ m.user = Driver /\ m.msg = "matched")
        BY Zenon DEF MatchReaches, MatchDue, RelayedTo
    <2>2. MatchDue /\ (CaughtUp(s) \/ "matched" \in heard'[s])
        BY <2>1
    <2>3. AskedFor' <=> AskedFor
        BY DEF AskedFor
    <2>4. sock'[s].inst = sock[s].inst /\ heard[s] \subseteq heard'[s]
        BY DEF Fades
    <2>5. CASE CaughtUp(s)
        <3>1. \/ "matched" \in heard[s]
              \/ sock[s].inst # Consumer /\ (AskedFor \/ RelayedTo(sock[s].inst))
            BY <2>2, <2>5, Zenon DEF SocketsInv, MatchReaches, MatchDue
        <3>2. QED
            BY <2>3, <2>4, <3>1 DEF RelayedTo
    <2>6. QED
        BY <2>2, <2>5
<1>8. AskedOncePushed'
    BY DEF SocketsInv, AskedOncePushed, AskedFor
<1>9. QED
    BY <1>3, <1>4, <1>5, <1>6, <1>7, <1>8 DEF SocketsInv

LEMMA SocketsUntouched ==
    ASSUME SocketsInv, UNCHANGED <<socketVars, rideVars>>
    PROVE  SocketsInv'
<1>1. /\ sock' = sock /\ redis' = redis /\ cmds' = cmds /\ relays' = relays /\ heard' = heard
      /\ resync' = resync /\ trip' = trip /\ written' = written /\ push' = push
      /\ excused' = excused
    BY DEF socketVars, rideVars
<1>2. SocketsTyped' /\ RideInOrder'
    BY <1>1 DEF SocketsInv, SocketsTyped, RideInOrder
<1>3. Fades
    BY <1>1 DEF Fades
<1>4. MatchDue' => MatchDue /\ \A s \in Sockets : CaughtUp(s)' => CaughtUp(s)
    BY <1>1 DEF MatchDue, CaughtUp
<1>5. QED
    BY <1>1, <1>2, <1>3, <1>4, QuietStep

-----------------------------------------------------------------------------
(* Steps of the ride and of a socket that write no command *)

LEMMA SocketDrops ==
    ASSUME SocketsInv, NEW s \in Sockets, Drops(s)
    PROVE  SocketsInv'
<1>1. PICK step \in {"cut", "deaf"} : sock' = Moves(s, step)
    BY DEF Drops
<1>7. sock[s].user \in Users
    BY OneConnection DEF Drops, Alive, SocketsInv
<1>2. /\ redis' = redis /\ cmds' = cmds /\ relays' = relays /\ heard' = heard
      /\ resync' = resync /\ trip' = trip /\ written' = written /\ push' = push
      /\ excused' = excused
    BY DEF Drops, rideVars
<1>3. sock' \in [Sockets -> Connections] /\ Fades
    BY <1>1, <1>7, MovedFades DEF SocketsInv
<1>4. SocketsTyped' /\ RideInOrder'
    BY <1>2, <1>3 DEF SocketsInv, SocketsTyped, RideInOrder
<1>5. MatchDue' => MatchDue /\ \A t \in Sockets : CaughtUp(t)' => CaughtUp(t)
    BY <1>2, <1>3 DEF MatchDue, CaughtUp, Fades
<1>6. QED
    BY <1>2, <1>3, <1>4, <1>5, QuietStep

LEMMA Resyncs ==
    ASSUME SocketsInv, NEW s \in Sockets, ResyncFinds(s) \/ ResyncFails(s) \/ ResyncSends(s)
    PROVE  SocketsInv'
<1>1. /\ sock' = sock /\ redis' = redis /\ cmds' = cmds /\ relays' = relays
      /\ trip' = trip /\ written' = written /\ push' = push /\ excused' = excused
    BY DEF ResyncFinds, ResyncFails, ResyncSends, socketVars
<1>2. \A t \in Sockets : t # s => resync'[t] = resync[t]
    BY DEF ResyncFinds, ResyncFails, ResyncSends, SocketsInv, SocketsTyped
<1>3. resync' \in [Sockets -> {"none", "find", "send", "done", "failed"}]
    BY DEF ResyncFinds, ResyncFails, ResyncSends, SocketsInv, SocketsTyped
<1>4. heard \in [Sockets -> SUBSET Messages]
    BY DEF SocketsInv, SocketsTyped
<1>5. /\ heard' \in [Sockets -> SUBSET Messages]
      /\ \A t \in Sockets : heard[t] \subseteq heard'[t]
    <2>1. CASE heard' = heard
        BY <1>4, <2>1
    <2>2. CASE heard' = [heard EXCEPT ![s] = @ \cup {"matched"}]
        BY <1>4, <2>2 DEF Messages
    <2>3. QED
        BY <2>1, <2>2 DEF ResyncFinds, ResyncFails, ResyncSends, socketVars
<1>6. ASSUME MatchDue', CaughtUp(s)'  PROVE CaughtUp(s) \/ "matched" \in heard'[s]
    <2>1. CASE ResyncFinds(s)
        <3>1. written /\ trip = "chosen"
            BY <1>1, <1>6 DEF MatchDue
        <3>2. resync' = [resync EXCEPT ![s] = "send"]
            BY <2>1, <3>1 DEF ResyncFinds
        <3>3. resync'[s] = "send"
            BY <3>2 DEF SocketsInv, SocketsTyped
        <3>4. QED
            BY <1>6, <3>3 DEF CaughtUp
    <2>2. CASE ResyncSends(s)
        <3>1. Alive(s)
            BY <1>1, <1>6 DEF CaughtUp, Alive
        <3>2. heard' = [heard EXCEPT ![s] = @ \cup {"matched"}]
            BY <2>2, <3>1 DEF ResyncSends
        <3>3. QED
            BY <1>4, <3>2
    <2>3. CASE ResyncFails(s)
        <3>1. resync'[s] = "failed"
            BY <2>3 DEF ResyncFails, SocketsInv, SocketsTyped
        <3>2. QED
            BY <1>6, <3>1 DEF CaughtUp
    <2>4. QED
        BY <2>1, <2>2, <2>3
<1>7. SocketsTyped' /\ RideInOrder' /\ Fades
    BY <1>1, <1>3, <1>5 DEF SocketsInv, SocketsTyped, RideInOrder, Fades
<1>8. MatchDue' => MatchDue
    BY <1>1 DEF MatchDue
<1>9. MatchDue' => \A t \in Sockets : CaughtUp(t)' => CaughtUp(t) \/ "matched" \in heard'[t]
    BY <1>1, <1>2, <1>6 DEF CaughtUp
<1>10. QED
    BY <1>1, <1>5, <1>7, <1>8, <1>9, QuietStep

(* The ride goes its way: no socket and no command is touched *)
LEMMA RideGoesOn ==
    ASSUME SocketsInv, UNCHANGED socketVars, resync' = resync,
           trip' \in {"none", "checked", "chosen", "over"}, written' \in BOOLEAN,
           excused' = excused, push' \in {"no", "due", "sent"},
           RideInOrder', push # "no" => push' # "no", MatchDue' => MatchDue
    PROVE  SocketsInv'
<1>1. sock' = sock /\ redis' = redis /\ cmds' = cmds /\ relays' = relays /\ heard' = heard
    BY DEF socketVars
<1>2. SocketsTyped' /\ Fades
    BY <1>1 DEF SocketsInv, SocketsTyped, Fades
<1>3. \A t \in Sockets : CaughtUp(t)' => CaughtUp(t)
    BY <1>1 DEF CaughtUp
<1>4. QED
    BY <1>1, <1>2, <1>3, QuietStep

LEMMA RideSteps ==
    ASSUME SocketsInv,
           RiderChecks \/ RiderAccepts \/ ServiceAssigns \/ GatewayAssigned \/ TripEnds
    PROVE  SocketsInv'
<1> USE DEF SocketsInv, SocketsTyped, RideInOrder, MatchDue
<1>1. CASE RiderChecks
    BY <1>1, RideGoesOn DEF RiderChecks
<1>2. CASE RiderAccepts
    BY <1>2, RideGoesOn DEF RiderAccepts
<1>3. CASE ServiceAssigns
    BY <1>3, RideGoesOn DEF ServiceAssigns
<1>4. CASE GatewayAssigned
    BY <1>4, RideGoesOn DEF GatewayAssigned
<1>5. CASE TripEnds
    BY <1>5, RideGoesOn DEF TripEnds
<1>6. QED
    BY <1>1, <1>2, <1>3, <1>4, <1>5

-----------------------------------------------------------------------------
(* A message is sent: sockets of its user here, then the command *)

LEMMA DeliveredAdds ==
    ASSUME SocketsTyped, NEW i, NEW u, NEW msg \in Messages, heard' = Delivered(i, u, msg)
    PROVE  /\ heard' \in [Sockets -> SUBSET Messages]
           /\ \A s \in Sockets : heard[s] \subseteq heard'[s]
           /\ \A s \in Sockets :
                  sock[s].user = u /\ sock[s].inst = i /\ sock[s].at = "live" => msg \in heard'[s]
BY DEF SocketsTyped, Delivered, SocketsOf, Alive

(* What an smembers command at the end of a connection leaves as it was *)
LEMMA MessageSent ==
    ASSUME SocketsInv, NEW i \in Instances, NEW u \in Users, NEW msg \in Messages,
           SendToUser(i, u, msg), u = Driver => msg = "matched"
    PROVE  /\ cmds' \in [Instances -> Seq(Commands)]
           /\ OwnRegistration' /\ NotUnlisted' /\ LiveIsListed' /\ MatchCommands'
           /\ AskedFor => AskedFor'
           /\ u # Driver => (AskedFor' => AskedFor)
           /\ i = Consumer /\ u = Driver => AskedFor'
<1>1. PICK c : c = [op |-> "smembers", user |-> u, msg |-> msg]
    OBVIOUS
<1>2. c \in Commands /\ c.op = "smembers" /\ c.user = u /\ c.msg = msg
    BY <1>1, CommandTyped
<1>3. PICK n : n = Len(cmds[i])
    OBVIOUS
<1>4. /\ cmds' \in [Instances -> Seq(Commands)]
      /\ \A j \in Instances : j # i => cmds'[j] = cmds[j]
      /\ n \in Nat /\ DOMAIN cmds[i] = 1..n /\ DOMAIN cmds'[i] = 1..(n + 1)
      /\ cmds'[i][n + 1] = c
      /\ \A k \in DOMAIN cmds[i] : cmds'[i][k] = cmds[i][k]
    BY <1>1, <1>2, <1>3, CommandWritten DEF SocketsInv, SendToUser
<1>5. sock' = sock /\ redis' = redis
    BY DEF SendToUser
<1>6. ASSUME NEW j \in Instances, NEW k \in DOMAIN cmds'[j]
      PROVE  \/ k \in DOMAIN cmds[j] /\ cmds'[j][k] = cmds[j][k]
             \/ j = i /\ k = n + 1 /\ cmds'[j][k] = c
    BY <1>4
<1>7. OwnRegistration'
    BY <1>2, <1>5, <1>6 DEF SocketsInv, OwnRegistration
<1>8. NotUnlisted'
    <2>1. SUFFICES ASSUME NEW j \in Instances, NEW k \in DOMAIN cmds'[j], NEW l \in DOMAIN cmds'[j],
                          k < l, cmds'[j][k].op = "sadd", cmds'[j][l].op = "srem",
                          cmds'[j][l].user = cmds'[j][k].user
                   PROVE  sock'[cmds'[j][k].sock].at # "joining"
        BY DEF NotUnlisted
    <2>2. k \in DOMAIN cmds[j] /\ cmds'[j][k] = cmds[j][k]
        BY <1>2, <1>6, <2>1
    <2>3. l \in DOMAIN cmds[j] /\ cmds'[j][l] = cmds[j][l]
        BY <1>2, <1>6, <2>1
    <2>4. QED
        BY <1>5, <2>1, <2>2, <2>3 DEF SocketsInv, NotUnlisted
<1>9. LiveIsListed'
    <2>1. SUFFICES ASSUME NEW s \in Sockets, sock'[s].at = "live", sock'[s].user \in Users
                   PROVE  /\ sock'[s].inst \in redis'[sock'[s].user]
                          /\ \A k \in DOMAIN cmds'[sock'[s].inst] :
                                 cmds'[sock'[s].inst][k].op = "srem" =>
                                     cmds'[sock'[s].inst][k].user # sock'[s].user
        BY DEF LiveIsListed, Users
    <2>2. PICK j, v : j = sock[s].inst /\ v = sock[s].user
        OBVIOUS
    <2>3. sock'[s].inst = j /\ sock'[s].user = v /\ sock[s].at = "live" /\ v \in Users
        BY <1>5, <2>1, <2>2
    <2>4. j \in Instances
        BY <2>2, <2>3, OneConnection DEF SocketsInv
    <2>5. /\ j \in redis[v]
          /\ \A k \in DOMAIN cmds[j] : cmds[j][k].op = "srem" => cmds[j][k].user # v
        BY <2>2, <2>3 DEF SocketsInv, LiveIsListed
    <2>6. \A k \in DOMAIN cmds'[j] : cmds'[j][k].op = "srem" => cmds'[j][k].user # v
        BY <1>2, <1>6, <2>4, <2>5
    <2>7. QED
        BY <1>5, <2>3, <2>5, <2>6
<1>10. MatchCommands'
    BY <1>2, <1>6 DEF SocketsInv, MatchCommands
<1>11. Consumer \in Instances
    BY PresenceAssumption
<1>12. ASSUME AskedFor  PROVE AskedFor'
    <2>1. PICK k \in DOMAIN cmds[Consumer] : MatchCommand(cmds[Consumer][k])
        BY <1>12 DEF AskedFor
    <2>2. k \in DOMAIN cmds'[Consumer] /\ cmds'[Consumer][k] = cmds[Consumer][k]
        <3>1. CASE i = Consumer
            BY <1>4, <2>1, <3>1
        <3>2. CASE i # Consumer
            BY <1>4, <1>11, <2>1, <3>2
        <3>3. QED
            BY <3>1, <3>2
    <2>3. QED
        BY <2>1, <2>2 DEF AskedFor
<1>13. ASSUME i = Consumer, u = Driver  PROVE AskedFor'
    <2>1. n + 1 \in DOMAIN cmds'[Consumer] /\ MatchCommand(cmds'[Consumer][n + 1])
        BY <1>2, <1>4, <1>13 DEF MatchCommand
    <2>2. QED
        BY <2>1 DEF AskedFor
<1>14. ASSUME u # Driver, AskedFor'  PROVE AskedFor
    <2>1. PICK k \in DOMAIN cmds'[Consumer] : MatchCommand(cmds'[Consumer][k])
        BY <1>14 DEF AskedFor
    <2>2. k \in DOMAIN cmds[Consumer] /\ cmds'[Consumer][k] = cmds[Consumer][k]
        BY <1>2, <1>6, <1>11, <1>14, <2>1 DEF MatchCommand
    <2>3. QED
        BY <2>1, <2>2 DEF AskedFor
<1>15. QED
    BY <1>4, <1>7, <1>8, <1>9, <1>10, <1>12, <1>13, <1>14

LEMMA ToldRider ==
    ASSUME SocketsInv, NEW i \in Instances, NEW r \in Riders, NEW msg \in Messages,
           SendToUser(i, r, msg), UNCHANGED rideVars
    PROVE  SocketsInv'
<1>1. r \in Users /\ r # Driver
    BY DriverIsUser
<1>2. /\ cmds' \in [Instances -> Seq(Commands)]
      /\ OwnRegistration' /\ NotUnlisted' /\ LiveIsListed' /\ MatchCommands'
      /\ AskedFor <=> AskedFor'
    BY <1>1, MessageSent
<1>3. /\ sock' = sock /\ redis' = redis /\ relays' = relays /\ heard' = Delivered(i, r, msg)
      /\ resync' = resync /\ trip' = trip /\ written' = written /\ push' = push
      /\ excused' = excused
    BY DEF SendToUser, rideVars
<1>4. /\ heard' \in [Sockets -> SUBSET Messages]
      /\ \A s \in Sockets : heard[s] \subseteq heard'[s]
    BY <1>3, DeliveredAdds DEF SocketsInv
<1>5. SocketsTyped' /\ RideInOrder'
    BY <1>2, <1>3, <1>4 DEF SocketsInv, SocketsTyped, RideInOrder
<1>6. MatchReaches'
    BY <1>2, <1>3, <1>4 DEF SocketsInv, MatchReaches, CaughtUp, RelayedTo
<1>7. AskedOncePushed'
    BY <1>2, <1>3 DEF SocketsInv, AskedOncePushed
<1>8. QED
    BY <1>2, <1>5, <1>6, <1>7 DEF SocketsInv

LEMMA MatchPushed ==
    ASSUME SocketsInv, PushesMatch
    PROVE  SocketsInv'
<1>1. Driver \in Users /\ Consumer \in Instances /\ "matched" \in Messages
    BY DriverIsUser, PresenceAssumption DEF Messages
<1>2. SendToUser(Consumer, Driver, "matched") /\ push = "due" /\ push' = "sent"
      /\ excused' = (excused \/ ~written) /\ resync' = resync /\ trip' = trip /\ written' = written
    BY DEF PushesMatch
<1>3. /\ cmds' \in [Instances -> Seq(Commands)]
      /\ OwnRegistration' /\ NotUnlisted' /\ LiveIsListed' /\ MatchCommands' /\ AskedFor'
    BY <1>1, <1>2, MessageSent
<1>4. /\ sock' = sock /\ redis' = redis /\ relays' = relays
      /\ heard' = Delivered(Consumer, Driver, "matched")
    BY <1>2 DEF SendToUser
<1>5. /\ heard' \in [Sockets -> SUBSET Messages]
      /\ \A s \in Sockets :
             sock[s].user = Driver /\ sock[s].inst = Consumer /\ sock[s].at = "live"
                => "matched" \in heard'[s]
    BY <1>1, <1>4, DeliveredAdds DEF SocketsInv
<1>6. SocketsTyped' /\ RideInOrder'
    BY <1>2, <1>3, <1>4, <1>5 DEF SocketsInv, SocketsTyped, RideInOrder
<1>7. MatchReaches'
    BY <1>3, <1>4, <1>5 DEF MatchReaches, CaughtUp
<1>8. AskedOncePushed'
    BY <1>2 DEF AskedOncePushed
<1>9. QED
    BY <1>3, <1>6, <1>7, <1>8 DEF SocketsInv

-----------------------------------------------------------------------------
(* A socket comes, goes, and Redis is told *)

LEMMA SocketComes ==
    ASSUME SocketsInv, NEW i \in Instances, Connects(i, Driver)
    PROVE  SocketsInv'
<1>1. PICK s \in Sockets :
          /\ sock[s] = Unused
          /\ sock' = [sock EXCEPT ![s] = [user |-> Driver, inst |-> i, at |-> "joining"]]
          /\ Command(i, [op |-> "sadd", user |-> Driver, sock |-> s])
    BY DEF Connects
<1>2. /\ redis' = redis /\ relays' = relays /\ heard' = heard
      /\ resync' = resync /\ trip' = trip /\ written' = written /\ push' = push
      /\ excused' = excused
    BY DEF Connects, rideVars
<1>3. PICK new, c : /\ new = [user |-> Driver, inst |-> i, at |-> "joining"]
                    /\ c = [op |-> "sadd", user |-> Driver, sock |-> s]
    OBVIOUS
<1>4. /\ new \in Connections /\ new.user = Driver /\ new.inst = i /\ new.at = "joining"
      /\ c \in Commands /\ c.op = "sadd" /\ c.user = Driver /\ c.sock = s
    BY <1>3, DriverIsUser, CommandTyped DEF Connections, Stages
<1>5. /\ sock' \in [Sockets -> Connections] /\ sock'[s] = new
      /\ \A t \in Sockets : t # s => sock'[t] = sock[t]
    BY <1>1, <1>3, <1>4 DEF SocketsInv, SocketsTyped
<1>6. PICK n : n = Len(cmds[i])
    OBVIOUS
<1>7. /\ cmds' \in [Instances -> Seq(Commands)]
      /\ \A j \in Instances : j # i => cmds'[j] = cmds[j]
      /\ n \in Nat /\ DOMAIN cmds[i] = 1..n /\ DOMAIN cmds'[i] = 1..(n + 1)
      /\ cmds'[i][n + 1] = c
      /\ \A k \in DOMAIN cmds[i] : cmds'[i][k] = cmds[i][k]
    BY <1>1, <1>3, <1>4, <1>6, CommandWritten DEF SocketsInv
<1>8. ASSUME NEW j \in Instances, NEW k \in DOMAIN cmds'[j]
      PROVE  \/ k \in DOMAIN cmds[j] /\ cmds'[j][k] = cmds[j][k]
             \/ j = i /\ k = n + 1 /\ cmds'[j][k] = c
    BY <1>7
<1>9. ASSUME NEW j \in Instances, NEW k \in DOMAIN cmds[j], cmds[j][k].op = "sadd"
      PROVE  cmds[j][k].sock \in Sockets /\ cmds[j][k].sock # s
    <2>1. cmds[j][k] \in Commands
        BY DEF SocketsInv, SocketsTyped
    <2>2. cmds[j][k].sock \in Sockets /\ cmds[j][k].user \in Users
        BY <1>9, <2>1, CommandParts
    <2>3. sock[cmds[j][k].sock].user = cmds[j][k].user
        BY <1>9 DEF SocketsInv, OwnRegistration
    <2>4. sock[s].user = None /\ None \notin Users
        BY <1>1, PresenceAssumption DEF Unused, Users
    <2>5. QED
        BY <2>2, <2>3, <2>4
<1>10. OwnRegistration'
    BY <1>4, <1>5, <1>8, <1>9 DEF SocketsInv, OwnRegistration
<1>11. NotUnlisted'
    <2>1. SUFFICES ASSUME NEW j \in Instances, NEW k \in DOMAIN cmds'[j], NEW l \in DOMAIN cmds'[j],
                          k < l, cmds'[j][k].op = "sadd", cmds'[j][l].op = "srem",
                          cmds'[j][l].user = cmds'[j][k].user
                   PROVE  sock'[cmds'[j][k].sock].at # "joining"
        BY DEF NotUnlisted
    <2>2. l \in DOMAIN cmds[j] /\ cmds'[j][l] = cmds[j][l]
        BY <1>4, <1>8, <2>1
    <2>3. k \in DOMAIN cmds[j] /\ cmds'[j][k] = cmds[j][k]
        BY <1>7, <1>8, <2>1, <2>2
    <2>4. sock[cmds[j][k].sock].at # "joining"
        BY <2>1, <2>2, <2>3 DEF SocketsInv, NotUnlisted
    <2>5. QED
        BY <1>5, <1>9, <2>1, <2>3, <2>4
<1>12. LiveIsListed'
    <2>1. SUFFICES ASSUME NEW t \in Sockets, sock'[t].at = "live", sock'[t].user \in Users
                   PROVE  /\ sock'[t].inst \in redis'[sock'[t].user]
                          /\ \A k \in DOMAIN cmds'[sock'[t].inst] :
                                 cmds'[sock'[t].inst][k].op = "srem" =>
                                     cmds'[sock'[t].inst][k].user # sock'[t].user
        BY DEF LiveIsListed, Users
    <2>2. t # s
        BY <1>4, <1>5, <2>1
    <2>3. PICK j, v : j = sock[t].inst /\ v = sock[t].user
        OBVIOUS
    <2>4. sock'[t].inst = j /\ sock'[t].user = v /\ sock[t].at = "live" /\ v \in Users
        BY <1>5, <2>1, <2>2, <2>3
    <2>5. j \in Instances
        BY <2>3, <2>4, OneConnection DEF SocketsInv
    <2>6. /\ j \in redis[v]
          /\ \A k \in DOMAIN cmds[j] : cmds[j][k].op = "srem" => cmds[j][k].user # v
        BY <2>3, <2>4 DEF SocketsInv, LiveIsListed
    <2>7. \A k \in DOMAIN cmds'[j] : cmds'[j][k].op = "srem" => cmds'[j][k].user # v
        BY <1>4, <1>8, <2>5, <2>6
    <2>8. QED
        BY <1>2, <2>4, <2>6, <2>7
<1>13. MatchCommands'
    BY <1>4, <1>8 DEF SocketsInv, MatchCommands
<1>14. AskedFor => AskedFor'
    <2>1. SUFFICES ASSUME NEW k \in DOMAIN cmds[Consumer], MatchCommand(cmds[Consumer][k])
                   PROVE  AskedFor'
        BY DEF AskedFor
    <2>2. Consumer \in Instances
        BY PresenceAssumption
    <2>3. k \in DOMAIN cmds'[Consumer] /\ cmds'[Consumer][k] = cmds[Consumer][k]
        <3>1. CASE i = Consumer
            BY <1>7, <3>1
        <3>2. CASE i # Consumer
            BY <1>7, <2>2, <3>2
        <3>3. QED
            BY <3>1, <3>2
    <2>4. QED
        BY <2>1, <2>3 DEF AskedFor
<1>19. AskedOncePushed'
    <2>1. ASSUME AskedFor'  PROVE AskedFor
        <3>1. PICK k \in DOMAIN cmds'[Consumer] : MatchCommand(cmds'[Consumer][k])
            BY <2>1 DEF AskedFor
        <3>2. k \in DOMAIN cmds[Consumer] /\ cmds'[Consumer][k] = cmds[Consumer][k]
            BY <1>4, <1>8, <3>1, PresenceAssumption DEF MatchCommand
        <3>3. QED
            BY <3>1, <3>2 DEF AskedFor
    <2>2. QED
        BY <1>2, <2>1 DEF SocketsInv, AskedOncePushed
<1>15. \A t \in Sockets : CaughtUp(t)' => CaughtUp(t) /\ sock'[t].inst = sock[t].inst
    BY <1>2, <1>4, <1>5 DEF CaughtUp
<1>16. MatchReaches'
    BY <1>2, <1>14, <1>15 DEF SocketsInv, MatchReaches, RelayedTo
<1>17. SocketsTyped' /\ RideInOrder'
    BY <1>2, <1>5, <1>7 DEF SocketsInv, SocketsTyped, RideInOrder
<1>18. QED
    BY <1>10, <1>11, <1>12, <1>13, <1>16, <1>17, <1>19 DEF SocketsInv

(* A close or an error is heard of a socket: its user is unlisted when it was *)
(* the last of its connections here                                           *)
LEMMA SocketGoes ==
    ASSUME SocketsInv, NEW s \in Sockets, Unregisters(s),
           UNCHANGED <<redis, relays, heard, rideVars>>
    PROVE  SocketsInv'
<1>1. /\ redis' = redis /\ relays' = relays /\ heard' = heard
      /\ resync' = resync /\ trip' = trip /\ written' = written /\ push' = push
      /\ excused' = excused
    BY DEF rideVars
<1>2. sock[s].at = "cut" /\ sock' = Moves(s, "over")
    BY DEF Unregisters
<1>8. sock[s].user \in Users
    BY <1>2, OneConnection DEF SocketsInv
<1>3. sock' \in [Sockets -> Connections] /\ Fades
    BY <1>2, <1>8, MovedFades DEF SocketsInv
<1>4. RideInOrder'
    BY <1>1 DEF SocketsInv, RideInOrder
<1>5. MatchDue' => MatchDue /\ \A t \in Sockets : CaughtUp(t)' => CaughtUp(t)
    BY <1>1, <1>3 DEF MatchDue, CaughtUp, Fades
<1>6. CASE cmds' = cmds
    <2>1. SocketsTyped'
        BY <1>1, <1>3, <1>6 DEF SocketsInv, SocketsTyped
    <2>2. QED
        BY <1>1, <1>3, <1>4, <1>5, <1>6, <2>1, QuietStep
<1>7. CASE LastOf(s) /\ Command(sock[s].inst, [op |-> "srem", user |-> sock[s].user])
           /\ sock[s].user \in Users
    <2>1. PICK i, u : i = sock[s].inst /\ u = sock[s].user
        OBVIOUS
    <2>2. i \in Instances /\ u \in Users
        BY <1>7, <2>1, OneConnection DEF SocketsInv
    <2>3. PICK c : c = [op |-> "srem", user |-> u]
        OBVIOUS
    <2>4. c \in Commands /\ c.op = "srem" /\ c.user = u
        BY <2>2, <2>3, CommandTyped
    <2>5. PICK n : n = Len(cmds[i])
        OBVIOUS
    <2>6. /\ cmds' \in [Instances -> Seq(Commands)]
          /\ \A j \in Instances : j # i => cmds'[j] = cmds[j]
          /\ n \in Nat /\ DOMAIN cmds[i] = 1..n /\ DOMAIN cmds'[i] = 1..(n + 1)
          /\ cmds'[i][n + 1] = c
          /\ \A k \in DOMAIN cmds[i] : cmds'[i][k] = cmds[i][k]
        BY <1>7, <2>1, <2>2, <2>3, <2>4, <2>5, CommandWritten DEF SocketsInv
    <2>7. ASSUME NEW j \in Instances, NEW k \in DOMAIN cmds'[j]
          PROVE  \/ k \in DOMAIN cmds[j] /\ cmds'[j][k] = cmds[j][k]
                 \/ j = i /\ k = n + 1 /\ cmds'[j][k] = c
        BY <2>6
    <2>8. ASSUME NEW t \in Sockets, sock'[t].user = u, sock'[t].inst = i
          PROVE  sock'[t].at \notin {"joining", "live"}
        <3>1. CASE t = s
            BY <1>2, <1>8, <3>1, SocketMoves DEF SocketsInv, Stages
        <3>2. CASE t # s
            <4>1. sock[t].user = u /\ sock[t].inst = i
                BY <1>3, <2>8 DEF Fades
            <4>2. t \in SocketsOf(sock[s].inst, sock[s].user) \ {s}
                BY <2>1, <3>2, <4>1 DEF SocketsOf
            <4>3. ~Listed(t)
                BY <1>7, <4>2 DEF LastOf
            <4>4. QED
                BY <1>3, <4>3 DEF Listed, Fades
        <3>3. QED
            BY <3>1, <3>2
    <2>9. ASSUME NEW j \in Instances, NEW k \in DOMAIN cmds[j], cmds[j][k].op = "sadd"
          PROVE  /\ cmds[j][k].sock \in Sockets
                 /\ sock'[cmds[j][k].sock].user = cmds[j][k].user
                 /\ sock'[cmds[j][k].sock].inst = j
        <3>1. cmds[j][k] \in Commands
            BY DEF SocketsInv, SocketsTyped
        <3>2. cmds[j][k].sock \in Sockets
            BY <2>9, <3>1, CommandParts
        <3>3. QED
            BY <1>3, <2>9, <3>2 DEF SocketsInv, OwnRegistration, Fades
    <2>10. OwnRegistration'
        BY <2>4, <2>7, <2>9 DEF OwnRegistration
    <2>11. NotUnlisted'
        <3>1. SUFFICES ASSUME NEW j \in Instances, NEW k \in DOMAIN cmds'[j], NEW l \in DOMAIN cmds'[j],
                              k < l, cmds'[j][k].op = "sadd", cmds'[j][l].op = "srem",
                              cmds'[j][l].user = cmds'[j][k].user
                       PROVE  sock'[cmds'[j][k].sock].at # "joining"
            BY DEF NotUnlisted
        <3>2. k \in DOMAIN cmds[j] /\ cmds'[j][k] = cmds[j][k]
            BY <2>4, <2>7, <3>1
        <3>3. PICK t : t = cmds[j][k].sock
            OBVIOUS
        <3>4. t \in Sockets /\ sock'[t].user = cmds[j][k].user /\ sock'[t].inst = j
            BY <2>9, <3>1, <3>2, <3>3
        <3>5. CASE l \in DOMAIN cmds[j] /\ cmds'[j][l] = cmds[j][l]
            <4>1. sock[t].at # "joining"
                BY <3>1, <3>2, <3>3, <3>5 DEF SocketsInv, NotUnlisted
            <4>2. QED
                BY <1>3, <3>2, <3>3, <3>4, <4>1 DEF Fades
        <3>6. CASE j = i /\ l = n + 1 /\ cmds'[j][l] = c
            <4>1. sock'[t].user = u /\ sock'[t].inst = i
                BY <2>4, <3>1, <3>2, <3>4, <3>6
            <4>2. QED
                BY <2>8, <3>2, <3>3, <3>4, <4>1
        <3>7. QED
            BY <2>7, <3>1, <3>5, <3>6
    <2>12. LiveIsListed'
        <3>1. SUFFICES ASSUME NEW t \in Sockets, sock'[t].at = "live", sock'[t].user \in Users
                       PROVE  /\ sock'[t].inst \in redis'[sock'[t].user]
                              /\ \A k \in DOMAIN cmds'[sock'[t].inst] :
                                     cmds'[sock'[t].inst][k].op = "srem" =>
                                         cmds'[sock'[t].inst][k].user # sock'[t].user
            BY DEF LiveIsListed, Users
        <3>2. PICK j, v : j = sock[t].inst /\ v = sock[t].user
            OBVIOUS
        <3>3. sock'[t].inst = j /\ sock'[t].user = v /\ sock[t].at = "live" /\ v \in Users
            BY <1>3, <3>1, <3>2 DEF Fades
        <3>4. j \in Instances
            BY <3>2, <3>3, OneConnection DEF SocketsInv
        <3>5. /\ j \in redis[v]
              /\ \A k \in DOMAIN cmds[j] : cmds[j][k].op = "srem" => cmds[j][k].user # v
            BY <3>2, <3>3 DEF SocketsInv, LiveIsListed
        <3>6. ~(j = i /\ v = u)
            BY <2>8, <3>1, <3>3
        <3>7. \A k \in DOMAIN cmds'[j] : cmds'[j][k].op = "srem" => cmds'[j][k].user # v
            BY <2>4, <2>7, <3>4, <3>5, <3>6
        <3>8. QED
            BY <1>1, <3>3, <3>5, <3>7
    <2>13. MatchCommands'
        BY <2>4, <2>7 DEF SocketsInv, MatchCommands
    <2>14. AskedFor => AskedFor'
        <3>1. SUFFICES ASSUME NEW k \in DOMAIN cmds[Consumer], MatchCommand(cmds[Consumer][k])
                       PROVE  AskedFor'
            BY DEF AskedFor
        <3>2. Consumer \in Instances
            BY PresenceAssumption
        <3>3. k \in DOMAIN cmds'[Consumer] /\ cmds'[Consumer][k] = cmds[Consumer][k]
            <4>1. CASE i = Consumer
                BY <2>6, <4>1
            <4>2. CASE i # Consumer
                BY <2>6, <3>2, <4>2
            <4>3. QED
                BY <4>1, <4>2
        <3>4. QED
            BY <3>1, <3>3 DEF AskedFor
    <2>18. AskedOncePushed'
        <3>1. ASSUME AskedFor'  PROVE AskedFor
            <4>1. PICK k \in DOMAIN cmds'[Consumer] : MatchCommand(cmds'[Consumer][k])
                BY <3>1 DEF AskedFor
            <4>2. k \in DOMAIN cmds[Consumer] /\ cmds'[Consumer][k] = cmds[Consumer][k]
                BY <2>4, <2>7, <4>1, PresenceAssumption DEF MatchCommand
            <4>3. QED
                BY <4>1, <4>2 DEF AskedFor
        <3>2. QED
            BY <1>1, <3>1 DEF SocketsInv, AskedOncePushed
    <2>15. MatchReaches'
        BY <1>1, <1>3, <1>5, <2>14 DEF SocketsInv, MatchReaches, MatchDue, RelayedTo, Fades
    <2>16. SocketsTyped'
        BY <1>1, <1>3, <2>6 DEF SocketsInv, SocketsTyped
    <2>17. QED
        BY <1>4, <2>10, <2>11, <2>12, <2>13, <2>15, <2>16, <2>18 DEF SocketsInv
<1>9. QED
    BY <1>6, <1>7, <1>8 DEF Unregisters

-----------------------------------------------------------------------------
(* Redis answers, or fails *)

LEMMA AnsweredKeeps ==
    ASSUME SocketsInv, NEW i \in Instances, cmds[i] # <<>>,
           cmds' = [cmds EXCEPT ![i] = Tail(@)],
           \A s \in Sockets :
               /\ sock'[s].user = sock[s].user /\ sock'[s].inst = sock[s].inst
               /\ sock'[s].at = "joining" => sock[s].at = "joining"
    PROVE  /\ cmds' \in [Instances -> Seq(Commands)]
           /\ Head(cmds[i]) \in Commands
           /\ OwnRegistration' /\ NotUnlisted' /\ MatchCommands'
           /\ \A j \in Instances : \A k \in DOMAIN cmds'[j] :
                  \E l \in DOMAIN cmds[j] : cmds'[j][k] = cmds[j][l]
           /\ AskedFor => AskedFor' \/ (i = Consumer /\ MatchCommand(Head(cmds[i])))
           /\ AskedFor' => AskedFor
<1>1. PICK c : c = Head(cmds[i])
    OBVIOUS
<1>2. /\ cmds' \in [Instances -> Seq(Commands)]
      /\ c \in Commands /\ 1 \in DOMAIN cmds[i] /\ c = cmds[i][1]
      /\ \A j \in Instances : j # i => cmds'[j] = cmds[j]
      /\ \A k \in DOMAIN cmds'[i] :
             k \in Nat /\ k >= 1 /\ k + 1 \in DOMAIN cmds[i] /\ cmds'[i][k] = cmds[i][k + 1]
      /\ \A k \in DOMAIN cmds[i] :
             k # 1 => \E l \in DOMAIN cmds'[i] : cmds'[i][l] = cmds[i][k]
    BY <1>1, CommandAnswered DEF SocketsInv
<1>3. ASSUME NEW j \in Instances, NEW k \in DOMAIN cmds'[j]
      PROVE  \E l \in DOMAIN cmds[j] : cmds'[j][k] = cmds[j][l]
    <2>1. CASE j = i
        BY <1>2, <2>1
    <2>2. CASE j # i
        BY <1>2, <2>2
    <2>3. QED
        BY <2>1, <2>2
<1>4. ASSUME NEW j \in Instances, NEW l \in DOMAIN cmds[j], cmds[j][l].op = "sadd"
      PROVE  /\ cmds[j][l].sock \in Sockets
             /\ sock'[cmds[j][l].sock].user = cmds[j][l].user
             /\ sock'[cmds[j][l].sock].inst = j
    <2>1. cmds[j][l] \in Commands
        BY DEF SocketsInv, SocketsTyped
    <2>2. cmds[j][l].sock \in Sockets
        BY <1>4, <2>1, CommandParts
    <2>3. QED
        BY <1>4, <2>2 DEF SocketsInv, OwnRegistration
<1>5. OwnRegistration'
    BY <1>3, <1>4 DEF OwnRegistration
<1>6. NotUnlisted'
    <2>1. SUFFICES ASSUME NEW j \in Instances, NEW k \in DOMAIN cmds'[j], NEW l \in DOMAIN cmds'[j],
                          k < l, cmds'[j][k].op = "sadd", cmds'[j][l].op = "srem",
                          cmds'[j][l].user = cmds'[j][k].user
                   PROVE  sock'[cmds'[j][k].sock].at # "joining"
        BY DEF NotUnlisted
    <2>2. PICK m \in DOMAIN cmds[j], n \in DOMAIN cmds[j] :
              m < n /\ cmds'[j][k] = cmds[j][m] /\ cmds'[j][l] = cmds[j][n]
        <3>1. CASE j = i
            <4>1. k + 1 \in DOMAIN cmds[j] /\ cmds'[j][k] = cmds[j][k + 1] /\ k \in Nat
                BY <1>2, <3>1
            <4>2. l + 1 \in DOMAIN cmds[j] /\ cmds'[j][l] = cmds[j][l + 1] /\ l \in Nat
                BY <1>2, <3>1
            <4>3. k + 1 < l + 1
                BY <2>1, <4>1, <4>2
            <4>4. QED
                BY <4>1, <4>2, <4>3
        <3>2. CASE j # i
            BY <1>2, <2>1, <3>2
        <3>3. QED
            BY <3>1, <3>2
    <2>3. sock[cmds[j][m].sock].at # "joining"
        BY <2>1, <2>2 DEF SocketsInv, NotUnlisted
    <2>4. cmds[j][m].sock \in Sockets
        BY <1>4, <2>1, <2>2
    <2>5. QED
        BY <2>2, <2>3, <2>4
<1>7. MatchCommands'
    BY <1>3 DEF SocketsInv, MatchCommands
<1>8. Consumer \in Instances
    BY PresenceAssumption
<1>9. ASSUME AskedFor, ~(i = Consumer /\ MatchCommand(c))  PROVE AskedFor'
    <2>1. PICK k \in DOMAIN cmds[Consumer] : MatchCommand(cmds[Consumer][k])
        BY <1>9 DEF AskedFor
    <2>2. \E l \in DOMAIN cmds'[Consumer] : cmds'[Consumer][l] = cmds[Consumer][k]
        <3>1. CASE i = Consumer
            <4>1. k # 1
                BY <1>2, <1>9, <2>1, <3>1
            <4>2. QED
                BY <1>2, <3>1, <4>1
        <3>2. CASE i # Consumer
            BY <1>2, <1>8, <3>2
        <3>3. QED
            BY <3>1, <3>2
    <2>3. QED
        BY <2>1, <2>2 DEF AskedFor
<1>10. ASSUME AskedFor'  PROVE AskedFor
    <2>1. PICK k \in DOMAIN cmds'[Consumer] : MatchCommand(cmds'[Consumer][k])
        BY <1>10 DEF AskedFor
    <2>2. \E l \in DOMAIN cmds[Consumer] : cmds'[Consumer][k] = cmds[Consumer][l]
        BY <1>3, <1>8
    <2>3. QED
        BY <2>1, <2>2 DEF AskedFor
<1>11. QED
    BY <1>1, <1>2, <1>3, <1>5, <1>6, <1>7, <1>9, <1>10

LEMMA CommandFails ==
    ASSUME SocketsInv, NEW i \in Instances, RedisFails(i)
    PROVE  SocketsInv'
<1>1. PICK c : c = Head(cmds[i])
    OBVIOUS
<1>2. /\ cmds[i] # <<>> /\ cmds' = [cmds EXCEPT ![i] = Tail(@)]
      /\ redis' = redis /\ relays' = relays /\ heard' = heard /\ resync' = resync
      /\ trip' = trip /\ written' = written /\ push' = push
      /\ excused' = (excused \/ (c.op = "smembers" /\ c.user = Driver))
      /\ sock' = IF c.op = "sadd" THEN Moves(c.sock, "deaf") ELSE sock
    BY <1>1 DEF RedisFails
<1>3. c \in Commands /\ 1 \in DOMAIN cmds[i] /\ c = cmds[i][1]
    BY <1>1, <1>2, CommandAnswered DEF SocketsInv
<1>4. sock' \in [Sockets -> Connections] /\ Fades
    <2>1. CASE c.op = "sadd"
        <3>1. c.sock \in Sockets /\ c.user \in Users
            BY <1>3, <2>1, CommandParts
        <3>2. sock[c.sock].user \in Users
            BY <1>3, <2>1, <3>1 DEF SocketsInv, OwnRegistration
        <3>3. QED
            BY <1>2, <2>1, <3>1, <3>2, MovedFades DEF SocketsInv
    <2>2. CASE c.op # "sadd"
        BY <1>2, <2>2 DEF SocketsInv, SocketsTyped, Fades
    <2>3. QED
        BY <2>1, <2>2
<1>5. \A s \in Sockets :
          /\ sock'[s].user = sock[s].user /\ sock'[s].inst = sock[s].inst
          /\ sock'[s].at = "joining" => sock[s].at = "joining"
          /\ sock'[s].at = "live" => sock[s].at = "live"
    BY <1>4 DEF Fades
<1>6. /\ cmds' \in [Instances -> Seq(Commands)]
      /\ OwnRegistration' /\ NotUnlisted' /\ MatchCommands'
      /\ \A j \in Instances : \A k \in DOMAIN cmds'[j] :
             \E l \in DOMAIN cmds[j] : cmds'[j][k] = cmds[j][l]
      /\ AskedFor => AskedFor' \/ (i = Consumer /\ MatchCommand(Head(cmds[i])))
      /\ AskedFor' => AskedFor
    BY <1>2, <1>5, AnsweredKeeps
<1>7. LiveIsListed'
    <2>1. SUFFICES ASSUME NEW t \in Sockets, sock'[t].at = "live", sock'[t].user \in Users
                   PROVE  /\ sock'[t].inst \in redis'[sock'[t].user]
                          /\ \A k \in DOMAIN cmds'[sock'[t].inst] :
                                 cmds'[sock'[t].inst][k].op = "srem" =>
                                     cmds'[sock'[t].inst][k].user # sock'[t].user
        BY DEF LiveIsListed, Users
    <2>2. PICK j, v : j = sock[t].inst /\ v = sock[t].user
        OBVIOUS
    <2>3. sock'[t].inst = j /\ sock'[t].user = v /\ sock[t].at = "live" /\ v \in Users
        BY <1>5, <2>1, <2>2
    <2>4. j \in Instances
        BY <2>2, <2>3, OneConnection DEF SocketsInv
    <2>5. /\ j \in redis[v]
          /\ \A k \in DOMAIN cmds[j] : cmds[j][k].op = "srem" => cmds[j][k].user # v
        BY <2>2, <2>3 DEF SocketsInv, LiveIsListed
    <2>6. \A k \in DOMAIN cmds'[j] : cmds'[j][k].op = "srem" => cmds'[j][k].user # v
        BY <1>6, <2>4, <2>5
    <2>7. QED
        BY <1>2, <2>3, <2>5, <2>6
<1>8. SocketsTyped' /\ RideInOrder'
    BY <1>2, <1>4, <1>6 DEF SocketsInv, SocketsTyped, RideInOrder
<1>9. AskedOncePushed'
    BY <1>2, <1>6 DEF SocketsInv, AskedOncePushed
<1>10. MatchReaches'
    <2>1. MatchDue' => MatchDue /\ ~MatchCommand(Head(cmds[i]))
        BY <1>1, <1>2 DEF MatchDue, MatchCommand
    <2>2. \A t \in Sockets : CaughtUp(t)' => CaughtUp(t)
        BY <1>2, <1>5 DEF CaughtUp
    <2>3. QED
        BY <1>2, <1>5, <1>6, <2>1, <2>2 DEF SocketsInv, MatchReaches, MatchDue, RelayedTo
<1>11. QED
    BY <1>6, <1>7, <1>8, <1>9, <1>10 DEF SocketsInv

LEMMA CommandServed ==
    ASSUME SocketsInv, NEW i \in Instances, RedisServes(i)
    PROVE  SocketsInv'
<1>1. PICK c, u : c = Head(cmds[i]) /\ u = c.user
    OBVIOUS
<1>2. /\ cmds[i] # <<>> /\ cmds' = [cmds EXCEPT ![i] = Tail(@)]
      /\ heard' = heard /\ trip' = trip /\ written' = written /\ push' = push
      /\ excused' = excused
    BY DEF RedisServes
<1>3. c \in Commands /\ 1 \in DOMAIN cmds[i] /\ c = cmds[i][1]
    BY <1>1, <1>2, CommandAnswered DEF SocketsInv
<1>4. u \in Users /\ c.op \in {"sadd", "srem", "smembers"}
    BY <1>1, <1>3, CommandParts
<1>5. \A k \in DOMAIN cmds'[i] :
          k \in Nat /\ k >= 1 /\ k + 1 \in DOMAIN cmds[i] /\ cmds'[i][k] = cmds[i][k + 1]
    BY <1>1, <1>2, CommandAnswered DEF SocketsInv
<1>6. /\ sock \in [Sockets -> Connections] /\ redis \in [Users -> SUBSET Instances]
      /\ relays \subseteq [to : Instances, user : Users, msg : Messages]
      /\ resync \in [Sockets -> {"none", "find", "send", "done", "failed"}]
    BY DEF SocketsInv, SocketsTyped
<1>7. RideInOrder'
    BY <1>2 DEF SocketsInv, RideInOrder
<1>8. MatchDue' <=> MatchDue
    BY <1>2 DEF MatchDue
<1>9. CASE c.op = "sadd"
    <2>1. PICK s \in Sockets : s = c.sock
        BY <1>3, <1>9, CommandParts
    <2>2. sock[s].user = u /\ sock[s].inst = i
        BY <1>1, <1>3, <1>9, <2>1 DEF SocketsInv, OwnRegistration
    <2>3. Joined(s) /\ relays' = relays /\ redis' = [redis EXCEPT ![u] = @ \cup {i}]
        BY <1>1, <1>9, <2>1 DEF RedisServes
    <2>4. /\ sock' \in [Sockets -> Connections]
          /\ \A t \in Sockets : sock'[t].user = sock[t].user /\ sock'[t].inst = sock[t].inst
          /\ \A t \in Sockets : t # s => sock'[t] = sock[t]
          /\ sock[s].at = "joining" => sock'[s].at = "live"
          /\ sock[s].at # "joining" => sock'[s].at = sock[s].at
        <3>1. CASE sock[s].at = "joining"
            <4>1. sock' = Moves(s, "live") /\ "live" \in Stages
                BY <2>3, <3>1 DEF Joined, Stages
            <4>2. QED
                BY <1>4, <2>2, <3>1, <4>1, SocketMoves DEF SocketsInv
        <3>2. CASE sock[s].at # "joining"
            BY <1>6, <2>3, <3>2 DEF Joined
        <3>3. QED
            BY <3>1, <3>2
    <2>5. /\ resync' \in [Sockets -> {"none", "find", "send", "done", "failed"}]
          /\ \A t \in Sockets : t # s => resync'[t] = resync[t]
          /\ u = Driver => resync'[s] = "find"
        <3>1. CASE u = Driver
            <4>1. resync' = [resync EXCEPT ![s] = "find"]
                BY <2>2, <2>3, <3>1 DEF Joined
            <4>2. QED
                BY <1>6, <4>1
        <3>2. CASE u # Driver
            <4>1. resync' = resync
                BY <2>2, <2>3, <3>2 DEF Joined
            <4>2. QED
                BY <1>6, <3>2, <4>1
        <3>3. QED
            BY <3>1, <3>2
    <2>6. /\ redis' \in [Users -> SUBSET Instances] /\ i \in redis'[u]
          /\ \A v \in Users : redis[v] \subseteq redis'[v]
        BY <1>4, <1>6, <2>3
    <2>7. \A t \in Sockets :
              /\ sock'[t].user = sock[t].user /\ sock'[t].inst = sock[t].inst
              /\ sock'[t].at = "joining" => sock[t].at = "joining"
        BY <2>4
    <2>8. /\ cmds' \in [Instances -> Seq(Commands)]
          /\ OwnRegistration' /\ NotUnlisted' /\ MatchCommands'
          /\ \A j \in Instances : \A k \in DOMAIN cmds'[j] :
                 \E l \in DOMAIN cmds[j] : cmds'[j][k] = cmds[j][l]
          /\ AskedFor => AskedFor' \/ (i = Consumer /\ MatchCommand(Head(cmds[i])))
          /\ AskedFor' => AskedFor
        BY <1>2, <2>7, AnsweredKeeps
    <2>9. LiveIsListed'
        <3>1. SUFFICES ASSUME NEW t \in Sockets, sock'[t].at = "live", sock'[t].user \in Users
                       PROVE  /\ sock'[t].inst \in redis'[sock'[t].user]
                              /\ \A k \in DOMAIN cmds'[sock'[t].inst] :
                                     cmds'[sock'[t].inst][k].op = "srem" =>
                                         cmds'[sock'[t].inst][k].user # sock'[t].user
            BY DEF LiveIsListed, Users
        <3>2. PICK j, v : j = sock[t].inst /\ v = sock[t].user
            OBVIOUS
        <3>3. sock'[t].inst = j /\ sock'[t].user = v /\ v \in Users
            BY <2>4, <3>1, <3>2
        <3>4. j \in Instances
            BY <3>2, <3>3, OneConnection DEF SocketsInv
        <3>5. CASE sock[t].at = "live"
            <4>1. /\ j \in redis[v]
                  /\ \A k \in DOMAIN cmds[j] : cmds[j][k].op = "srem" => cmds[j][k].user # v
                BY <3>2, <3>3, <3>5 DEF SocketsInv, LiveIsListed
            <4>2. \A k \in DOMAIN cmds'[j] : cmds'[j][k].op = "srem" => cmds'[j][k].user # v
                BY <2>8, <3>4, <4>1
            <4>3. QED
                BY <2>6, <3>3, <4>1, <4>2
        <3>6. CASE sock[t].at # "live"
            <4>1. t = s /\ sock[s].at = "joining"
                BY <2>4, <3>1, <3>6
            <4>2. j = i /\ v = u
                BY <2>2, <3>2, <4>1
            <4>3. ASSUME NEW k \in DOMAIN cmds'[i], cmds'[i][k].op = "srem"
                  PROVE  cmds'[i][k].user # u
                <5>1. /\ k + 1 \in DOMAIN cmds[i] /\ cmds'[i][k] = cmds[i][k + 1]
                      /\ 1 < k + 1
                    BY <1>5
                <5>2. /\ cmds[i][1].op = "sadd" /\ cmds[i][1].user = u
                      /\ sock[cmds[i][1].sock].at = "joining"
                    BY <1>1, <1>3, <1>9, <2>1, <4>1
                <5>3. QED
                    BY <1>3, <4>3, <5>1, <5>2 DEF SocketsInv, NotUnlisted
            <4>4. QED
                BY <2>6, <3>3, <4>2, <4>3
        <3>7. QED
            BY <3>5, <3>6
    <2>10. MatchReaches'
        <3>1. ~MatchCommand(Head(cmds[i]))
            BY <1>1, <1>9 DEF MatchCommand
        <3>2. \A t \in Sockets : CaughtUp(t)' => CaughtUp(t) /\ sock'[t].inst = sock[t].inst
            BY <2>2, <2>4, <2>5 DEF CaughtUp
        <3>3. QED
            BY <1>2, <2>3, <2>8, <3>1, <3>2 DEF SocketsInv, MatchReaches, RelayedTo
    <2>11. SocketsTyped'
        BY <1>2, <2>3, <2>4, <2>5, <2>6, <2>8 DEF SocketsInv, SocketsTyped
    <2>12. AskedOncePushed'
        BY <1>2, <2>8 DEF SocketsInv, AskedOncePushed
    <2>13. QED
        BY <1>7, <2>8, <2>9, <2>10, <2>11, <2>12 DEF SocketsInv
<1>10. CASE c.op # "sadd"
    <2>1. sock' = sock /\ resync' = resync
        BY <1>1, <1>10 DEF RedisServes
    <2>2. \A t \in Sockets :
              /\ sock'[t].user = sock[t].user /\ sock'[t].inst = sock[t].inst
              /\ sock'[t].at = "joining" => sock[t].at = "joining"
        BY <2>1
    <2>3. /\ cmds' \in [Instances -> Seq(Commands)]
          /\ OwnRegistration' /\ NotUnlisted' /\ MatchCommands'
          /\ \A j \in Instances : \A k \in DOMAIN cmds'[j] :
                 \E l \in DOMAIN cmds[j] : cmds'[j][k] = cmds[j][l]
          /\ AskedFor => AskedFor' \/ (i = Consumer /\ MatchCommand(Head(cmds[i])))
          /\ AskedFor' => AskedFor
        BY <1>2, <2>2, AnsweredKeeps
    <2>4. redis' = [redis EXCEPT ![u] = IF c.op = "srem" THEN @ \ {i} ELSE @]
        BY <1>1, <1>4, <1>10 DEF RedisServes
    <2>5. /\ redis' \in [Users -> SUBSET Instances]
          /\ \A v \in Users : \A j \in redis[v] :
                 j \in redis'[v] \/ (c.op = "srem" /\ v = u /\ j = i)
        BY <1>4, <1>6, <2>4
    <2>6. LiveIsListed'
        <3>1. SUFFICES ASSUME NEW t \in Sockets, sock'[t].at = "live", sock'[t].user \in Users
                       PROVE  /\ sock'[t].inst \in redis'[sock'[t].user]
                              /\ \A k \in DOMAIN cmds'[sock'[t].inst] :
                                     cmds'[sock'[t].inst][k].op = "srem" =>
                                         cmds'[sock'[t].inst][k].user # sock'[t].user
            BY DEF LiveIsListed, Users
        <3>2. PICK j, v : j = sock[t].inst /\ v = sock[t].user
            OBVIOUS
        <3>3. sock'[t].inst = j /\ sock'[t].user = v /\ sock[t].at = "live" /\ v \in Users
            BY <2>1, <3>1, <3>2
        <3>4. j \in Instances
            BY <3>2, <3>3, OneConnection DEF SocketsInv
        <3>5. /\ j \in redis[v]
              /\ \A k \in DOMAIN cmds[j] : cmds[j][k].op = "srem" => cmds[j][k].user # v
            BY <3>2, <3>3 DEF SocketsInv, LiveIsListed
        <3>6. ~(c.op = "srem" /\ v = u /\ j = i)
            BY <1>1, <1>3, <3>5
        <3>7. \A k \in DOMAIN cmds'[j] : cmds'[j][k].op = "srem" => cmds'[j][k].user # v
            BY <2>3, <3>4, <3>5
        <3>8. QED
            BY <2>5, <3>3, <3>5, <3>6, <3>7
    <2>7. relays' = IF c.op = "smembers"
                    THEN relays \cup {[to |-> j, user |-> u, msg |-> c.msg] : j \in redis[u] \ {i}}
                    ELSE relays
        BY <1>1 DEF RedisServes
    <2>8. relays' \subseteq [to : Instances, user : Users, msg : Messages] /\ relays \subseteq relays'
        <3>1. CASE c.op = "smembers"
            <4>1. c.msg \in Messages
                BY <1>3, <3>1, CommandParts
            <4>2. ASSUME NEW j \in redis[u] \ {i}
                  PROVE  [to |-> j, user |-> u, msg |-> c.msg]
                            \in [to : Instances, user : Users, msg : Messages]
                BY <1>4, <1>6, <4>1
            <4>3. QED
                BY <1>6, <2>7, <3>1, <4>2
        <3>2. CASE c.op # "smembers"
            BY <1>6, <2>7, <3>2
        <3>3. QED
            BY <3>1, <3>2
    <2>9. MatchReaches'
        <3>1. SUFFICES ASSUME MatchDue', NEW t \in Sockets, CaughtUp(t)', "matched" \notin heard'[t]
                       PROVE  sock'[t].inst # Consumer
                              /\ (AskedFor' \/ \E m \in relays' :
                                      m.to = sock'[t].inst /\ m.user = Driver /\ m.msg = "matched")
            BY Zenon DEF MatchReaches, MatchDue, RelayedTo
        <3>2. MatchDue /\ CaughtUp(t) /\ "matched" \notin heard[t]
            BY <1>2, <1>8, <2>1, <3>1 DEF CaughtUp
        <3>3. sock[t].inst # Consumer /\ (AskedFor \/ RelayedTo(sock[t].inst))
            BY <3>2, Zenon DEF SocketsInv, MatchReaches, MatchDue
        <3>4. CASE RelayedTo(sock[t].inst)
            BY <2>1, <2>8, <3>3, <3>4 DEF RelayedTo
        <3>5. CASE AskedFor'
            BY <2>1, <3>3, <3>5
        <3>6. CASE i = Consumer /\ MatchCommand(Head(cmds[i]))
            <4>1. c.op = "smembers" /\ u = Driver
                BY <1>1, <3>6 DEF MatchCommand
            <4>2. c.msg = "matched"
                BY <1>1, <1>3, <4>1 DEF SocketsInv, MatchCommands
            <4>3. PICK j : j = sock[t].inst
                OBVIOUS
            <4>4. j \in redis[Driver]
                BY <3>2, <4>3, DriverIsUser DEF SocketsInv, LiveIsListed, CaughtUp
            <4>5. PICK m : m = [to |-> j, user |-> u, msg |-> c.msg]
                OBVIOUS
            <4>6. m \in relays'
                BY <2>7, <3>3, <3>6, <4>1, <4>3, <4>4, <4>5
            <4>7. m.to = j /\ m.user = Driver /\ m.msg = "matched"
                BY <4>1, <4>2, <4>5
            <4>8. QED
                BY <2>1, <3>3, <4>3, <4>6, <4>7
        <3>7. QED
            BY <2>3, <3>3, <3>4, <3>5, <3>6
    <2>10. SocketsTyped'
        BY <1>2, <1>6, <2>1, <2>3, <2>5, <2>8 DEF SocketsInv, SocketsTyped
    <2>11. AskedOncePushed'
        BY <1>2, <2>3 DEF SocketsInv, AskedOncePushed
    <2>12. QED
        BY <1>7, <2>3, <2>6, <2>9, <2>10, <2>11 DEF SocketsInv
<1>11. QED
    BY <1>9, <1>10

-----------------------------------------------------------------------------
(* A relayed message arrives *)

LEMMA RelayComes ==
    ASSUME SocketsInv, RelayArrives
    PROVE  SocketsInv'
<1>1. PICK m \in relays : relays' = relays \ {m} /\ heard' = Delivered(m.to, m.user, m.msg)
    BY DEF RelayArrives
<1>2. /\ sock' = sock /\ redis' = redis /\ cmds' = cmds
      /\ resync' = resync /\ trip' = trip /\ written' = written /\ push' = push
      /\ excused' = excused
    BY DEF RelayArrives, rideVars
<1>3. m.msg \in Messages
    BY <1>1 DEF SocketsInv, SocketsTyped
<1>4. /\ heard' \in [Sockets -> SUBSET Messages]
      /\ \A s \in Sockets : heard[s] \subseteq heard'[s]
      /\ \A s \in Sockets :
             sock[s].user = m.user /\ sock[s].inst = m.to /\ sock[s].at = "live"
                => m.msg \in heard'[s]
    BY <1>1, <1>3, DeliveredAdds DEF SocketsInv
<1>5. SocketsTyped' /\ RideInOrder'
    BY <1>1, <1>2, <1>4 DEF SocketsInv, SocketsTyped, RideInOrder
<1>6. OwnRegistration' /\ NotUnlisted' /\ LiveIsListed' /\ MatchCommands'
    BY <1>2 DEF SocketsInv, OwnRegistration, NotUnlisted, LiveIsListed, MatchCommands
<1>7. (AskedFor' <=> AskedFor) /\ AskedOncePushed'
    BY <1>2 DEF SocketsInv, AskedFor, AskedOncePushed
<1>8. MatchReaches'
    <2>1. SUFFICES ASSUME MatchDue', NEW t \in Sockets, CaughtUp(t)', "matched" \notin heard'[t]
                   PROVE  sock'[t].inst # Consumer
                          /\ (AskedFor' \/ \E n \in relays' :
                                  n.to = sock'[t].inst /\ n.user = Driver /\ n.msg = "matched")
        BY Zenon DEF MatchReaches, MatchDue, RelayedTo
    <2>2. MatchDue /\ CaughtUp(t) /\ "matched" \notin heard[t]
        BY <1>2, <1>4, <2>1 DEF CaughtUp, MatchDue
    <2>3. sock[t].inst # Consumer /\ (AskedFor \/ RelayedTo(sock[t].inst))
        BY <2>2, Zenon DEF SocketsInv, MatchReaches, MatchDue
    <2>4. CASE RelayedTo(sock[t].inst)
        <3>1. PICK n \in relays : n.to = sock[t].inst /\ n.user = Driver /\ n.msg = "matched"
            BY <2>4 DEF RelayedTo
        <3>2. n # m
            BY <1>4, <2>1, <2>2, <3>1 DEF CaughtUp
        <3>3. QED
            BY <1>1, <1>2, <2>3, <3>1, <3>2
    <2>5. QED
        BY <1>2, <1>7, <2>3, <2>4
<1>9. QED
    BY <1>5, <1>6, <1>7, <1>8 DEF SocketsInv

-----------------------------------------------------------------------------
(* An instance restarts: what it had on the way is gone with its sockets *)

LEMMA InstanceRestarts ==
    ASSUME SocketsInv, NEW i \in Instances, Restarts(i)
    PROVE  SocketsInv'
<1>1. /\ sock' = [s \in Sockets |-> IF sock[s].inst = i THEN [sock[s] EXCEPT !.at = "over"]
                                    ELSE sock[s]]
      /\ redis' = [u \in Users |-> redis[u] \ {i}]
      /\ relays' = {m \in relays : m.to # i}
      /\ push' = (IF i = Consumer /\ \E k \in DOMAIN cmds[i] :
                                        cmds[i][k].op = "smembers" /\ cmds[i][k].user = Driver
                  THEN "due" ELSE push)
      /\ cmds' = [cmds EXCEPT ![i] = <<>>]
      /\ resync' = [s \in Sockets |-> IF sock[s].inst = i THEN "none" ELSE resync[s]]
      /\ heard' = heard /\ trip' = trip /\ written' = written /\ excused' = excused
    BY Zenon DEF Restarts
<1>2. /\ sock \in [Sockets -> Connections] /\ redis \in [Users -> SUBSET Instances]
      /\ cmds \in [Instances -> Seq(Commands)]
      /\ resync \in [Sockets -> {"none", "find", "send", "done", "failed"}]
    BY DEF SocketsInv, SocketsTyped
<1>3. ASSUME NEW s \in Sockets
      PROVE  /\ sock'[s] \in Connections
             /\ sock'[s].user = sock[s].user /\ sock'[s].inst = sock[s].inst
             /\ sock[s].inst = i => sock'[s].at = "over"
             /\ sock[s].inst # i => sock'[s] = sock[s] /\ resync'[s] = resync[s]
    <2>1. CASE sock[s].inst = i
        <3>1. PICK old : old = sock[s]
            OBVIOUS
        <3>2. old \in Connections /\ "over" \in Stages
            BY <1>2, <3>1 DEF Stages
        <3>3. sock'[s] = [old EXCEPT !.at = "over"]
            BY <1>1, <2>1, <3>1
        <3>4. QED
            BY <2>1, <3>1, <3>2, <3>3, MovedConnection
    <2>2. CASE sock[s].inst # i
        BY <1>1, <1>2, <2>2
    <2>3. QED
        BY <2>1, <2>2
<1>4. /\ cmds' \in [Instances -> Seq(Commands)] /\ cmds'[i] = <<>>
      /\ \A j \in Instances : j # i => cmds'[j] = cmds[j]
    BY <1>1, <1>2
<1>5. ASSUME NEW j \in Instances, NEW k \in DOMAIN cmds'[j]
      PROVE  j # i /\ cmds'[j] = cmds[j]
    BY <1>4
<1>6. ASSUME NEW j \in Instances, NEW k \in DOMAIN cmds'[j], cmds'[j][k].op = "sadd"
      PROVE  /\ cmds[j][k].sock \in Sockets
             /\ sock[cmds[j][k].sock].user = cmds[j][k].user
             /\ sock[cmds[j][k].sock].inst = j
             /\ sock'[cmds[j][k].sock] = sock[cmds[j][k].sock]
    <2>1. j # i /\ cmds'[j] = cmds[j]
        BY <1>5
    <2>2. cmds[j][k] \in Commands
        BY <1>2, <2>1
    <2>3. cmds[j][k].sock \in Sockets
        BY <1>6, <2>1, <2>2, CommandParts
    <2>4. sock[cmds[j][k].sock].user = cmds[j][k].user /\ sock[cmds[j][k].sock].inst = j
        BY <1>6, <2>1 DEF SocketsInv, OwnRegistration
    <2>5. QED
        BY <1>3, <2>1, <2>3, <2>4
<1>7. OwnRegistration'
    BY <1>5, <1>6 DEF OwnRegistration
<1>8. NotUnlisted'
    <2>1. SUFFICES ASSUME NEW j \in Instances, NEW k \in DOMAIN cmds'[j], NEW l \in DOMAIN cmds'[j],
                          k < l, cmds'[j][k].op = "sadd", cmds'[j][l].op = "srem",
                          cmds'[j][l].user = cmds'[j][k].user
                   PROVE  sock'[cmds'[j][k].sock].at # "joining"
        BY DEF NotUnlisted
    <2>2. cmds'[j] = cmds[j]
        BY <1>5
    <2>3. sock[cmds[j][k].sock].at # "joining"
        BY <2>1, <2>2 DEF SocketsInv, NotUnlisted
    <2>4. sock'[cmds[j][k].sock] = sock[cmds[j][k].sock]
        BY <1>6, <2>1
    <2>5. QED
        BY <2>2, <2>3, <2>4
<1>9. LiveIsListed'
    <2>1. SUFFICES ASSUME NEW t \in Sockets, sock'[t].at = "live", sock'[t].user \in Users
                   PROVE  /\ sock'[t].inst \in redis'[sock'[t].user]
                          /\ \A k \in DOMAIN cmds'[sock'[t].inst] :
                                 cmds'[sock'[t].inst][k].op = "srem" =>
                                     cmds'[sock'[t].inst][k].user # sock'[t].user
        BY DEF LiveIsListed, Users
    <2>2. PICK j, v : j = sock[t].inst /\ v = sock[t].user
        OBVIOUS
    <2>3. j # i /\ sock'[t].inst = j /\ sock'[t].user = v /\ sock[t].at = "live" /\ v \in Users
        BY <1>3, <2>1, <2>2
    <2>4. j \in Instances
        BY <2>2, <2>3, OneConnection DEF SocketsInv
    <2>5. /\ j \in redis[v]
          /\ \A k \in DOMAIN cmds[j] : cmds[j][k].op = "srem" => cmds[j][k].user # v
        BY <2>2, <2>3 DEF SocketsInv, LiveIsListed
    <2>6. j \in redis'[v] /\ cmds'[j] = cmds[j]
        BY <1>1, <1>4, <2>3, <2>4, <2>5
    <2>7. QED
        BY <2>3, <2>5, <2>6
<1>10. MatchCommands'
    BY <1>5 DEF SocketsInv, MatchCommands
<1>11. Consumer \in Instances
    BY PresenceAssumption
<1>12. AskedFor' => AskedFor
    BY <1>5, <1>11 DEF AskedFor
<1>13. \/ push' = push /\ (AskedFor => AskedFor')
       \/ push' = "due" /\ push # "no"
    <2>1. CASE i = Consumer /\ AskedFor
        <3>1. push' = "due"
            BY <1>1, <2>1 DEF AskedFor, MatchCommand
        <3>2. QED
            BY <2>1, <3>1 DEF SocketsInv, AskedOncePushed
    <2>2. CASE ~(i = Consumer /\ AskedFor)
        <3>1. push' = push
            BY <1>1, <2>2 DEF AskedFor, MatchCommand
        <3>2. AskedFor => i # Consumer /\ cmds'[Consumer] = cmds[Consumer]
            BY <1>4, <1>11, <2>2
        <3>3. AskedFor => AskedFor'
            BY <3>2 DEF AskedFor
        <3>4. QED
            BY <3>1, <3>3
    <2>3. QED
        BY <2>1, <2>2
<1>14. AskedOncePushed'
    BY <1>12, <1>13 DEF SocketsInv, AskedOncePushed
<1>15. RideInOrder' /\ (MatchDue' => MatchDue /\ push' = push)
    BY <1>1, <1>13 DEF SocketsInv, RideInOrder, MatchDue
<1>16. MatchReaches'
    <2>1. SUFFICES ASSUME MatchDue', NEW t \in Sockets, CaughtUp(t)', "matched" \notin heard'[t]
                   PROVE  sock'[t].inst # Consumer
                          /\ (AskedFor' \/ \E n \in relays' :
                                  n.to = sock'[t].inst /\ n.user = Driver /\ n.msg = "matched")
        BY Zenon DEF MatchReaches, MatchDue, RelayedTo
    <2>2. MatchDue /\ push' = push /\ push' = "sent"
        BY <1>15, <2>1 DEF MatchDue
    <2>3. sock[t].inst # i /\ CaughtUp(t) /\ sock'[t].inst = sock[t].inst
        BY <1>3, <2>1 DEF CaughtUp
    <2>4. sock[t].inst # Consumer /\ (AskedFor \/ RelayedTo(sock[t].inst))
        BY <1>1, <2>1, <2>2, <2>3, Zenon DEF SocketsInv, MatchReaches, MatchDue
    <2>5. CASE RelayedTo(sock[t].inst)
        BY <1>1, <2>3, <2>4, <2>5 DEF RelayedTo
    <2>6. CASE AskedFor
        BY <1>13, <2>2, <2>3, <2>4, <2>6
    <2>7. QED
        BY <2>4, <2>5, <2>6
<1>17. SocketsTyped'
    <2>1. sock' \in [Sockets -> Connections]
        BY <1>1, <1>3
    <2>2. redis' \in [Users -> SUBSET Instances]
        BY <1>1, <1>2
    <2>3. resync' \in [Sockets -> {"none", "find", "send", "done", "failed"}]
        BY <1>1, <1>2
    <2>4. push' \in {"no", "due", "sent"}
        BY <1>13 DEF SocketsInv, SocketsTyped
    <2>5. QED
        BY <1>1, <1>4, <2>1, <2>2, <2>3, <2>4 DEF SocketsInv, SocketsTyped
<1>18. QED
    BY <1>7, <1>8, <1>9, <1>10, <1>14, <1>15, <1>16, <1>17 DEF SocketsInv

-----------------------------------------------------------------------------
(* Every step *)

LEMMA SocketsStart == TripInit => SocketsInv
<1> SUFFICES ASSUME TripInit  PROVE SocketsInv
    OBVIOUS
<1>1. PICK t \in Traffics : t = traffic
    BY DEF TripInit, TelemetryInit, PresenceInit
<1>2. /\ DOMAIN t.sockets \subseteq Sockets
      /\ \A s \in DOMAIN t.sockets :
             t.sockets[s] \in [user : Riders \cup {Driver}, inst : Instances, at : {"live"}]
    BY PresenceAssumption
<1>3. /\ sock = [s \in Sockets |-> IF s \in DOMAIN t.sockets THEN t.sockets[s] ELSE Unused]
      /\ redis = [u \in Users |-> {sock[s].inst : s \in {r \in Sockets : sock[r].user = u}}]
      /\ cmds = [i \in Instances |-> <<>>]
      /\ relays = {} /\ heard = [s \in Sockets |-> {}]
      /\ resync = [s \in Sockets |-> IF sock[s] = Unused THEN "none" ELSE "done"]
      /\ trip = "none" /\ written = FALSE /\ push = "no" /\ excused = FALSE
    BY <1>1 DEF TripInit, TelemetryInit, PresenceInit
<1>4. ASSUME NEW s \in Sockets
      PROVE  sock[s] \in Connections /\ (sock[s].user \in Users => sock[s].inst \in Instances)
    <2>1. CASE s \in DOMAIN t.sockets
        <3>1. sock[s] \in [user : Riders \cup {Driver}, inst : Instances, at : {"live"}]
            BY <1>2, <1>3, <2>1
        <3>2. QED
            BY <3>1 DEF Connections, Stages, Users
    <2>2. CASE s \notin DOMAIN t.sockets
        <3>1. sock[s] = Unused
            BY <1>3, <2>2
        <3>2. sock[s] \in Connections /\ sock[s].user = None
            BY <3>1 DEF Unused, Connections
        <3>3. QED
            BY <3>2, PresenceAssumption DEF Users
    <2>3. QED
        BY <2>1, <2>2
<1>5. sock \in [Sockets -> Connections]
    BY <1>3, <1>4
<1>6. redis \in [Users -> SUBSET Instances]
    BY <1>3, <1>4
<1>7. cmds \in [Instances -> Seq(Commands)] /\ \A i \in Instances : cmds[i] = <<>>
    BY <1>3
<1>8. heard \in [Sockets -> SUBSET Messages]
      /\ resync \in [Sockets -> {"none", "find", "send", "done", "failed"}]
    BY <1>3
<1>9. SocketsTyped /\ RideInOrder
    BY <1>3, <1>5, <1>6, <1>7, <1>8 DEF SocketsTyped, RideInOrder
<1>10. OwnRegistration /\ NotUnlisted /\ MatchCommands
    BY <1>7 DEF OwnRegistration, NotUnlisted, MatchCommands
<1>11. LiveIsListed
    <2>1. SUFFICES ASSUME NEW s \in Sockets, sock[s].user \in Users
                   PROVE  sock[s].inst \in redis[sock[s].user] /\ cmds[sock[s].inst] = <<>>
        BY DEF LiveIsListed
    <2>2. QED
        BY <1>3, <1>4, <1>7, <2>1
<1>12. AskedOncePushed /\ MatchReaches
    BY <1>3, <1>7, PresenceAssumption DEF AskedOncePushed, AskedFor, MatchReaches
<1>13. QED
    BY <1>9, <1>10, <1>11, <1>12 DEF SocketsInv

LEMMA SocketStepKeeps ==
    ASSUME SocketsInv, SocketStep
    PROVE  SocketsInv'
<1>1. CASE RelayArrives
    BY <1>1, RelayComes
<1>2. CASE \E i \in Instances : RedisServes(i)
    BY <1>2, CommandServed
<1>3. CASE \E i \in Instances : RedisFails(i)
    BY <1>3, CommandFails
<1>4. CASE \E i \in Instances : Restarts(i)
    BY <1>4, InstanceRestarts
<1>5. CASE \E s \in Sockets : Drops(s)
    BY <1>5, SocketDrops
<1>6. CASE \E s \in Sockets : HearsClose(s)
    <2>1. PICK s \in Sockets : HearsClose(s)
        BY <1>6
    <2>2. Unregisters(s) /\ UNCHANGED <<redis, relays, heard, rideVars>>
        BY <2>1 DEF HearsClose
    <2>3. QED
        BY <2>2, SocketGoes
<1>7. CASE \E s \in Sockets : HearsError(s)
    <2>1. PICK s \in Sockets : HearsError(s)
        BY <1>7
    <2>2. Unregisters(s) /\ UNCHANGED <<redis, relays, heard, rideVars>>
        BY <2>1 DEF HearsError
    <2>3. QED
        BY <2>2, SocketGoes
<1>8. QED
    BY <1>1, <1>2, <1>3, <1>4, <1>5, <1>6, <1>7, Zenon DEF SocketStep

LEMMA PresenceStepKeeps ==
    ASSUME SocketsInv, PresenceStep
    PROVE  SocketsInv'
<1>1. CASE SocketStep
    BY <1>1, SocketStepKeeps
<1>2. CASE \E i \in Instances : Connects(i, Driver)
    BY <1>2, SocketComes
<1>3. CASE \E i \in Instances : TimerFires(i)
    <2>1. UNCHANGED <<socketVars, rideVars>>
        BY <1>3 DEF TimerFires
    <2>2. QED
        BY <2>1, SocketsUntouched
<1>4. CASE \E s \in Sockets : ResyncFinds(s) \/ ResyncFails(s) \/ ResyncSends(s)
    BY <1>4, Resyncs
<1>5. CASE \E s \in Sockets : GoesOnline(s) \/ GoesOffline(s) \/ Bids(s)
    <2>1. UNCHANGED <<socketVars, rideVars>>
        BY <1>5 DEF GoesOnline, GoesOffline, Bids
    <2>2. QED
        BY <2>1, SocketsUntouched
<1>6. CASE Pings \/ GoesUnseen \/ RiderRefused \/ FindsBids \/ ServiceHears
    <2>1. UNCHANGED <<socketVars, rideVars>>
        BY <1>6 DEF Pings, GoesUnseen, RiderRefused, FindsBids, ServiceHears
    <2>2. QED
        BY <2>1, SocketsUntouched
<1>7. CASE WithdrawsBids
    <2>1. PICK i \in Instances, r \in Riders : SendToUser(i, r, "driver_rejected")
        BY <1>7 DEF WithdrawsBids
    <2>2. UNCHANGED rideVars /\ "driver_rejected" \in Messages
        BY <1>7 DEF WithdrawsBids, Messages
    <2>3. QED
        BY <2>1, <2>2, ToldRider
<1>8. CASE RiderChecks \/ RiderAccepts \/ ServiceAssigns \/ GatewayAssigned \/ TripEnds
    BY <1>8, RideSteps
<1>9. CASE PushesMatch
    BY <1>9, MatchPushed
<1>10. QED
    BY <1>1, <1>2, <1>3, <1>4, <1>5, <1>6, <1>7, <1>8, <1>9, Zenon DEF PresenceStep

LEMMA TripStepKeeps ==
    ASSUME SocketsInv, TripStep
    PROVE  SocketsInv'
<1>1. CASE \E s \in Sockets : SendsPing(s)
    <2>1. UNCHANGED <<socketVars, rideVars>>
        BY <1>1 DEF SendsPing
    <2>2. QED
        BY <2>1, SocketsUntouched
<1>2. CASE ReadsPing \/ LooksAtAge \/ WarnsFromPing \/ MonitorTicks \/ MonitorWarns
    <2>1. UNCHANGED presenceVars
        BY <1>2 DEF ReadsPing, LooksAtAge, WarnsFromPing, MonitorTicks, MonitorWarns
    <2>2. QED
        BY <2>1, SocketsUntouched DEF presenceVars
<1>3. CASE \E r \in Riders : PushesWarning(r)
    <2>1. PICK r \in Riders : PushesWarning(r)
        BY <1>3
    <2>2. SendToUser(Consumer, r, "stale_warning") /\ UNCHANGED rideVars
        BY <2>1 DEF PushesWarning
    <2>3. Consumer \in Instances /\ "stale_warning" \in Messages
        BY PresenceAssumption DEF Messages
    <2>4. QED
        BY <2>2, <2>3, ToldRider
<1>4. CASE PingFails \/ MonitorFails \/ RideEnds \/ ServiceRestarts
    <2>1. UNCHANGED <<socketVars, rideVars>>
        BY <1>4 DEF PingFails, MonitorFails, RideEnds, ServiceRestarts
    <2>2. QED
        BY <2>1, SocketsUntouched
<1>5. CASE WindowPasses \/ WarningAges
    <2>1. UNCHANGED presenceVars
        BY <1>5 DEF WindowPasses, WarningAges
    <2>2. QED
        BY <2>1, SocketsUntouched DEF presenceVars
<1>6. QED
    BY <1>1, <1>2, <1>3, <1>4, <1>5, Zenon DEF TripStep, ServiceStep

(* The route's steps are ride-service's: no socket is touched *)
LEMMA RouteStepApart ==
    ASSUME RouteStep
    PROVE  UNCHANGED <<socketVars, rideVars>>
<1>1. \A e : Publishes(e) => UNCHANGED <<socketVars, rideVars>>
    BY DEF Publishes
<1>2. UpdatesRoute \/ ConfirmsStop \/ EndsRide \/ Cancels => UNCHANGED <<socketVars, rideVars>>
    BY <1>1 DEF UpdatesRoute, ConfirmsStop, EndsRide, Cancels
<1>3. HandlesUpdate \/ HandlesConfirm \/ HandlesEnd => UNCHANGED <<socketVars, rideVars>>
    BY DEF HandlesUpdate, HandlesConfirm, HandlesEnd, presenceVars
<1>4. SkipsUpdate \/ PublishFails => UNCHANGED <<socketVars, rideVars>>
    BY DEF SkipsUpdate, PublishFails
<1>5. PublishesSnapshot \/ PublishesCompleted => UNCHANGED <<socketVars, rideVars>>
    BY DEF PublishesSnapshot, PublishesCompleted, presenceVars
<1>6. HandlesCompleted \/ HandlesCancelled => UNCHANGED <<socketVars, rideVars>>
    BY DEF HandlesCompleted, HandlesCancelled, presenceVars
<1>7. ReadsPingOnRoute \/ GatewayShows \/ LooksAtAge => UNCHANGED <<socketVars, rideVars>>
    BY DEF ReadsPingOnRoute, ReadsPing, GatewayShows, LooksAtAge, presenceVars
<1>8. RestartsOnRoute => UNCHANGED <<socketVars, rideVars>>
    BY DEF RestartsOnRoute, ServiceRestarts
<1>9. \A s \in Sockets : SendsPing(s) => UNCHANGED <<socketVars, rideVars>>
    BY DEF SendsPing
<1>10. QED
    BY <1>2, <1>3, <1>4, <1>5, <1>6, <1>7, <1>8, <1>9, Zenon DEF RouteStep

(* Every state satisfies SocketsInv: a live socket is listed by Redis at its  *)
(* instance and nothing on the way unlists it, and a match that was pushed is *)
(* heard by every driver's socket that has caught up, or on its way there.    *)
THEOREM SocketsInvariant == TripSpec => []SocketsInv
<1>1. TripInit => SocketsInv
    BY SocketsStart
<1>2. SocketsInv /\ [TripNext]_allVars => SocketsInv'
    <2>1. SUFFICES ASSUME SocketsInv, [TripNext]_allVars  PROVE SocketsInv'
        OBVIOUS
    <2>2. CASE RouteStep
        BY <2>1, <2>2, RouteStepApart, SocketsUntouched
    <2>3. CASE TelemetryNext
        BY <2>1, <2>3, TripStepKeeps, SocketStepKeeps, PresenceStepKeeps DEF TelemetryNext
    <2>4. CASE UNCHANGED allVars
        <3>1. UNCHANGED <<socketVars, rideVars>>
            BY <2>4 DEF allVars, telemetryVars, presenceVars
        <3>2. QED
            BY <2>1, <3>1, SocketsUntouched
    <2>5. QED
        BY <2>1, <2>2, <2>3, <2>4 DEF TripNext
<1>3. QED
    BY <1>1, <1>2, PTL DEF TripSpec

(* A connected driver whose socket has caught up has been shown the ride it   *)
(* won, on whichever instance and however sockets came, went and overlapped,  *)
(* except when the push came before the row or Redis failed it.               *)
THEOREM MatchIsSeen == TripSpec => []MatchedIsSeen
<1>1. SocketsInv => MatchedIsSeen
    <2>1. SUFFICES ASSUME SocketsInv, NEW s \in Sockets,
                          CaughtUp(s), trip = "chosen", written, ~excused,
                          ~OnItsWay(sock[s].inst)
                   PROVE  "matched" \in heard[s]
        BY Zenon DEF MatchedIsSeen, CaughtUp
    <2>2. MatchDue
        BY <2>1 DEF OnItsWay, MatchDue
    <2>3. ~AskedFor /\ ~RelayedTo(sock[s].inst)
        BY <2>1 DEF OnItsWay, AskedFor, MatchCommand, RelayedTo
    <2>4. QED
        BY <2>1, <2>2, <2>3, Zenon DEF SocketsInv, MatchReaches, MatchDue
<1>2. QED
    BY <1>1, SocketsInvariant, PTL
-----------------------------------------------------------------------------
(***************************************************************************)
(* The sale.  What every row and every transaction knows beyond its type:  *)
(* a row that was made keeps its seats and is never unmade, an offer is of *)
(* the price that was bid; a charter is one booking's, and is given back   *)
(* when it is called off; only a trip that arrived is completed.           *)
(***************************************************************************)
RowMade(b) ==
    /\ booking[b].status # "NONE" => booking[b].seats \in Seats
    /\ booking[b].status = "PENDING_OFFER" => booking[b].amount = booking[b].seats * Bid
    /\ b \in raced => booking[b].status # "NONE"

ReadRow(w) ==
    /\ tx[w].op \in {"accept", "cancel"} => tx[w].row.seats \in Seats
    /\ tx[w].op = "accept" => tx[w].row.amount = tx[w].row.seats * Bid
    /\ tx[w].op \in {"offer", "accept", "cancel"} /\ tx[w].row # NoRow =>
           booking[tx[w].req].status # "NONE"

RowsMade == (\A b \in Bookings : RowMade(b)) /\ \A w \in Workers : ReadRow(w)

CharterAlone ==
    mode = "CHARTER" =>
        \E c \in Bookings :
            /\ \A b \in Bookings \ {c} : booking[b].status = "NONE"
            /\ \A w \in Workers : tx[w] # Idle => tx[w].req = c

OffIsGivenBack ==
    status = "CANCELLED" =>
        /\ mode = "CHARTER"
        /\ \A b \in Bookings \ raced : booking[b].status # "CONFIRMED"

ArrivingIsOver == arriving => status \in {"COMPLETED", "CANCELLED"}

SaleInv == FareInv /\ RowsMade /\ CharterAlone /\ OffIsGivenBack /\ ArrivingIsOver

(* What a step may do to a row and to a transaction. *)
RowKept(b) ==
    \/ booking'[b] = booking[b] /\ (b \in raced' => b \in raced)
    \/ RowMade(b)' /\ booking'[b].status # "NONE"

ReadKept(w) == tx'[w] = tx[w] \/ tx'[w] = Idle \/ ReadRow(w)'

KeepsRows == (\A b \in Bookings : RowKept(b)) /\ \A w \in Workers : ReadKept(w)

LEMMA RowsKept ==
    ASSUME TypeOK, RowsMade, KeepsRows
    PROVE  RowsMade'
<1>1. ASSUME NEW b \in Bookings
      PROVE  /\ RowMade(b)'
             /\ booking[b].status # "NONE" => booking'[b].status # "NONE"
    BY DEF RowsMade, KeepsRows, RowKept, RowMade
<1>2. ASSUME NEW w \in Workers
      PROVE  ReadRow(w)'
    <2>1. CASE tx'[w] = Idle
        BY <2>1 DEF ReadRow, Idle
    <2>2. CASE tx'[w] = tx[w]
        <3>1. tx[w].op \in {"offer", "accept", "cancel"} => tx[w].req \in Bookings
            BY TxFields
        <3>2. QED
            BY <1>1, <2>2, <3>1 DEF RowsMade, ReadRow
    <2>3. QED
        BY <2>1, <2>2 DEF KeepsRows, ReadKept
<1>3. QED
    BY <1>1, <1>2 DEF RowsMade

LEMMA BeginOrEndReads ==
    ASSUME TypeOK, NEW w \in Workers
    PROVE  /\ End(w) => \A v \in Workers : tx'[v] = tx[v] \/ tx'[v] = Idle
           /\ \A t : Begin(w, t) =>
                  tx'[w] = t /\ \A v \in Workers \ {w} : tx'[v] = tx[v]
BY DEF TypeOK, Begin, End

LEMMA RowsStep ==
    ASSUME TypeOK, ReadAsChecked, RowsMade, [Next]_vars
    PROVE  RowsMade'
<1> USE DEF RowsMade
<1>0. TypeOK'
    BY NextTypeOK
<1>1. ASSUME NEW b \in Bookings, NEW seats \in Seats, NEW alone \in BOOLEAN,
             NEW bids \in BOOLEAN, TravelRequest(b, alone, seats, bids)
      PROVE  KeepsRows
    <2>1. UNCHANGED <<tx, raced>> /\ \A x \in Bookings : x # b => booking'[x] = booking[x]
        BY <1>1 DEF TravelRequest, TypeOK
    <2>2. /\ booking'[b].seats = seats
          /\ \/ booking'[b].status = "PENDING_OFFER" /\ booking'[b].amount = seats * Bid
             \/ booking'[b].status = "CONFIRMED"
        BY <1>1 DEF TravelRequest, TypeOK, Row
    <2>3. QED
        BY <2>1, <2>2 DEF KeepsRows, RowKept, ReadKept, RowMade
<1>2. ASSUME NEW b \in Bookings, Charter(b)
      PROVE  KeepsRows
    <2>1. UNCHANGED <<tx, raced>> /\ \A x \in Bookings : x # b => booking'[x] = booking[x]
        BY <1>2 DEF Charter, TypeOK
    <2>2. booking'[b].seats = TotalSeats /\ booking'[b].status = "CONFIRMED"
        BY <1>2 DEF Charter, TypeOK, Row
    <2>3. TotalSeats \in Seats
        BY InterstateAssumption DEF Seats
    <2>4. QED
        BY <2>1, <2>2, <2>3 DEF KeepsRows, RowKept, ReadKept, RowMade
<1>3. ASSUME NEW b \in Bookings, DeclineOffer(b)
      PROVE  KeepsRows
    <2>1. UNCHANGED <<tx, raced>> /\ \A x \in Bookings : x # b => booking'[x] = booking[x]
        BY <1>3 DEF DeclineOffer, TypeOK
    <2>2. /\ booking'[b].seats = booking[b].seats /\ booking'[b].status = "OFFER_DECLINED"
          /\ booking[b].seats \in Seats
        BY <1>3 DEF DeclineOffer, TypeOK, Rows, RowMade
    <2>3. QED
        BY <2>1, <2>2 DEF KeepsRows, RowKept, ReadKept, RowMade
<1>4. ASSUME NEW w \in Workers, CommitBookSeats(w)
      PROVE  KeepsRows
    <2> DEFINE b == tx[w].req
               seats == tx[w].seats
    <2>1. b \in Bookings /\ seats \in Seats /\ End(w) /\ raced' = raced
        BY <1>4, TxFields DEF CommitBookSeats
    <2>2. /\ \A x \in Bookings : x # b => booking'[x] = booking[x]
          /\ \/ booking'[b] = booking[b]
             \/ booking'[b].seats = seats /\ booking'[b].status = "CONFIRMED"
        BY <1>4, <2>1 DEF CommitBookSeats, TypeOK, Row
    <2>3. QED
        BY <2>1, <2>2, BeginOrEndReads DEF KeepsRows, RowKept, ReadKept, RowMade
<1>5. ASSUME NEW w \in Workers, CommitOffer(w)
      PROVE  KeepsRows
    <2> DEFINE b == tx[w].req
               seats == tx[w].seats
    <2>1. b \in Bookings /\ seats \in Seats /\ End(w)
        BY <1>5, TxFields DEF CommitOffer
    <2>2. /\ \A x \in Bookings : x # b => booking'[x] = booking[x]
          /\ booking'[b].seats = seats /\ booking'[b].amount = seats * Bid
          /\ \A x \in Bookings : x # b /\ x \in raced' => x \in raced
        BY <1>5, <2>1 DEF CommitOffer, TypeOK, Row, Races
    <2>3. booking'[b].status # "NONE"
        <3>1. tx[w].row # NoRow => booking[b].status # "NONE"
            BY <1>5 DEF CommitOffer, ReadRow
        <3>2. QED
            BY <1>5, <2>1, <3>1 DEF CommitOffer, TypeOK, Row
    <2>4. QED
        BY <2>1, <2>2, <2>3, BeginOrEndReads DEF KeepsRows, RowKept, ReadKept, RowMade
<1>6. ASSUME NEW w \in Workers, CommitAcceptOffer(w)
      PROVE  KeepsRows
    <2> DEFINE b == tx[w].req
    <2>1. b \in Bookings /\ End(w)
        BY <1>6, TxFields DEF CommitAcceptOffer
    <2>2. CASE UNCHANGED <<booking, raced>>
        BY <2>1, <2>2, BeginOrEndReads DEF KeepsRows, RowKept, ReadKept
    <2>3. CASE booking' = [booking EXCEPT ![b].status = "CONFIRMED"] /\ Races(b, tx[w].row)
        <3>1. /\ \A x \in Bookings : x # b => booking'[x] = booking[x]
              /\ booking'[b].seats = booking[b].seats /\ booking'[b].status = "CONFIRMED"
              /\ \A x \in Bookings : x # b /\ x \in raced' => x \in raced
            BY <2>1, <2>3 DEF TypeOK, Rows, Races
        <3>2. booking[b].seats \in Seats
            <4>1. tx[w].row.seats \in Seats
                BY <1>6 DEF CommitAcceptOffer, ReadRow
            <4>2. tx[w].row # NoRow
                BY <1>6, NoRowStatus DEF CommitAcceptOffer, ReadAsChecked
            <4>3. booking[b].status # "NONE"
                BY <1>6, <4>2 DEF CommitAcceptOffer, ReadRow
            <4>4. QED
                BY <2>1, <4>3 DEF RowMade
        <3>3. QED
            BY <2>1, <3>1, <3>2, BeginOrEndReads DEF KeepsRows, RowKept, ReadKept, RowMade
    <2>4. QED
        BY <1>6, <2>2, <2>3 DEF CommitAcceptOffer
<1>7. ASSUME NEW w \in Workers, CommitCancelBooking(w)
      PROVE  KeepsRows
    <2> DEFINE b == tx[w].req
    <2>1. b \in Bookings /\ End(w)
        BY <1>7, TxFields DEF CommitCancelBooking
    <2>2. CASE UNCHANGED <<booking, raced>>
        BY <2>1, <2>2, BeginOrEndReads DEF KeepsRows, RowKept, ReadKept
    <2>3. CASE /\ \E s \in {"REFUNDED", "CANCELLED"} : booking' = [booking EXCEPT ![b].status = s]
               /\ Races(b, tx[w].row)
        <3>1. /\ \A x \in Bookings : x # b => booking'[x] = booking[x]
              /\ booking'[b].seats = booking[b].seats
              /\ booking'[b].status \in {"REFUNDED", "CANCELLED"}
              /\ \A x \in Bookings : x # b /\ x \in raced' => x \in raced
            BY <2>1, <2>3 DEF TypeOK, Rows, Races
        <3>2. booking[b].seats \in Seats
            <4>1. tx[w].row # NoRow
                BY <1>7, NoRowStatus DEF CommitCancelBooking, ReadAsChecked
            <4>2. booking[b].status # "NONE"
                BY <1>7, <4>1 DEF CommitCancelBooking, ReadRow
            <4>3. QED
                BY <2>1, <4>2 DEF RowMade
        <3>3. QED
            BY <2>1, <3>1, <3>2, BeginOrEndReads DEF KeepsRows, RowKept, ReadKept, RowMade
    <2>4. QED
        BY <1>7, <2>2, <2>3 DEF CommitCancelBooking
<1>8. ASSUME NEW w \in Workers, NEW b \in Bookings, NEW t, Begin(w, t),
             UNCHANGED <<booking, raced>>,
             /\ t.op \in {"accept", "cancel"} =>
                    booking[b].status # "NONE" /\ t.row = booking[b]
             /\ t.op = "accept" => booking[b].status = "PENDING_OFFER"
             /\ t.op \in {"offer", "accept", "cancel"} /\ t.row # NoRow =>
                    t.req = b /\ booking[b].status # "NONE"
      PROVE  KeepsRows
    <2>1. tx'[w] = t /\ \A v \in Workers \ {w} : tx'[v] = tx[v]
        BY <1>8, BeginOrEndReads
    <2>2. RowMade(b)
        BY <1>8
    <2>3. ReadRow(w)'
        BY <1>8, <2>1, <2>2 DEF ReadRow, RowMade
    <2>4. QED
        BY <1>8, <2>1, <2>3 DEF KeepsRows, RowKept, ReadKept
<1>9. ASSUME NEW w \in Workers, NEW b \in Bookings, NEW seats \in Seats,
             BeginBookSeats(w, b, seats)
      PROVE  KeepsRows
    BY <1>8, <1>9 DEF BeginBookSeats, Reading
<1>10. ASSUME NEW w \in Workers, NEW b \in Bookings, NEW seats \in Seats,
              BeginOffer(w, b, seats)
       PROVE  KeepsRows
    BY <1>8, <1>10 DEF BeginOffer, Reading, Fresh
<1>11. ASSUME NEW w \in Workers, NEW b \in Bookings, NEW d \in Drivers,
              BeginAcceptOffer(w, b, d)
       PROVE  KeepsRows
    BY <1>8, <1>11 DEF BeginAcceptOffer, Reading
<1>12. ASSUME NEW w \in Workers, NEW b \in Bookings, BeginCancelBooking(w, b)
       PROVE  KeepsRows
    BY <1>8, <1>12 DEF BeginCancelBooking, Reading
<1>13. ASSUME NEW w \in Workers, Abort(w)
       PROVE  KeepsRows
    BY <1>13, BeginOrEndReads DEF Abort, Reading, KeepsRows, RowKept, ReadKept
<1>14. ASSUME CompleteBookings
       PROVE  KeepsRows
    <2>1. UNCHANGED <<tx, raced>>
        BY <1>14 DEF CompleteBookings
    <2>2. ASSUME NEW b \in Bookings
          PROVE  RowKept(b)
        <3>1. CASE booking[b].status = "CONFIRMED"
            <4>1. booking'[b].status = "COMPLETED" /\ booking'[b].seats = booking[b].seats
                BY <1>14, <3>1 DEF CompleteBookings, TypeOK, Rows
            <4>2. booking[b].seats \in Seats
                BY <3>1 DEF RowMade
            <4>3. QED
                BY <4>1, <4>2 DEF RowKept, RowMade
        <3>2. CASE booking[b].status # "CONFIRMED"
            BY <1>14, <2>1, <3>2 DEF CompleteBookings, RowKept
        <3>3. QED
            BY <3>1, <3>2
    <2>3. QED
        BY <2>1, <2>2 DEF KeepsRows, ReadKept
<1>15. ASSUME UNCHANGED <<booking, tx, raced>>
       PROVE  KeepsRows
    BY <1>15 DEF KeepsRows, RowKept, ReadKept
<1>16. ASSUME \/ \E d \in Drivers : DepartureRoutes(d)
              \/ GatewayDies \/ Tick \/ UNCHANGED vars
       PROVE  UNCHANGED <<booking, tx, raced>>
    BY <1>16 DEF DepartureRoutes, ClaimDeparture, StartDeparture, CompleteDeparture,
                 GatewayDies, Tick, vars
<1>17. QED
    BY <1>1, <1>2, <1>3, <1>4, <1>5, <1>6, <1>7, <1>9, <1>10, <1>11, <1>12, <1>13, <1>14,
       <1>15, <1>16, RowsKept
    DEF Next, SeatRoutes, CharterRoutes, OfferRoutes

(* Who works on a charter works on its one booking. *)
LEMMA CharterStep ==
    ASSUME TypeOK, Undisturbed, CharterAlone, [Next]_vars
    PROVE  CharterAlone'
<1> SUFFICES ASSUME mode' = "CHARTER"
             PROVE  CharterAlone'
    BY DEF CharterAlone
<1>1. ASSUME NEW b \in Bookings, mode = "NONE", UNCHANGED tx,
             \A x \in Bookings : x # b => booking'[x] = booking[x]
      PROVE  CharterAlone'
    BY <1>1, NoRowStatus DEF CharterAlone, Undisturbed
<1>2. ASSUME NEW b \in Bookings, Charter(b)
      PROVE  CharterAlone'
    BY <1>1, <1>2 DEF Charter, TypeOK
<1>3. ASSUME NEW b \in Bookings, NEW seats \in Seats, NEW alone \in BOOLEAN,
             NEW bids \in BOOLEAN, TravelRequest(b, alone, seats, bids)
      PROVE  CharterAlone'
    BY <1>1, <1>3 DEF TravelRequest, TypeOK
<1>4. ASSUME mode = "CHARTER",
             \A c \in Bookings :
                 /\ \A b \in Bookings \ {c} : booking[b].status = "NONE"
                 /\ \A w \in Workers : tx[w] # Idle => tx[w].req = c
                 =>  /\ \A b \in Bookings \ {c} : booking'[b].status = booking[b].status
                     /\ \A w \in Workers : tx'[w] \in {tx[w], Idle} \/ tx'[w].req = c
      PROVE  CharterAlone'
    <2>1. PICK c \in Bookings :
              /\ \A b \in Bookings \ {c} : booking[b].status = "NONE"
              /\ \A w \in Workers : tx[w] # Idle => tx[w].req = c
        BY <1>4 DEF CharterAlone
    <2>2. /\ \A b \in Bookings \ {c} : booking'[b].status = "NONE"
          /\ \A w \in Workers : tx'[w] # Idle => tx'[w].req = c
        BY <1>4, <2>1
    <2>3. QED
        BY <2>2 DEF CharterAlone
<1>5. Idle.op = "idle"
    BY DEF Idle
<1>6. ASSUME NEW w \in Workers, mode = "CHARTER", End(w), tx[w] # Idle,
             \A x \in Bookings : x # tx[w].req => booking'[x] = booking[x]
      PROVE  CharterAlone'
    BY <1>4, <1>6, BeginOrEndReads
<1>7. ASSUME NEW w \in Workers, CommitBookSeats(w)
      PROVE  CharterAlone'
    <2>1. tx[w] # Idle /\ End(w) /\ mode = "CHARTER"
        BY <1>5, <1>7 DEF CommitBookSeats
    <2>2. \A x \in Bookings : x # tx[w].req => booking'[x] = booking[x]
        BY <1>7 DEF CommitBookSeats, TypeOK
    <2>3. QED
        BY <1>6, <2>1, <2>2
<1>8. ASSUME NEW w \in Workers, CommitOffer(w)
      PROVE  CharterAlone'
    <2>1. tx[w] # Idle /\ End(w) /\ mode = "CHARTER"
        BY <1>5, <1>8 DEF CommitOffer, departure
    <2>2. \A x \in Bookings : x # tx[w].req => booking'[x] = booking[x]
        BY <1>8 DEF CommitOffer, TypeOK
    <2>3. QED
        BY <1>6, <2>1, <2>2
<1>9. ASSUME NEW w \in Workers, CommitAcceptOffer(w)
      PROVE  CharterAlone'
    <2>1. tx[w] # Idle /\ End(w) /\ mode = "CHARTER"
        BY <1>5, <1>9 DEF CommitAcceptOffer
    <2>2. \A x \in Bookings : x # tx[w].req => booking'[x] = booking[x]
        BY <1>9 DEF CommitAcceptOffer, TypeOK
    <2>3. QED
        BY <1>6, <2>1, <2>2
<1>10. ASSUME NEW w \in Workers, CommitCancelBooking(w)
       PROVE  CharterAlone'
    <2>1. tx[w] # Idle /\ End(w) /\ mode = "CHARTER"
        BY <1>5, <1>10 DEF CommitCancelBooking
    <2>2. \A x \in Bookings : x # tx[w].req => booking'[x] = booking[x]
        BY <1>10 DEF CommitCancelBooking, TypeOK
    <2>3. QED
        BY <1>6, <2>1, <2>2
<1>11. ASSUME NEW w \in Workers, Abort(w)
       PROVE  CharterAlone'
    BY <1>6, <1>11 DEF Abort, Reading, departure
<1>12. ASSUME NEW w \in Workers, NEW b \in Bookings, NEW t, Begin(w, t), t.req = b,
              booking[b].status # "NONE", mode = "CHARTER", booking' = booking
       PROVE  CharterAlone'
    BY <1>4, <1>12, BeginOrEndReads
<1>13. ASSUME NEW w \in Workers, NEW b \in Bookings, NEW d \in Drivers,
              BeginAcceptOffer(w, b, d)
       PROVE  CharterAlone'
    BY <1>12, <1>13 DEF BeginAcceptOffer, Reading, departure
<1>14. ASSUME NEW w \in Workers, NEW b \in Bookings, BeginCancelBooking(w, b)
       PROVE  CharterAlone'
    BY <1>12, <1>14 DEF BeginCancelBooking, Reading, departure
<1>15. ASSUME NEW w \in Workers, NEW b \in Bookings, NEW seats \in Seats
       PROVE  ~BeginBookSeats(w, b, seats) /\ ~BeginOffer(w, b, seats)
    BY <1>15 DEF BeginBookSeats, BeginOffer, ForSale, Reading, departure
<1>16. ASSUME mode = "CHARTER", UNCHANGED tx,
              \A b \in Bookings : booking[b].status = "NONE" => booking'[b] = booking[b]
       PROVE  CharterAlone'
    BY <1>4, <1>16
<1>17. ASSUME \/ \E b \in Bookings : DeclineOffer(b)
              \/ \E d \in Drivers : DepartureRoutes(d)
              \/ CompleteBookings \/ GatewayDies \/ Tick \/ UNCHANGED vars
       PROVE  CharterAlone'
    <2>1. mode = "CHARTER" /\ UNCHANGED tx
        BY <1>17 DEF DeclineOffer, DepartureRoutes, ClaimDeparture, StartDeparture,
                     CompleteDeparture, CompleteBookings, GatewayDies, Tick, vars, departure
    <2>2. \A b \in Bookings : booking[b].status = "NONE" => booking'[b] = booking[b]
        BY <1>17 DEF DeclineOffer, DepartureRoutes, ClaimDeparture, StartDeparture,
                     CompleteDeparture, CompleteBookings, GatewayDies, Tick, vars, TypeOK
    <2>3. QED
        BY <1>16, <2>1, <2>2
<1>18. QED
    BY <1>2, <1>3, <1>7, <1>8, <1>9, <1>10, <1>11, <1>13, <1>14, <1>15, <1>17
    DEF Next, SeatRoutes, CharterRoutes, OfferRoutes

(* A trip that is over or off is not opened again. *)
TripEnded == status \in {"COMPLETED", "CANCELLED"}

LEMMA EndedStays ==
    ASSUME TypeOK, Undisturbed, TripEnded, [Next]_vars
    PROVE  /\ TripEnded' /\ mode' = mode
           /\ status' = status \/ status' = "CANCELLED"
           /\ \A b \in Bookings :
                  /\ booking'[b].status = "CONFIRMED" => booking[b].status = "CONFIRMED"
                  /\ b \in raced => b \in raced'
<1> DEFINE Kept ==
        /\ \A b \in Bookings :
               /\ booking'[b].status = "CONFIRMED" => booking[b].status = "CONFIRMED"
               /\ b \in raced => b \in raced'
        /\ mode' = mode
        /\ status' = status \/ status' = "CANCELLED"
<1>1. mode # "NONE" /\ \A seats : ~RoomFor(seats)
    BY DEF Undisturbed, TripEnded, RoomFor, Sellable
<1>2. ASSUME NEW b \in Bookings
      PROVE  /\ ~Charter(b)
             /\ \A seats \in Seats, alone, bids \in BOOLEAN :
                    ~TravelRequest(b, alone, seats, bids)
    BY <1>1 DEF Charter, TravelRequest
<1>3. ASSUME NEW w \in Workers, CommitBookSeats(w) \/ CommitAcceptOffer(w)
      PROVE  Kept
    BY <1>1, <1>3 DEF CommitBookSeats, CommitAcceptOffer
<1>4. ASSUME NEW w \in Workers, CommitOffer(w)
      PROVE  Kept
    BY <1>4 DEF CommitOffer, departure, Row, Races, TypeOK
<1>5. ASSUME NEW w \in Workers, CommitCancelBooking(w)
      PROVE  Kept
    <2>1. status' = status \/ status' = "CANCELLED"
        BY <1>5 DEF CommitCancelBooking, SeatsReturn, TripEnded
    <2>2. \A b \in Bookings :
               /\ booking'[b].status = "CONFIRMED" => booking[b].status = "CONFIRMED"
               /\ b \in raced => b \in raced'
        BY <1>5 DEF CommitCancelBooking, Races, TypeOK, Rows
    <2>3. QED
        BY <1>5, <2>1, <2>2 DEF CommitCancelBooking
<1>6. ASSUME UNCHANGED <<departure, booking, raced>>
      PROVE  Kept
    BY <1>6 DEF departure
<1>7. ASSUME NEW b \in Bookings, NEW w \in Workers,
             \/ \E seats \in Seats : BeginBookSeats(w, b, seats) \/ BeginOffer(w, b, seats)
             \/ \E d \in Drivers : BeginAcceptOffer(w, b, d)
             \/ BeginCancelBooking(w, b)
             \/ Abort(w)
      PROVE  Kept
    BY <1>6, <1>7 DEF BeginBookSeats, BeginOffer, BeginAcceptOffer, BeginCancelBooking,
                      Abort, Reading
<1>8. ASSUME NEW d \in Drivers, DepartureRoutes(d)
      PROVE  Kept
    BY <1>8 DEF DepartureRoutes, ClaimDeparture, StartDeparture, CompleteDeparture, TripEnded
<1>9. ASSUME NEW b \in Bookings, DeclineOffer(b)
      PROVE  Kept
    BY <1>9 DEF DeclineOffer, departure, TypeOK, Rows
<1>10. ASSUME \/ CompleteBookings \/ GatewayDies \/ Tick \/ UNCHANGED vars
       PROVE  Kept
    BY <1>10 DEF CompleteBookings, GatewayDies, Tick, vars, departure, TypeOK, Rows
<1>11. Kept
    <2>1. ASSUME NEW w \in Workers, Abort(w)
          PROVE  Kept
        BY <1>6, <2>1 DEF Abort, Reading
    <2>2. QED
        BY <1>2, <1>3, <1>4, <1>5, <1>7, <1>8, <1>9, <1>10, <2>1
        DEF Next, SeatRoutes, CharterRoutes, OfferRoutes
<1>12. QED
    BY <1>11 DEF TripEnded

(* A trip is called off with the charter that is given back, and arrives   *)
(* when its driver says so.                                                *)
LEMMA EndStep ==
    ASSUME TypeOK, Undisturbed, CharterAlone, OffIsGivenBack, ArrivingIsOver, [Next]_vars
    PROVE  OffIsGivenBack' /\ ArrivingIsOver'
<1>1. CASE TripEnded /\ status = "CANCELLED"
    BY <1>1, EndedStays DEF OffIsGivenBack, ArrivingIsOver, TripEnded
<1>2. ASSUME NEW w \in Workers, CommitCancelBooking(w), status # "CANCELLED",
             status' = "CANCELLED"
      PROVE  OffIsGivenBack'
    <2>1. mode = "CHARTER" /\ mode' = mode /\ tx[w] # Idle
        BY <1>2 DEF CommitCancelBooking, SeatsReturn, Idle
    <2>2. PICK c \in Bookings :
              /\ \A b \in Bookings \ {c} : booking[b].status = "NONE"
              /\ \A v \in Workers : tx[v] # Idle => tx[v].req = c
        BY <2>1 DEF CharterAlone
    <2>3. tx[w].req = c
        BY <2>1, <2>2
    <2>4. \A b \in Bookings : booking'[b].status # "CONFIRMED"
        BY <1>2, <2>2, <2>3 DEF CommitCancelBooking, TypeOK, Rows
    <2>5. QED
        BY <2>1, <2>4 DEF OffIsGivenBack
<1>3. ASSUME status # "CANCELLED", status' = "CANCELLED"
      PROVE  \E w \in Workers : CommitCancelBooking(w)
    BY <1>3 DEF Next, SeatRoutes, CharterRoutes, OfferRoutes, DepartureRoutes,
        TravelRequest, Charter, DeclineOffer, BeginBookSeats, BeginOffer, Filled,
        BeginAcceptOffer, BeginCancelBooking, CommitBookSeats, CommitOffer,
        CommitAcceptOffer, Abort, ClaimDeparture, StartDeparture,
        CompleteDeparture, CompleteBookings, GatewayDies, Tick, Reading, departure, vars
<1>4. CASE status # "CANCELLED"
    <2>1. OffIsGivenBack'
        BY <1>2, <1>3, <1>4 DEF OffIsGivenBack
    <2>2. ASSUME arriving'
          PROVE  arriving \/ status' = "COMPLETED"
        BY <2>2 DEF Next, SeatRoutes, CharterRoutes, OfferRoutes, DepartureRoutes,
            TravelRequest, Charter, DeclineOffer, BeginBookSeats, BeginOffer,
            BeginAcceptOffer, BeginCancelBooking, CommitBookSeats, CommitOffer,
            CommitAcceptOffer, CommitCancelBooking, Abort, ClaimDeparture, StartDeparture,
            CompleteDeparture, CompleteBookings, GatewayDies, Tick, Reading, departure, vars
    <2>3. ArrivingIsOver'
        BY <2>2, EndedStays DEF ArrivingIsOver, TripEnded
    <2>4. QED
        BY <2>1, <2>3
<1>5. QED
    BY <1>1, <1>4 DEF TripEnded

Placed == [b \in Bookings |-> PlaceOf(b)]

(* A step that writes the row of one booking moves that one. *)
LEMMA PlacedElsewhere ==
    ASSUME NEW b \in Bookings, \A x \in Bookings : x # b => booking'[x] = booking[x]
    PROVE  /\ Placed' = [Placed EXCEPT ![b] = PlaceOf(b)']
           /\ SeatsHeld' = [SeatsHeld EXCEPT ![b] = SeatsHeld'[b]]
           /\ \A x \in Bookings \ {b} : Placed'[x] = Placed[x] /\ SeatsHeld'[x] = SeatsHeld[x]
<1>1. \A x \in Bookings \ {b} : Placed'[x] = Placed[x]
    BY DEF Placed, PlaceOf
<1>2. \A x \in Bookings \ {b} : SeatsHeld'[x] = SeatsHeld[x]
    BY HeldElsewhere
<1>3. Placed' = [Placed EXCEPT ![b] = PlaceOf(b)']
    BY <1>1 DEF Placed
<1>4. SeatsHeld' = [SeatsHeld EXCEPT ![b] = SeatsHeld'[b]]
    BY <1>2 DEF SeatsHeld
<1>5. QED
    BY <1>1, <1>2, <1>3, <1>4

LEMMA SaleMoves ==
    ASSUME NEW b \in Bookings, NEW from, NEW to, NEW n,
           \A x \in Bookings : x # b => booking'[x] = booking[x],
           b \notin raced, raced' = raced,
           PlaceOf(b) = from, PlaceOf(b)' = to, SeatsHeld'[b] = n
    PROVE  Sale!Moves(b, from, to, n)
BY PlacedElsewhere DEF Placed, Sale!Moves

LEMMA SaleContests ==
    ASSUME NEW b \in Bookings,
           \A x \in Bookings : x # b => booking'[x] = booking[x],
           raced' = raced \cup {b},
           \/ Sale!NothingMoves
           \/ \E n \in 1 .. TotalSeats :
                 \/ Sale!Sells(b, n, Bid) /\ Sale!SomeDriver
                 \/ Sale!Returns(b, n, TotalSeats * Price)
    PROVE  Sale!Next
<1>1. Sale!Contest(b)
    BY PlacedElsewhere DEF Placed, Sale!Contest
<1>2. QED
    BY <1>1 DEF Sale!Next

LEMMA NothingForSale ==
    ASSUME UNCHANGED <<departure, money>>
    PROVE  Sale!NothingMoves
BY DEF departure, money, TripOf, Sale!NothingMoves

LEMMA NothingSold ==
    ASSUME UNCHANGED <<departure, money, booking, raced>>
    PROVE  UNCHANGED Sale!vars
BY DEF departure, money, TripOf, PlaceOf, SeatsHeld, Sale!vars

(* Seats go with their fare while the trip is open. *)
LEMMA SeatsAreSold ==
    ASSUME TypeOK, NEW b \in Bookings, NEW n \in Seats, NEW each,
           seatsBooked <= TotalSeats - n, seatsBooked' = seatsBooked + n,
           status \in {"NONE", "SCHEDULED", "FILLING"},
           status' \in {"SCHEDULED", "FILLING", "FULL"},
           Charge(b, n * each), refunded' = refunded
    PROVE  Sale!Sells(b, n, each) /\ n \in 1 .. TotalSeats
<1>1. TripOf = "OPEN" /\ TripOf' = "OPEN"
    BY DEF TripOf
<1>2. n \in Int /\ TotalSeats \in Int /\ seatsBooked \in Int
    BY InterstateAssumption DEF Seats, TypeOK
<1>3. seatsBooked' <= TotalSeats
    BY <1>2
<1>4. QED
    BY <1>1, <1>3 DEF Charge, Seats, Sale!Sells

(* Seats come back, or the charter ends, with what the refund is. *)
LEMMA SeatsReturned ==
    ASSUME NEW b \in Bookings, NEW n, NEW amount \in Nat, NEW most \in Nat, amount <= most,
           TypeOK, SeatsReturn(n),
           amount > 0 => refunded[b] = 0,
           refunded' = [refunded EXCEPT ![b] = IF amount > 0 THEN amount ELSE @],
           UNCHANGED <<driver, charged>>
    PROVE  Sale!Returns(b, n, most)
<1>1. \/ seatsBooked' = seatsBooked - n /\ TripOf' = TripOf
      \/ TripOf' = "OFF" /\ seatsBooked' = seatsBooked
    BY DEF SeatsReturn, TripOf
<1>2. CASE amount > 0
    <2>1. amount \in 1 .. most /\ refunded' = [refunded EXCEPT ![b] = amount]
        BY <1>2
    <2>2. QED
        BY <1>1, <1>2, <2>1 DEF Sale!Returns
<1>3. CASE ~(amount > 0)
    <2>1. refunded' = refunded
        BY <1>3 DEF TypeOK
    <2>2. QED
        BY <1>1, <2>1 DEF Sale!Returns
<1>4. QED
    BY <1>2, <1>3

LEMMA StepKeepsSale ==
    ASSUME SaleInv, [Next]_vars
    PROVE  [Sale!Next]_(Sale!vars)
<1> USE DEF SaleInv, FareInv, IInv
<1>0. TotalSeats \in Nat \ {0} /\ Price \in Nat /\ Bid \in Nat /\ Seats \subseteq Int
    BY InterstateAssumption DEF Seats
<1>1. ASSUME NEW b \in Bookings, NEW seats \in Seats, NEW alone \in BOOLEAN,
             NEW bids \in BOOLEAN, TravelRequest(b, alone, seats, bids)
      PROVE  Sale!Next
    <2>1. /\ status = "NONE" /\ seatsBooked = 0 /\ booking[b] = NoRow
          /\ raced' = raced /\ refunded' = refunded /\ driver' = driver
          /\ \A x \in Bookings : x # b => booking'[x] = booking[x]
        BY <1>1 DEF TravelRequest, Undisturbed, TypeOK
    <2>2. booking[b].status = "NONE" /\ b \notin raced /\ PlaceOf(b) = "FREE"
        BY <2>1, NoRowStatus DEF RowsMade, RowMade, PlaceOf
    <2>3. CASE bids
        <3>1. booking'[b].status = "PENDING_OFFER"
            BY <1>1, <2>3 DEF TravelRequest, TypeOK, Row
        <3>2. PlaceOf(b)' = "BID" /\ SeatsHeld'[b] = 0
            BY <3>1 DEF PlaceOf, SeatsHeld
        <3>3. Sale!Moves(b, "FREE", "BID", 0)
            BY <2>1, <2>2, <3>2, SaleMoves
        <3>4. Sale!NothingMoves
            BY <1>1, <2>1, <2>3 DEF TravelRequest, TripOf, Sale!NothingMoves
        <3>5. QED
            BY <3>3, <3>4 DEF Sale!Offer, Sale!Next
    <2>4. CASE ~bids
        <3>1. booking'[b].status = "CONFIRMED" /\ booking'[b].seats = seats
            BY <1>1, <2>4 DEF TravelRequest, TypeOK, Row
        <3>2. PlaceOf(b)' = "SOLD" /\ SeatsHeld'[b] = seats
            BY <3>1 DEF PlaceOf, SeatsHeld
        <3>3. Sale!Moves(b, "FREE", "SOLD", seats)
            BY <2>1, <2>2, <3>2, SaleMoves
        <3>4. /\ seatsBooked <= TotalSeats - seats /\ seatsBooked' = seatsBooked + seats
              /\ status' \in {"SCHEDULED", "FILLING", "FULL"}
              /\ Charge(b, seats * Price)
            BY <1>0, <1>1, <2>1, <2>4 DEF TravelRequest, Seats
        <3>5. Sale!Sells(b, seats, Price) /\ seats \in 1 .. TotalSeats
            BY <2>1, <3>4, SeatsAreSold
        <3>6. QED
            BY <2>1, <3>3, <3>5 DEF Sale!Buy, Sale!Next
    <2>5. QED
        BY <2>3, <2>4
<1>2. ASSUME NEW b \in Bookings, Charter(b)
      PROVE  Sale!Next
    <2>1. /\ status = "NONE" /\ seatsBooked = 0 /\ booking[b] = NoRow
          /\ raced' = raced /\ refunded' = refunded /\ driver' = driver
          /\ \A x \in Bookings : x # b => booking'[x] = booking[x]
        BY <1>2 DEF Charter, Undisturbed, TypeOK
    <2>2. booking[b].status = "NONE" /\ b \notin raced /\ PlaceOf(b) = "FREE"
        BY <2>1, NoRowStatus DEF RowsMade, RowMade, PlaceOf
    <2>3. booking'[b].status = "CONFIRMED" /\ booking'[b].seats = TotalSeats
        BY <1>2 DEF Charter, TypeOK, Row
    <2>4. PlaceOf(b)' = "SOLD" /\ SeatsHeld'[b] = TotalSeats
        BY <2>3 DEF PlaceOf, SeatsHeld
    <2>5. Sale!Moves(b, "FREE", "SOLD", TotalSeats)
        BY <2>1, <2>2, <2>4, SaleMoves
    <2>6. /\ seatsBooked <= TotalSeats - TotalSeats /\ seatsBooked' = seatsBooked + TotalSeats
          /\ status' = "FULL" /\ Charge(b, TotalSeats * Price) /\ TotalSeats \in Seats
        BY <1>0, <1>2, <2>1 DEF Charter, Seats
    <2>7. Sale!Sells(b, TotalSeats, Price) /\ TotalSeats \in 1 .. TotalSeats
        BY <2>1, <2>6, SeatsAreSold
    <2>8. QED
        BY <2>1, <2>5, <2>7 DEF Sale!Buy, Sale!Next
<1>3. ASSUME NEW b \in Bookings, DeclineOffer(b)
      PROVE  Sale!Next
    <2>1. /\ booking[b].status = "PENDING_OFFER" /\ booking'[b].status = "OFFER_DECLINED"
          /\ \A x \in Bookings : x # b => booking'[x] = booking[x]
          /\ UNCHANGED <<departure, money>> /\ raced' = raced
        BY <1>3 DEF DeclineOffer, TypeOK, Rows
    <2>2. Sale!NothingMoves
        BY <2>1, NothingForSale
    <2>3. CASE b \in raced
        <3>1. raced' = raced \cup {b}
            BY <2>1, <2>3
        <3>2. QED
            BY <2>1, <2>2, <3>1, SaleContests
    <2>4. CASE b \notin raced
        <3>1. PlaceOf(b) = "BID" /\ PlaceOf(b)' = "BACK" /\ SeatsHeld'[b] = 0
            BY <2>1 DEF PlaceOf, SeatsHeld
        <3>2. Sale!Moves(b, "BID", "BACK", 0)
            BY <2>1, <2>4, <3>1, SaleMoves
        <3>3. QED
            BY <2>2, <3>2 DEF Sale!Withdraw, Sale!Next
    <2>5. QED
        BY <2>3, <2>4
<1>4. ASSUME NEW w \in Workers, CommitBookSeats(w)
      PROVE  [Sale!Next]_(Sale!vars)
    <2>0. PICK b \in Bookings : tx[w].req = b
        BY <1>4, TxFields DEF CommitBookSeats
    <2> DEFINE seats == tx[w].seats
    <2>1. tx[w].req = b /\ seats \in Seats
        BY <1>4, <2>0, TxFields DEF CommitBookSeats
    <2>2. /\ booking[b] = NoRow /\ UNCHANGED <<mode, driver, refunded, raced>>
          /\ \A x \in Bookings : x # b => booking'[x] = booking[x]
        BY <1>4, <2>1 DEF CommitBookSeats, BuysAlone, TypeOK
    <2>3. booking[b].status = "NONE" /\ b \notin raced /\ PlaceOf(b) = "FREE"
        BY <2>1, <2>2, NoRowStatus DEF RowsMade, RowMade, PlaceOf
    <2>4. CASE RoomFor(seats)
        <3>1. /\ booking'[b].status = "CONFIRMED" /\ booking'[b].seats = seats
              /\ seatsBooked <= TotalSeats - seats /\ seatsBooked' = seatsBooked + seats
              /\ status \in {"SCHEDULED", "FILLING"} /\ status' \in {"FILLING", "FULL"}
              /\ Charge(b, seats * Price)
            BY <1>4, <2>1, <2>4 DEF CommitBookSeats, TypeOK, Row, RoomFor, Sellable, Filled
        <3>2. PlaceOf(b)' = "SOLD" /\ SeatsHeld'[b] = seats
            BY <2>1, <3>1 DEF PlaceOf, SeatsHeld
        <3>3. Sale!Moves(b, "FREE", "SOLD", seats)
            BY <2>1, <2>2, <2>3, <3>2, SaleMoves
        <3>4. Sale!Sells(b, seats, Price) /\ seats \in 1 .. TotalSeats
            BY <2>1, <2>2, <3>1, SeatsAreSold
        <3>5. QED
            BY <2>1, <2>2, <3>3, <3>4 DEF Sale!Buy, Sale!Next
    <2>5. CASE ~RoomFor(seats)
        BY <1>4, <2>2, <2>5, NothingSold DEF CommitBookSeats, departure, money
    <2>6. QED
        BY <2>4, <2>5
<1>5. ASSUME NEW w \in Workers, CommitOffer(w)
      PROVE  [Sale!Next]_(Sale!vars)
    <2>0. PICK b \in Bookings : tx[w].req = b
        BY <1>5, TxFields DEF CommitOffer
    <2> DEFINE row == tx[w].row
    <2>1. /\ tx[w].req = b /\ Races(b, row) /\ UNCHANGED <<departure, money>>
          /\ \A x \in Bookings : x # b => booking'[x] = booking[x]
        BY <1>5, <2>0 DEF CommitOffer, TypeOK
    <2>2. Sale!NothingMoves
        BY <2>1, NothingForSale
    <2>3. CASE b \in raced'
        <3>1. raced' = raced \cup {b}
            BY <2>1, <2>3 DEF Races
        <3>2. QED
            BY <2>1, <2>2, <3>1, SaleContests
    <2>4. CASE b \notin raced'
        <3>1. booking[b] = row /\ raced' = raced /\ b \notin raced
            BY <2>1, <2>4 DEF Races
        <3>2. row.status \in {"NONE", "PENDING_OFFER"}
            BY <1>5 DEF CommitOffer, ReadAsChecked
        <3>3. booking'[b].status = IF row = NoRow THEN "PENDING_OFFER" ELSE row.status
            BY <1>5, <2>1, <3>1 DEF CommitOffer, TypeOK, Row
        <3>4. CASE row = NoRow
            <4>1. PlaceOf(b) = "FREE" /\ PlaceOf(b)' = "BID" /\ SeatsHeld'[b] = 0
                BY <2>1, <3>1, <3>3, <3>4, NoRowStatus DEF PlaceOf, SeatsHeld
            <4>2. Sale!Moves(b, "FREE", "BID", 0)
                BY <2>1, <3>1, <4>1, SaleMoves
            <4>3. QED
                BY <2>1, <2>2, <4>2 DEF Sale!Offer, Sale!Next
        <3>5. CASE row # NoRow
            <4>1. PlaceOf(b)' = PlaceOf(b) /\ SeatsHeld'[b] = SeatsHeld[b]
                BY <2>1, <3>1, <3>2, <3>3, <3>5 DEF PlaceOf, SeatsHeld
            <4>2. \A x \in Bookings : PlaceOf(x)' = PlaceOf(x)
                BY <2>1, <4>1 DEF PlaceOf
            <4>3. \A x \in Bookings : SeatsHeld'[x] = SeatsHeld[x]
                BY <2>1, <4>1, HeldElsewhere
            <4>4. Placed' = Placed
                BY <4>2 DEF Placed
            <4>5. SeatsHeld' = SeatsHeld
                BY <4>3 DEF SeatsHeld
            <4>6. QED
                BY <2>2, <3>1, <4>4, <4>5 DEF Placed, Sale!NothingMoves, Sale!vars
        <3>6. QED
            BY <3>4, <3>5
    <2>5. QED
        BY <2>3, <2>4
<1>6. ASSUME NEW w \in Workers, CommitAcceptOffer(w)
      PROVE  [Sale!Next]_(Sale!vars)
    <2>0. PICK b \in Bookings : tx[w].req = b
        BY <1>6, TxFields DEF CommitAcceptOffer
    <2> DEFINE row == tx[w].row
    <2>1. /\ tx[w].req = b /\ row.status = "PENDING_OFFER" /\ row.seats \in Seats
          /\ row.amount = row.seats * Bid /\ tx[w].driver \in Drivers
        BY <1>6, <2>0, TxFields DEF CommitAcceptOffer, ReadAsChecked, RowsMade, ReadRow
    <2>2. CASE UNCHANGED <<seatsBooked, status, driver, charged, booking, raced>>
        BY <1>6, <2>2, NothingSold DEF CommitAcceptOffer, departure, money
    <2>3. CASE /\ RoomFor(row.seats)
               /\ Charge(b, row.amount)
               /\ seatsBooked' = seatsBooked + row.seats
               /\ status' = Filled(tx[w].seen, row.seats)
               /\ driver' = IF tx[w].taken THEN driver ELSE TakesTrip(w)
               /\ booking' = [booking EXCEPT ![b].status = "CONFIRMED"]
               /\ Races(b, row)
        <3>1. /\ seatsBooked <= TotalSeats - row.seats /\ Charge(b, row.seats * Bid)
              /\ status \in {"SCHEDULED", "FILLING"} /\ status' \in {"FILLING", "FULL"}
              /\ refunded' = refunded
            BY <1>6, <2>1, <2>3 DEF CommitAcceptOffer, RoomFor, Sellable, Filled
        <3>2. Sale!Sells(b, row.seats, Bid) /\ row.seats \in 1 .. TotalSeats
            BY <2>1, <2>3, <3>1, SeatsAreSold
        <3>3. Sale!SomeDriver
            BY <2>1, <2>3 DEF TakesTrip, Sale!SomeDriver
        <3>4. \A x \in Bookings : x # b => booking'[x] = booking[x]
            BY <2>3 DEF TypeOK
        <3>5. CASE b \in raced'
            <4>1. raced' = raced \cup {b}
                BY <2>3, <3>5 DEF Races
            <4>2. QED
                BY <2>1, <3>2, <3>3, <3>4, <4>1, SaleContests
        <3>6. CASE b \notin raced'
            <4>1. booking[b] = row /\ raced' = raced /\ b \notin raced
                BY <2>3, <3>6 DEF Races
            <4>2. booking'[b].status = "CONFIRMED" /\ booking'[b].seats = row.seats
                BY <2>1, <2>3, <4>1 DEF TypeOK, Rows
            <4>3. PlaceOf(b) = "BID" /\ PlaceOf(b)' = "SOLD" /\ SeatsHeld'[b] = row.seats
                BY <2>1, <4>1, <4>2 DEF PlaceOf, SeatsHeld
            <4>4. Sale!Moves(b, "BID", "SOLD", row.seats)
                BY <2>1, <3>4, <4>1, <4>3, SaleMoves
            <4>5. QED
                BY <2>1, <3>2, <3>3, <4>4 DEF Sale!Accept, Sale!Next
        <3>7. QED
            BY <3>5, <3>6
    <2>4. QED
        BY <1>6, <2>1, <2>2, <2>3 DEF CommitAcceptOffer
<1>7. ASSUME NEW w \in Workers, CommitCancelBooking(w)
      PROVE  [Sale!Next]_(Sale!vars)
    <2>0. PICK b \in Bookings : tx[w].req = b
        BY <1>7, TxFields DEF CommitCancelBooking
    <2> DEFINE row == tx[w].row
               refund == tx[w].refund
    <2>1. /\ tx[w].req = b /\ row.seats \in Seats /\ refund \in Nat
          /\ refund <= TotalSeats * Price /\ TotalSeats * Price \in Nat
          /\ row.status \in {"PENDING_OFFER", "CONFIRMED"} /\ refund <= row.amount
          /\ UNCHANGED <<mode, driver, charged>>
        BY <1>0, <1>7, <2>0, TxFields DEF CommitCancelBooking, RowsMade, ReadRow, ReadAsChecked,
                               RefundsWithinFare, Fares
    <2>2. CASE UNCHANGED <<refunded, booking, seatsBooked, status, raced>>
        BY <2>1, <2>2, NothingSold DEF departure, money
    <2>3. CASE /\ WasPaid(row) /\ Refundable(w)
               /\ refunded' = [refunded EXCEPT ![b] = IF refund > 0 THEN refund ELSE @]
               /\ booking' = [booking EXCEPT ![b].status =
                                 IF refund > 0 THEN "REFUNDED" ELSE "CANCELLED"]
               /\ SeatsReturn(row.seats)
               /\ Races(b, row)
        <3>1. \A x \in Bookings : x # b => booking'[x] = booking[x]
            BY <2>3 DEF TypeOK
        <3>2. ASSUME NEW most \in Nat, refund <= most
              PROVE  Sale!Returns(b, row.seats, most)
            BY <2>1, <2>3, <3>2, SeatsReturned DEF Refundable
        <3>3. CASE b \in raced'
            <4>1. raced' = raced \cup {b}
                BY <2>3, <3>3 DEF Races
            <4>2. row.seats \in 1 .. TotalSeats
                BY <2>1 DEF Seats
            <4>3. Sale!Returns(b, row.seats, TotalSeats * Price)
                BY <2>1, <3>2
            <4>4. QED
                BY <2>1, <3>1, <4>1, <4>2, <4>3, SaleContests
        <3>4. CASE b \notin raced'
            <4>1. booking[b] = row /\ raced' = raced /\ b \notin raced
                BY <2>3, <3>4 DEF Races
            <4>2. booking[b].status = "CONFIRMED"
                BY <2>3, <4>1 DEF WasPaid
            <4>3. charged[b] = row.amount /\ charged[b] \in Nat
                BY <1>0, <2>1, <4>1, <4>2 DEF FareFollowsSeat, TypeOK, Fares
            <4>4. booking'[b].status \in {"REFUNDED", "CANCELLED"}
                BY <2>1, <2>3 DEF TypeOK, Rows
            <4>5. /\ PlaceOf(b) = "SOLD" /\ PlaceOf(b)' = "BACK"
                  /\ SeatsHeld[b] = row.seats /\ SeatsHeld'[b] = 0
                BY <2>1, <4>1, <4>2, <4>4 DEF PlaceOf, SeatsHeld
            <4>6. Sale!Moves(b, "SOLD", "BACK", 0)
                BY <2>1, <3>1, <4>1, <4>5, SaleMoves
            <4>7. Sale!Returns(b, SeatsHeld[b], charged[b])
                BY <2>1, <3>2, <4>3, <4>5
            <4>8. QED
                BY <2>1, <4>6, <4>7 DEF Sale!GiveBack, Sale!Next
        <3>5. QED
            BY <3>3, <3>4
    <2>4. CASE /\ ~WasPaid(row)
               /\ booking' = [booking EXCEPT ![b].status = "CANCELLED"]
               /\ Races(b, row)
               /\ UNCHANGED <<refunded, seatsBooked, status>>
        <3>1. \A x \in Bookings : x # b => booking'[x] = booking[x]
            BY <2>4 DEF TypeOK
        <3>2. Sale!NothingMoves
            BY <2>1, <2>4, NothingForSale DEF departure, money
        <3>3. CASE b \in raced'
            <4>1. raced' = raced \cup {b}
                BY <2>4, <3>3 DEF Races
            <4>2. QED
                BY <2>1, <3>1, <3>2, <4>1, SaleContests
        <3>4. CASE b \notin raced'
            <4>1. booking[b] = row /\ raced' = raced /\ b \notin raced
                BY <2>4, <3>4 DEF Races
            <4>2. booking[b].status = "PENDING_OFFER" /\ booking'[b].status = "CANCELLED"
                BY <2>1, <2>4, <4>1 DEF WasPaid, TypeOK, Rows
            <4>3. PlaceOf(b) = "BID" /\ PlaceOf(b)' = "BACK" /\ SeatsHeld'[b] = 0
                BY <2>1, <4>2 DEF PlaceOf, SeatsHeld
            <4>4. Sale!Moves(b, "BID", "BACK", 0)
                BY <2>1, <3>1, <4>1, <4>3, SaleMoves
            <4>5. QED
                BY <2>1, <3>2, <4>4 DEF Sale!Withdraw, Sale!Next
        <3>5. QED
            BY <3>3, <3>4
    <2>5. QED
        BY <1>7, <2>1, <2>2, <2>3, <2>4 DEF CommitCancelBooking
<1>8. ASSUME NEW d \in Drivers, DepartureRoutes(d)
      PROVE  Sale!Next
    <2>1. UNCHANGED <<seatsBooked, booking, charged, refunded, raced>>
        BY <1>8 DEF DepartureRoutes, ClaimDeparture, StartDeparture, CompleteDeparture, money
    <2>2. UNCHANGED <<Placed, SeatsHeld>>
        BY <2>1 DEF Placed, PlaceOf, SeatsHeld
    <2>3. CASE ClaimDeparture(d)
        <3>1. Sale!Take(d)
            BY <2>1, <2>2, <2>3 DEF ClaimDeparture, TripOf, Placed, Sale!Take
        <3>2. QED
            BY <3>1 DEF Sale!Next
    <2>4. CASE StartDeparture(d) \/ CompleteDeparture(d)
        <3>1. Sale!Drive(d)
            BY <2>1, <2>2, <2>4
            DEF StartDeparture, CompleteDeparture, TripOf, Placed, Sale!Drive
        <3>2. QED
            BY <3>1 DEF Sale!Next
    <2>5. QED
        BY <1>8, <2>3, <2>4 DEF DepartureRoutes
<1>9. ASSUME CompleteBookings
      PROVE  [Sale!Next]_(Sale!vars)
    <2>1. /\ UNCHANGED <<departure, money, raced>>
          /\ booking' = [b \in Bookings |->
                 IF booking[b].status = "CONFIRMED"
                 THEN [booking[b] EXCEPT !.status = "COMPLETED"] ELSE booking[b]]
        BY <1>9 DEF CompleteBookings
    <2>2. CASE status = "COMPLETED"
        <3>1. Placed' = [b \in Bookings |-> IF Placed[b] = "SOLD" THEN "RODE" ELSE Placed[b]]
            BY <2>1 DEF Placed, PlaceOf, TypeOK, Rows
        <3>2. SeatsHeld' = SeatsHeld
            BY <2>1 DEF SeatsHeld, TypeOK, Rows
        <3>3. Sale!AllRode
            BY <2>1, <2>2, <3>1, <3>2 DEF departure, money, TripOf, Placed, Sale!AllRode
        <3>4. QED
            BY <3>3 DEF Sale!Next
    <2>3. CASE status = "CANCELLED"
        <3>1. PICK c \in Bookings : \A b \in Bookings \ {c} : booking[b].status = "NONE"
            BY <2>3 DEF OffIsGivenBack, CharterAlone
        <3>2. \A x \in Bookings : x # c => booking'[x] = booking[x]
            BY <2>1, <3>1
        <3>3. CASE c \in raced
            <4>1. raced' = raced \cup {c}
                BY <2>1, <3>3
            <4>2. QED
                BY <2>1, <3>2, <4>1, NothingForSale, SaleContests
        <3>4. CASE c \notin raced
            <4>1. booking'[c] = booking[c]
                BY <2>1, <2>3, <3>4 DEF OffIsGivenBack
            <4>2. booking' = booking
                BY <2>1, <3>2, <4>1 DEF TypeOK
            <4>3. QED
                BY <2>1, <4>2, NothingSold
        <3>5. QED
            BY <3>3, <3>4
    <2>4. QED
        BY <1>9, <2>2, <2>3 DEF CompleteBookings, ArrivingIsOver
<1>10. ASSUME NEW b \in Bookings, NEW w \in Workers,
              \/ \E seats \in Seats : BeginBookSeats(w, b, seats) \/ BeginOffer(w, b, seats)
              \/ \E d \in Drivers : BeginAcceptOffer(w, b, d)
              \/ BeginCancelBooking(w, b)
       PROVE  UNCHANGED <<departure, money, booking, raced>>
    BY <1>10 DEF BeginBookSeats, BeginOffer, BeginAcceptOffer, BeginCancelBooking, Reading
<1>11. ASSUME \/ \E w \in Workers : Abort(w)
              \/ GatewayDies \/ Tick \/ UNCHANGED vars
       PROVE  UNCHANGED <<departure, money, booking, raced>>
    BY <1>11 DEF Abort, Reading, GatewayDies, Tick, vars
<1>12. QED
    BY <1>1, <1>2, <1>3, <1>4, <1>5, <1>6, <1>7, <1>8, <1>9, <1>10, <1>11, NothingSold
    DEF Next, SeatRoutes, CharterRoutes, OfferRoutes

LEMMA InitSale == Init => SaleInv /\ Sale!Init
<1> SUFFICES ASSUME Init
             PROVE  SaleInv /\ Sale!Init
    OBVIOUS
<1>1. RowsMade
    BY NoRowStatus DEF Init, RowsMade, RowMade, ReadRow, Idle
<1>2. CharterAlone /\ OffIsGivenBack /\ ArrivingIsOver
    BY DEF Init, CharterAlone, OffIsGivenBack, ArrivingIsOver
<1>3. Sale!Init
    BY NoRowStatus DEF Init, TripOf, PlaceOf, SeatsHeld, Sale!Init
<1>4. QED
    BY <1>1, <1>2, <1>3, InitFareInv DEF SaleInv

(* The interstate routes keep the contract of a sale of seats: whoever     *)
(* buys, bids, accepts, gives back and drives at the same time, each seat  *)
(* changes hands with its fare, at the posted or the bid price, within the *)
(* vehicle, and nothing of a trip is sold once a driver has claimed it.    *)
THEOREM InterstateImplementsSale == Spec => KeepsSaleContract
<1>1. Init => SaleInv /\ Sale!Init
    BY InitSale
<1>2. SaleInv /\ [Next]_vars => SaleInv'
    BY NextFareInv, RowsStep, CharterStep, EndStep DEF SaleInv, FareInv, IInv
<1>3. QED
    BY <1>1, <1>2, StepKeepsSale, PTL DEF Spec, Sale!Spec, KeepsSaleContract
=============================================================================

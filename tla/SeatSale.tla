------------------------------ MODULE SeatSale ------------------------------
(***************************************************************************)
(* What a departure promises its riders and its driver.  Seats change      *)
(* hands together with their fare, in one step: what is sold fits the      *)
(* vehicle, each seat costs what was posted or what was bid, and is paid   *)
(* for once.  What is given back frees the rider's seats, or calls the     *)
(* trip off, and returns no more than was paid, once.  A driver takes a    *)
(* trip that has none, and from then on nothing more of it is sold.        *)
(* A booking that two callers wrote each on their own is contested: what   *)
(* it holds may be wrong, but it is still charged once and refunded once,  *)
(* and takes no seat the vehicle does not have.                            *)
(***************************************************************************)
EXTENDS Integers

CONSTANTS Bookings, Drivers, NoDriver, TotalSeats, Price, Bid

VARIABLES
    sold,       \* seats sold of the vehicle's TotalSeats
    trip,       \* "OPEN", "TAKEN", "ROAD", "OVER" or "OFF"
    driver,
    place,      \* how far each booking is: "FREE", "BID", "SOLD", "RODE" or "BACK"
    seats,      \* seats of each booking that is SOLD or RODE
    fare,       \* what each booking was charged
    back,       \* what of it was returned
    contested

vars == <<sold, trip, driver, place, seats, fare, back, contested>>

Init ==
    /\ sold = 0 /\ trip = "OPEN" /\ driver = NoDriver
    /\ place = [b \in Bookings |-> "FREE"]
    /\ seats = [b \in Bookings |-> 0]
    /\ fare = [b \in Bookings |-> 0]
    /\ back = [b \in Bookings |-> 0]
    /\ contested = {}

Moves(b, from, to, n) ==
    /\ b \notin contested /\ UNCHANGED contested
    /\ place[b] = from
    /\ place' = [place EXCEPT ![b] = to]
    /\ seats' = [seats EXCEPT ![b] = n]

(* Nobody's seats and nobody's money. *)
NothingMoves == UNCHANGED <<sold, trip, driver, fare, back>>

(* n more seats leave the sale, and the fare of a booking is taken. *)
Sells(b, n, each) ==
    /\ sold' = sold + n /\ sold' <= TotalSeats
    /\ trip = "OPEN" /\ fare[b] = 0
    /\ fare' = [fare EXCEPT ![b] = n * each]
    /\ UNCHANGED <<trip, back>>

(* n seats return to the sale, or the trip is off; a fare may be returned. *)
Returns(b, n, most) ==
    /\ \/ sold' = sold - n /\ UNCHANGED trip
       \/ trip' = "OFF" /\ UNCHANGED sold
    /\ \/ UNCHANGED back
       \/ back[b] = 0 /\ \E amount \in 1 .. most : back' = [back EXCEPT ![b] = amount]
    /\ UNCHANGED <<driver, fare>>

SomeDriver == driver' \in Drivers \cup {driver}

Offer(b) == NothingMoves /\ Moves(b, "FREE", "BID", 0)

Withdraw(b) == NothingMoves /\ Moves(b, "BID", "BACK", 0)

Buy(b) ==
    \E n \in 1 .. TotalSeats :
        Sells(b, n, Price) /\ UNCHANGED driver /\ Moves(b, "FREE", "SOLD", n)

Accept(b) ==
    \E n \in 1 .. TotalSeats :
        Sells(b, n, Bid) /\ SomeDriver /\ Moves(b, "BID", "SOLD", n)

GiveBack(b) == Moves(b, "SOLD", "BACK", 0) /\ Returns(b, seats[b], fare[b])

Contest(b) ==
    /\ contested' = contested \cup {b}
    /\ \A x \in Bookings \ {b} : place'[x] = place[x] /\ seats'[x] = seats[x]
    /\ \/ NothingMoves
       \/ \E n \in 1 .. TotalSeats :
             \/ Sells(b, n, Bid) /\ SomeDriver
             \/ Returns(b, n, TotalSeats * Price)

Take(d) ==
    /\ trip = "OPEN" /\ driver = NoDriver
    /\ trip' = "TAKEN" /\ driver' = d
    /\ UNCHANGED <<sold, place, seats, fare, back, contested>>

Drive(d) ==
    /\ driver = d
    /\ \/ trip = "TAKEN" /\ trip' = "ROAD"
       \/ trip = "ROAD" /\ trip' = "OVER"
    /\ UNCHANGED <<sold, driver, place, seats, fare, back, contested>>

AllRode ==
    /\ trip = "OVER"
    /\ place' = [b \in Bookings |-> IF place[b] = "SOLD" THEN "RODE" ELSE place[b]]
    /\ UNCHANGED <<sold, trip, driver, seats, fare, back, contested>>

Next ==
    \/ \E b \in Bookings :
          Offer(b) \/ Withdraw(b) \/ Buy(b) \/ Accept(b) \/ GiveBack(b) \/ Contest(b)
    \/ \E d \in Drivers : Take(d) \/ Drive(d)
    \/ AllRode

Spec == Init /\ [][Next]_vars
=============================================================================

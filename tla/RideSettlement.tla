--------------------------- MODULE RideSettlement ---------------------------
(***************************************************************************)
(* What the ride holds promise to a rider, a driver and the platform: a    *)
(* ride's money is secured once, and then either released in full or       *)
(* charged once, the fare split between the driver and the platform.  A    *)
(* rider's money is everything in its wallet, free or locked: securing and *)
(* releasing only move it within the wallet.                               *)
(***************************************************************************)
EXTENDS Integers

CONSTANTS Riders, Drivers, Rides, RiderOf, Fares, Transfers,
          DriverShare(_), PlatformShare(_)

VARIABLES
    money,      \* all a rider's wallet holds
    outcome,    \* "NONE", "ACTIVE" (secured), "CHARGED" or "RELEASED"
    charged,    \* the fare each ride was charged, 0 if none
    paid,       \* the drivers paid for each ride
    earned,     \* what each driver was paid
    platform    \* what the platform took

vars == <<money, outcome, charged, paid, earned, platform>>

Init ==
    /\ money = [rd \in Riders |-> 0]
    /\ outcome = [r \in Rides |-> "NONE"]
    /\ charged = [r \in Rides |-> 0]
    /\ paid = [r \in Rides |-> {}]
    /\ earned = [d \in Drivers |-> 0]
    /\ platform = 0

(* Money enters or leaves a wallet outside the rides. *)
Transfer(rd, amount) ==
    /\ \/ money' = [money EXCEPT ![rd] = @ + amount]
       \/ money' = [money EXCEPT ![rd] = @ - amount]
    /\ UNCHANGED <<outcome, charged, paid, earned, platform>>

Secure(r) ==
    /\ outcome[r] = "NONE"
    /\ outcome' = [outcome EXCEPT ![r] = "ACTIVE"]
    /\ UNCHANGED <<money, charged, paid, earned, platform>>

Release(r) ==
    /\ outcome[r] = "ACTIVE"
    /\ outcome' = [outcome EXCEPT ![r] = "RELEASED"]
    /\ UNCHANGED <<money, charged, paid, earned, platform>>

Charge(r, fare, d) ==
    /\ outcome[r] = "ACTIVE"
    /\ outcome' = [outcome EXCEPT ![r] = "CHARGED"]
    /\ money' = [money EXCEPT ![RiderOf[r]] = @ - fare]
    /\ charged' = [charged EXCEPT ![r] = fare]
    /\ paid' = [paid EXCEPT ![r] = {d}]
    /\ earned' = [earned EXCEPT ![d] = @ + DriverShare(fare)]
    /\ platform' = platform + PlatformShare(fare)

Next ==
    \/ \E rd \in Riders, amount \in Transfers : Transfer(rd, amount)
    \/ \E r \in Rides :
          \/ Secure(r)
          \/ Release(r)
          \/ \E fare \in Fares, d \in Drivers : Charge(r, fare, d)

Spec == Init /\ [][Next]_vars
=============================================================================

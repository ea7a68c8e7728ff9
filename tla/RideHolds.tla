----------------------------- MODULE RideHolds -----------------------------
(***************************************************************************)
(* Wallets and ride holds: the money operations of                         *)
(* packages/db/src/clients/wallet.client.ts, called concurrently by the    *)
(* api-gateway (ride:accept, WhatsApp accept, the RIDE_CANCELLED and       *)
(* RIDE_BID_TIMEOUT consumers) and by wallet-service (the ride.events      *)
(* consumer).                                                              *)
(*                                                                         *)
(* Every operation is one Prisma interactive transaction at READ           *)
(* COMMITTED.  It is modelled in two steps: Begin* is what it reads and    *)
(* checks before it takes a row lock, Commit* is its writes, which start   *)
(* with a row lock (the wallet row, or the hold row claimed by updateMany) *)
(* kept until the commit.  Other transactions run between the two.  Abort  *)
(* is a rollback: a thrown error, a lost connection, a crash, or the       *)
(* deadlock Postgres breaks between adjustRideHold (wallet row, then hold  *)
(* row) and a claim (hold row, then wallet row).                           *)
(***************************************************************************)
EXTENDS Tally

CONSTANTS
    Riders,     \* users that pay; one wallet each
    Drivers,    \* users that are paid
    Rides,
    RiderOf,    \* the rider of each ride
    Workers,    \* callers that may be inside a transaction at the same time
    Fares,      \* agreed fares, and the fares a route update may re-price to
    Deduction,  \* VAT + state levy + service fee on each fare
    Transfers,  \* amounts of deposits and of payments outside rides
    MaxAmount,  \* bound on a fare
    MaxFunds    \* bound on what a rider brings into its wallet

ASSUME RideHoldsAssumption ==
    /\ IsFiniteSet(Rides)
    /\ IsFiniteSet(Drivers)
    /\ RiderOf \in [Rides -> Riders]
    /\ MaxAmount \in Nat
    /\ MaxFunds \in Nat
    /\ Fares \subseteq 0..MaxAmount
    /\ Transfers \subseteq Nat
    /\ Deduction \in [Fares -> Nat]

VARIABLES
    balance,    \* Wallet.balanceNgn of each rider
    locked,     \* Wallet.lockedNgn of each rider
    hold,       \* the RideHold row of each ride: status, amountNgn, settledAmountNgn
    payouts,    \* drivers with a DRIVER_PAYOUT Transaction row for each ride
    earned,     \* Wallet.balanceNgn of each driver
    platform,   \* the platform wallet
    funded,     \* credits less debits a rider's wallet took from outside rides
    tx,         \* the transaction each worker is in
    stale       \* rides whose money moved on a hold row changed since it was read

vars == <<balance, locked, hold, payouts, earned, platform, funded, tx, stale>>

charges == <<hold, payouts, earned, platform>>

Amounts == 0..MaxAmount

Statuses == {"NONE", "ACTIVE", "CHARGED", "RELEASED"}

Idle == [op |-> "idle"]

Transactions ==
    [op : {"create"}, ride : Rides, amount : Amounts]
        \cup [op : {"adjust"}, ride : Rides, seen : Amounts, target : Amounts]
        \cup [op : {"cancel"}, ride : Rides, seen : Amounts]
        \cup [op : {"complete"}, ride : Rides, seen : Amounts,
              fare : Fares, driver : Drivers]
        \cup [op : {"debit"}, rider : Riders, amount : Transfers]

(* calculateRideFees: the deductions come out of the fare, the driver's    *)
(* payout is clamped at zero and the platform's take capped at the fare.   *)
DriverPayout(fare) ==
    IF fare >= Deduction[fare] THEN fare - Deduction[fare] ELSE 0
PlatformTotal(fare) ==
    IF fare >= Deduction[fare] THEN Deduction[fare] ELSE fare

-----------------------------------------------------------------------------

Init ==
    /\ balance = [rd \in Riders |-> 0]
    /\ locked = [rd \in Riders |-> 0]
    /\ hold = [r \in Rides |-> [status |-> "NONE", amount |-> 0, settled |-> 0]]
    /\ payouts = [r \in Rides |-> {}]
    /\ earned = [d \in Drivers |-> 0]
    /\ platform = 0
    /\ funded = [rd \in Riders |-> 0]
    /\ tx = [w \in Workers |-> Idle]
    /\ stale = {}

Begin(w, t) ==
    /\ tx[w] = Idle
    /\ tx' = [tx EXCEPT ![w] = t]
    /\ UNCHANGED <<balance, locked, charges, funded, stale>>

End(w) == tx' = [tx EXCEPT ![w] = Idle]

(* Faulty variants, one per property of the passing runs: a claim by any   *)
(* row instead of an ACTIVE one, a hold row looked up by ACTIVE instead of *)
(* by rideId, a lock that forgets the balance.                             *)
UnconditionalClaim(r) == hold[r].status # "NONE"
HasActiveHold(r) == hold[r].status = "ACTIVE"
LockWithoutDebit(rd, amount) ==
    /\ locked' = [locked EXCEPT ![rd] = @ + amount]
    /\ UNCHANGED balance

(* updateMany where status = ACTIVE matched a row. *)
Claimable(r) == hold[r].status = "ACTIVE"

(* RideHold.rideId is unique: a row is there, whatever its status. *)
HasHold(r) == hold[r].status # "NONE"

(* Move an amount from a rider's free balance to its locked funds (or back *)
(* when the amount is negative).                                           *)
Lock(rd, amount) ==
    /\ balance' = [balance EXCEPT ![rd] = @ - amount]
    /\ locked' = [locked EXCEPT ![rd] = @ + amount]

(* A deposit credited by wallet-service (credit). *)
Deposit(rd, amount) ==
    /\ funded[rd] + amount <= MaxFunds
    /\ balance' = [balance EXCEPT ![rd] = @ + amount]
    /\ funded' = [funded EXCEPT ![rd] = @ + amount]
    /\ UNCHANGED <<locked, charges, tx, stale>>

(* debit: a wallet payment outside the ride, checked then decremented. *)
BeginDebit(w, rd, amount) ==
    /\ balance[rd] >= amount
    /\ Begin(w, [op |-> "debit", rider |-> rd, amount |-> amount])

CommitDebit(w) ==
    /\ tx[w].op = "debit"
    /\ LET rd == tx[w].rider
           amount == tx[w].amount
       IN  /\ balance' = [balance EXCEPT ![rd] = @ - amount]
           /\ funded' = [funded EXCEPT ![rd] = @ - amount]
    /\ End(w)
    /\ UNCHANGED <<locked, charges, stale>>

BeginCreateRideHold(w, r, amount) ==
    /\ balance[RiderOf[r]] >= amount
    /\ Begin(w, [op |-> "create", ride |-> r, amount |-> amount])

(* With a hold row already there the insert fails on the unique rideId and *)
(* the whole transaction rolls back.                                       *)
CommitCreateRideHold(w) ==
    /\ tx[w].op = "create"
    /\ LET r == tx[w].ride
           amount == tx[w].amount
       IN  \/ /\ ~HasHold(r)
              /\ Lock(RiderOf[r], amount)
              /\ hold' = [hold EXCEPT ![r] =
                             [status |-> "ACTIVE", amount |-> amount, settled |-> 0]]
           \/ /\ HasHold(r)
              /\ UNCHANGED <<balance, locked, hold>>
    /\ End(w)
    /\ UNCHANGED <<payouts, earned, platform, funded, stale>>

(* adjustRideHold reads status and amount, and never looks at them again.  *)
(* Its only caller is the ride.events consumer of wallet-service, which    *)
(* handles the events of a ride one at a time: an adjustment overlaps no   *)
(* other adjustment or completion of the same ride.                        *)
InFlight(ops, r) == \E w \in Workers : tx[w].op \in ops /\ tx[w].ride = r

BeginAdjustRideHold(w, r, target) ==
    /\ ~InFlight({"adjust", "complete"}, r)
    /\ hold[r].status = "ACTIVE"
    /\ target # hold[r].amount
    /\ target > hold[r].amount =>
           balance[RiderOf[r]] >= target - hold[r].amount
    /\ Begin(w, [op |-> "adjust", ride |-> r,
                 seen |-> hold[r].amount, target |-> target])

AdjustedAmount(w) == tx[w].target

CommitAdjustRideHold(w) ==
    /\ tx[w].op = "adjust"
    /\ LET r == tx[w].ride
       IN  /\ Lock(RiderOf[r], tx[w].target - tx[w].seen)
           /\ hold' = [hold EXCEPT ![r].amount = AdjustedAmount(w)]
           /\ stale' = IF hold[r].status = "ACTIVE" /\ hold[r].amount = tx[w].seen
                       THEN stale ELSE stale \cup {r}
    /\ End(w)
    /\ UNCHANGED <<payouts, earned, platform, funded>>

BeginCancelRideHold(w, r) ==
    /\ HasHold(r)
    /\ Begin(w, [op |-> "cancel", ride |-> r, seen |-> hold[r].amount])

(* A claim lost moves no money; a claim won releases the amount read       *)
(* before the claim.                                                       *)
CommitCancelRideHold(w) ==
    /\ tx[w].op = "cancel"
    /\ LET r == tx[w].ride
       IN  \/ /\ Claimable(r)
              /\ Lock(RiderOf[r], -tx[w].seen)
              /\ hold' = [hold EXCEPT ![r].status = "RELEASED"]
              /\ stale' = IF hold[r].amount = tx[w].seen
                          THEN stale ELSE stale \cup {r}
           \/ /\ ~Claimable(r)
              /\ UNCHANGED <<balance, locked, hold, stale>>
    /\ End(w)
    /\ UNCHANGED <<payouts, earned, platform, funded>>

BeginCompleteRideHold(w, r, fare, d) ==
    /\ ~InFlight({"adjust"}, r)
    /\ HasHold(r)
    /\ Begin(w, [op |-> "complete", ride |-> r, seen |-> hold[r].amount,
                 fare |-> fare, driver |-> d])

(* completeRideHoldWithDriverPayout: claim, unlock the amount read, debit  *)
(* the fare, pay the driver and the platform.  Everything rolls back when  *)
(* the claim is lost, when the rider has less than the fare after          *)
(* unlocking, or when the RIDE_PAYMENT row of the ride exists already      *)
(* (Transaction is unique on wallet, type, direction and reference).       *)
Payable(w) ==
    LET r == tx[w].ride
    IN  /\ Claimable(r)
        /\ balance[RiderOf[r]] + tx[w].seen >= tx[w].fare
        /\ payouts[r] = {}

CommitCompleteRideHold(w) ==
    /\ tx[w].op = "complete"
    /\ LET r == tx[w].ride
           rd == RiderOf[r]
           fare == tx[w].fare
           d == tx[w].driver
       IN  \/ /\ Payable(w)
              /\ balance' = [balance EXCEPT ![rd] = @ + tx[w].seen - fare]
              /\ locked' = [locked EXCEPT ![rd] = @ - tx[w].seen]
              /\ hold' = [hold EXCEPT ![r].status = "CHARGED",
                                      ![r].settled = fare]
              /\ payouts' = [payouts EXCEPT ![r] = @ \cup {d}]
              /\ earned' = [earned EXCEPT ![d] = @ + DriverPayout(fare)]
              /\ platform' = platform + PlatformTotal(fare)
              /\ stale' = IF hold[r].amount = tx[w].seen
                          THEN stale ELSE stale \cup {r}
           \/ /\ ~Payable(w)
              /\ UNCHANGED <<balance, locked, charges, stale>>
    /\ End(w)
    /\ UNCHANGED funded

Abort(w) ==
    /\ tx[w] # Idle
    /\ End(w)
    /\ UNCHANGED <<balance, locked, charges, funded, stale>>

Next ==
    \/ \E rd \in Riders, amount \in Transfers : Deposit(rd, amount)
    \/ \E w \in Workers :
          \/ \E rd \in Riders, amount \in Transfers : BeginDebit(w, rd, amount)
          \/ \E r \in Rides, fare \in Fares :
                \/ BeginCreateRideHold(w, r, fare)
                \/ BeginAdjustRideHold(w, r, fare)
                \/ \E d \in Drivers : BeginCompleteRideHold(w, r, fare, d)
          \/ \E r \in Rides : BeginCancelRideHold(w, r)
          \/ CommitDebit(w)
          \/ CommitCreateRideHold(w)
          \/ CommitAdjustRideHold(w)
          \/ CommitCancelRideHold(w)
          \/ CommitCompleteRideHold(w)
          \/ Abort(w)

Spec == Init /\ [][Next]_vars
-----------------------------------------------------------------------------

TypeOK ==
    /\ balance \in [Riders -> Int]
    /\ locked \in [Riders -> Int]
    /\ hold \in [Rides -> [status : Statuses, amount : Amounts, settled : Amounts]]
    /\ payouts \in [Rides -> SUBSET Drivers]
    /\ earned \in [Drivers -> Int]
    /\ platform \in Int
    /\ funded \in [Riders -> Int]
    /\ tx \in [Workers -> Transactions \cup {Idle}]
    /\ stale \in SUBSET Rides

(* What the rider's rides hold, and what they were charged. *)
ActiveHold(rd) ==
    [r \in Rides |-> IF RiderOf[r] = rd /\ hold[r].status = "ACTIVE"
                     THEN hold[r].amount ELSE 0]
ChargedFare(rd) ==
    [r \in Rides |-> IF RiderOf[r] = rd THEN hold[r].settled ELSE 0]

(* lockedNgn is exactly the sum of the ACTIVE holds of the wallet, for     *)
(* every rider none of whose rides moved money on a hold row that changed  *)
(* between the read and the write.  It is what the claim in cancelRideHold *)
(* and completeRideHoldWithDriverPayout, and the unique rideId in          *)
(* createRideHold, are there for: no double release, no double hold.       *)
LockedBacksHolds ==
    \A rd \in Riders :
        (\A r \in stale : RiderOf[r] # rd) =>
            locked[rd] = Tally(ActiveHold(rd), Rides, MaxAmount)

(* A rider's money is its balance, its locked funds and the fares it paid, *)
(* and nothing else: whatever races, holds, adjustments and releases never *)
(* create or destroy money, and a ride is charged its fare exactly once.   *)
RiderMoneyConserved ==
    \A rd \in Riders :
        balance[rd] + locked[rd] + Tally(ChargedFare(rd), Rides, MaxAmount)
            = funded[rd]

(* Charging a rider and paying the driver are one event: a ride has a      *)
(* driver paid exactly when its hold is CHARGED, one driver and no second  *)
(* one, and what drivers and platform have is the fares charged, split by  *)
(* calculateRideFees.                                                      *)
PayoutOf(d) ==
    [r \in Rides |-> IF d \in payouts[r] THEN DriverPayout(hold[r].settled) ELSE 0]
PlatformTake ==
    [r \in Rides |-> IF hold[r].status = "CHARGED"
                     THEN PlatformTotal(hold[r].settled) ELSE 0]

ChargedHasOnePayout ==
    \A r \in Rides :
        IF hold[r].status = "CHARGED"
        THEN hold[r].settled \in Fares /\ \E d \in Drivers : payouts[r] = {d}
        ELSE hold[r].settled = 0 /\ payouts[r] = {}

PaidOncePerCharge ==
    /\ ChargedHasOnePayout
    /\ \A d \in Drivers : earned[d] = Tally(PayoutOf(d), Rides, MaxAmount)
    /\ platform = Tally(PlatformTake, Rides, MaxAmount)

(* The holds keep the promise of RideSettlement: every step of every       *)
(* transaction, however they interleave, is a step of that contract or     *)
(* leaves the rider's total, the outcomes and the payouts alone.           *)
Settlement == INSTANCE RideSettlement WITH
    DriverShare <- DriverPayout,
    PlatformShare <- PlatformTotal,
    money <- [rd \in Riders |-> balance[rd] + locked[rd]],
    outcome <- [r \in Rides |-> hold[r].status],
    charged <- [r \in Rides |-> hold[r].settled],
    paid <- payouts

KeepsSettlementContract == Settlement!Spec
=============================================================================

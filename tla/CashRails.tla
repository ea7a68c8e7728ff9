----------------------------- MODULE CashRails -----------------------------
(***************************************************************************)
(* Real money beside the ledger: the Pouch accounts of users and of the    *)
(* treasury, the webhook through which Pouch reports inbound transfers     *)
(* (api-gateway, pouch.route.ts), the deposit it books (wallet-service),   *)
(* the cash escrow around a ride (cash-settlement.ts, called from the      *)
(* ride.events consumer) and the treasury sweep (treasury-sweep.ts).       *)
(*                                                                         *)
(* The ledger moves first, in the consumer's transaction; the cash follows *)
(* in a later call that never throws.  The gateway holds and releases the  *)
(* same fare by itself, so wallet-service may find its operation already   *)
(* applied.  A balance is read before it is decremented, in a transaction  *)
(* of the default isolation.  Faults are a call that throws (a publish, a  *)
(* query, Redis, a provider that refuses) and a process that dies: Init    *)
(* chooses which kind a behaviour may meet.                                *)
(***************************************************************************)
EXTENDS Tally

CONSTANTS
    Rides,
    Users,          \* riders and drivers, each may own a virtual account
    RiderOf, DriverOf,
    Deposits,       \* references of transfers from outside
    OwnerOf,        \* the user each deposit is for
    DepositNgn,     \* its amount
    Total, Updated, \* what a ride costs its rider, before and after a route change
    Payout,         \* the driver's part
    Fee,            \* what Pouch charges the source of a payout
    ConfiguredFee,  \* POUCH_PAYOUT_FEE_NGN, which Pouch may exceed
    SweepMin,       \* TREASURY_SWEEP_MIN_NGN
    MaxThrows, MaxCrashes,
    Treasury

ASSUME CashRailsAssumption ==
    /\ IsFiniteSet(Rides) /\ IsFiniteSet(Deposits)
    /\ {Total, Updated, Payout, Fee, ConfiguredFee, SweepMin, MaxThrows, MaxCrashes} \subseteq Nat
    /\ OwnerOf \in [Deposits -> Users]
    /\ DepositNgn \in Nat \ {0}
    /\ RiderOf \in [Rides -> Users] /\ DriverOf \in [Rides -> Users]
    /\ Treasury \notin Users

VARIABLES
    cash,       \* balance of each Pouch account
    va,         \* each user's account: none, created at Pouch, or with its row
    purse,      \* the users who have a Wallet row
    accepted,   \* idempotency keys of the payouts Pouch accepted
    notices,    \* inbound transfers: where each webhook stands
    marker,     \* pouch:webhook:<event>:<ref> in Redis
    payments,   \* VIRTUAL_ACCOUNT_CREDITED on payment.events, not consumed yet
    lost,       \* history: deposits that may never be booked, see Loses
    wallet,     \* balanceNgn of each user
    booked,     \* times each reference was credited to a wallet
    hold,       \* the RideHold row of each ride
    checking,   \* rides whose hold the gateway is about to write, balance read
    event,      \* the ride.events message wallet-service is at, per ride
    consumer,   \* what it still has to do for that message
    sweep,      \* the balance the sweep read of each account, or NotRead
    faults      \* the kind of fault this behaviour meets, and how many are left

ledger == <<wallet, booked, hold>>
rails == <<cash, accepted, notices>>
intake == <<marker, payments, lost>>
rows == <<va, purse>>
stage == <<checking, event, consumer>>
vars == <<cash, accepted, notices, marker, payments, lost, va, purse,
          wallet, booked, hold, checking, event, consumer, sweep, faults>>

Accounts == Users \cup {Treasury}
Legs == {"escrow", "payout", "refund"}
Refs == Deposits \cup (Legs \X Rides)
NotRead == -1

(* A deposit that may never be booked: an attempt at its webhook failed    *)
(* and left the dedup marker behind; its event went to the dead letter     *)
(* queue; or its owner had no Wallet row.                                  *)
Loses(ref) == lost' = lost \cup ({ref} \cap Deposits)

(* Where a webhook stands: not sent, to be delivered (again), inside the   *)
(* handler, answered 200.                                                  *)
NoticeStates == {"none", "due", "handling", "done"}

(* wallet-service between two messages, between the balance it read and    *)
(* the write it allows, or before the cash of the ledger it wrote.         *)
Stages == {"idle", "hold", "adjust"} \cup Legs

Recipient(ref) ==
    IF ref \in Deposits THEN OwnerOf[ref]
    ELSE CASE ref[1] = "escrow" -> Treasury
           [] ref[1] = "payout" -> DriverOf[ref[2]]
           [] ref[1] = "refund" -> RiderOf[ref[2]]

AmountOf(ref) ==
    IF ref \in Deposits THEN DepositNgn
    ELSE CASE ref[1] = "escrow" -> Total
           [] ref[1] = "payout" -> Payout
           [] ref[1] = "refund" -> hold[ref[2]].amount

CashRailsInit ==
    /\ cash = [a \in Accounts |-> 0]
    /\ va \in [Users -> {"none", "saved"}]
    /\ \A d \in Deposits : va[OwnerOf[d]] = "saved"
    /\ accepted = {}
    /\ notices = [ref \in Refs |-> "none"]
    /\ purse = {}
    /\ marker = {} /\ payments = {} /\ lost = {}
    /\ wallet = [u \in Users |-> 0]
    /\ booked = [ref \in Refs |-> 0]
    /\ hold = [r \in Rides |-> [status |-> "NONE", amount |-> 0]]
    /\ checking = {}
    /\ event = [r \in Rides |-> "requested"]
    /\ consumer = [r \in Rides |-> "idle"]
    /\ sweep = [u \in Users |-> NotRead]
    /\ faults \in {[kind |-> "throws", left |-> MaxThrows],
                   [kind |-> "crashes", left |-> MaxCrashes]}

TypeOK ==
    /\ cash \in [Accounts -> Nat]
    /\ va \in [Users -> {"none", "created", "saved"}]
    /\ accepted \subseteq Legs \X Rides
    /\ notices \in [Refs -> NoticeStates]
    /\ purse \subseteq Users
    /\ marker \subseteq Refs /\ payments \subseteq Refs
    /\ lost \subseteq Deposits
    /\ wallet \in [Users -> Int]
    /\ booked \in [Refs -> Nat]
    /\ hold \in [Rides -> [status : {"NONE", "ACTIVE", "CHARGED", "RELEASED"},
                           amount : {0, Total, Updated}]]
    /\ checking \subseteq Rides
    /\ event \in [Rides -> {"requested", "assigned", "updated", "completed",
                            "cancelled", "consumed"}]
    /\ consumer \in [Rides -> Stages]
    /\ sweep \in [Users -> Nat \cup {NotRead}]

Fault(kind) ==
    /\ faults.kind = kind /\ faults.left > 0
    /\ faults' = [faults EXCEPT !.left = @ - 1]

-----------------------------------------------------------------------------
(* Pouch *)

(* A payout Pouch accepts: the amount and the fee leave the source, the    *)
(* amount reaches the destination, which is told.                          *)
Moves(from, to, amount) ==
    /\ cash[from] >= amount + Fee
    /\ cash' = [cash EXCEPT ![from] = @ - amount - Fee, ![to] = @ + amount]

(* A transfer from outside reaches a user's account. *)
TransferArrives(ref) ==
    /\ ref \in Deposits /\ notices[ref] = "none"
    /\ cash' = [cash EXCEPT ![OwnerOf[ref]] = @ + DepositNgn]
    /\ notices' = [notices EXCEPT ![ref] = "due"]
    /\ UNCHANGED <<accepted, rows, intake, ledger, stage, sweep, faults>>

(* transfer(): a key Pouch has seen moves nothing again; an account that   *)
(* cannot pay, or a refusal, is logged and forgotten.                      *)
Transfer(from, to, amount, key) ==
    IF key \in accepted \/ cash[from] < amount + Fee
    THEN UNCHANGED rails
    ELSE /\ Moves(from, to, amount)
         /\ accepted' = accepted \cup {key}
         /\ notices' = [notices EXCEPT ![key] = "due"]

(* Faulty variants, one per property: a credit without its unique row, a   *)
(* claim that takes a settled hold again, a handler that keeps the dedup   *)
(* marker when it throws.                                                  *)
CreditsAgain(ref) == TRUE
ClaimsSettled(r) == hold[r].status # "NONE"
KeepsMarker(ref) == marker

-----------------------------------------------------------------------------
(* pouch.route.ts: the webhook *)

(* A delivery: setIfNotExists of the dedup key, then the handler.          *)
Receive(ref) ==
    /\ notices[ref] = "due"
    /\ IF ref \in marker
       THEN /\ notices' = [notices EXCEPT ![ref] = "done"]     \* Duplicate event
            /\ UNCHANGED marker
       ELSE /\ marker' = marker \cup {ref}
            /\ notices' = [notices EXCEPT ![ref] = "handling"]
    /\ UNCHANGED <<cash, accepted, rows, payments, lost, ledger, stage, sweep, faults>>

(* The answer of setIfNotExists is lost: 500 in front of the try that      *)
(* would clear the key it set.                                             *)
ReceiveFails(ref) ==
    /\ notices[ref] = "due" /\ ref \notin marker /\ Fault("throws")
    /\ marker' = marker \cup {ref}
    /\ Loses(ref)
    /\ UNCHANGED <<rails, rows, payments, ledger, stage, sweep>>

(* handleVirtualAccountCredited: float for the treasury is no deposit, an  *)
(* account without a row is answered 200, else the event is published.     *)
Books(ref) == \E u \in Users : Recipient(ref) = u /\ va[u] = "saved"

Publishes(ref) == payments' = IF Books(ref) THEN payments \cup {ref} ELSE payments

Handle(ref) ==
    /\ notices[ref] = "handling"
    /\ Publishes(ref)
    /\ notices' = [notices EXCEPT ![ref] = "done"]
    /\ UNCHANGED <<cash, accepted, rows, marker, lost, ledger, stage, sweep, faults>>

(* The lookup or the publish throws, the event out or not: the marker is   *)
(* cleared, the answer is 500, and Pouch delivers again.                   *)
Clear(ref) == marker \ {ref}

HandlerThrows(ref) ==
    /\ notices[ref] = "handling" /\ Fault("throws")
    /\ Publishes(ref) \/ UNCHANGED payments
    /\ marker' = Clear(ref)
    /\ notices' = [notices EXCEPT ![ref] = "due"]
    /\ UNCHANGED <<cash, accepted, rows, lost, ledger, stage, sweep>>

(* It throws, and so does the deletion of the marker, which is not told.   *)
ClearFails(ref) ==
    /\ notices[ref] = "handling" /\ Fault("throws")
    /\ Publishes(ref) \/ UNCHANGED payments
    /\ notices' = [notices EXCEPT ![ref] = "due"]
    /\ Loses(ref)
    /\ UNCHANGED <<cash, accepted, rows, marker, ledger, stage, sweep>>

(* The gateway dies inside the handler: the marker stays, and Pouch, which *)
(* got no answer, delivers again.                                          *)
GatewayDies(ref) ==
    /\ notices[ref] = "handling" /\ Fault("crashes")
    /\ notices' = [notices EXCEPT ![ref] = "due"]
    /\ Loses(ref)
    /\ UNCHANGED <<cash, accepted, rows, marker, payments, ledger, stage, sweep>>

(* Pouch delivers what was answered once more. *)
Redelivered(ref) ==
    /\ notices[ref] = "done" /\ Fault("crashes")
    /\ notices' = [notices EXCEPT ![ref] = "due"]
    /\ UNCHANGED <<cash, accepted, rows, intake, ledger, stage, sweep>>

(* Twenty-four hours pass: the dedup key is gone. *)
MarkerExpires(ref) ==
    /\ ref \in marker /\ notices[ref] \in {"due", "done"}
    /\ faults.kind = "crashes"
    /\ marker' = marker \ {ref}
    /\ UNCHANGED <<rails, rows, payments, lost, ledger, stage, sweep, faults>>

-----------------------------------------------------------------------------
(* wallet-service: payment.events *)

(* credit: the increment and its Transaction row, unique per wallet, type, *)
(* direction and reference, are one transaction.                           *)
Credits(ref) == booked[ref] = 0

Credit(ref) ==
    IF Credits(ref)
    THEN /\ wallet' = [wallet EXCEPT ![Recipient(ref)] = @ + AmountOf(ref)]
         /\ booked' = [booked EXCEPT ![ref] = @ + 1]
    ELSE UNCHANGED <<wallet, booked>>

(* Without a Wallet row the deposit is warned of and dropped. *)
Deposited(ref) ==
    IF Recipient(ref) \in purse
    THEN Credit(ref) /\ UNCHANGED lost
    ELSE Loses(ref) /\ UNCHANGED <<wallet, booked>>

(* The message is consumed, or redelivered after a crash behind the commit.*)
ConsumePayment(ref) ==
    /\ ref \in payments
    /\ Deposited(ref)
    /\ \/ payments' = payments \ {ref} /\ UNCHANGED faults
       \/ Fault("crashes") /\ UNCHANGED payments
    /\ UNCHANGED <<rails, rows, marker, hold, stage, sweep>>

(* The lookup or the credit throws, or the publish behind the credit: the  *)
(* message goes to the dead letter queue, its offset is committed, and     *)
(* nothing takes it from there.                                            *)
PaymentFails(ref) ==
    /\ ref \in payments /\ Fault("throws")
    /\ \/ Recipient(ref) \in purse /\ Credit(ref)
       \/ UNCHANGED <<wallet, booked>>
    /\ payments' = payments \ {ref}
    /\ Loses(ref)
    /\ UNCHANGED <<rails, rows, marker, hold, stage, sweep>>

(* user.events, a login or an onboarding: the upsert of a user's Wallet.   *)
OpensWallet(u) ==
    /\ u \notin purse
    /\ purse' = purse \cup {u}
    /\ UNCHANGED <<rails, va, intake, ledger, stage, sweep, faults>>

-----------------------------------------------------------------------------
(* The ride: what the gateway does, and what reaches ride.events *)

(* createRideHold, called by either side: the balance is read, then        *)
(* decremented whatever it is by then; the row is unique per ride, so the  *)
(* second transaction rolls back.                                          *)
Affordable(r) == RiderOf[r] \in purse /\ wallet[RiderOf[r]] >= Total

Unheld(r) == hold[r].status = "NONE"

Holds(r) ==
    /\ hold' = [hold EXCEPT ![r] = [status |-> "ACTIVE", amount |-> Total]]
    /\ wallet' = [wallet EXCEPT ![RiderOf[r]] = @ - Total]
    /\ UNCHANGED booked

(* ride:accept and the WhatsApp accept hold the fare before they publish. *)
GatewayChecks(r) ==
    /\ event[r] = "requested" /\ r \notin checking /\ Affordable(r)
    /\ checking' = checking \cup {r}
    /\ UNCHANGED <<rails, rows, intake, ledger, event, consumer, sweep, faults>>

GatewayHolds(r) ==
    /\ r \in checking
    /\ IF Unheld(r) THEN Holds(r) ELSE UNCHANGED ledger
    /\ checking' = checking \ {r}
    /\ UNCHANGED <<rails, rows, intake, event, consumer, sweep, faults>>

(* completeRideHoldWithDriverPayout and cancelRideHold claim an ACTIVE     *)
(* row; whoever comes second applies nothing.                              *)
Claims(r) == hold[r].status = "ACTIVE"

Releases(r) ==
    /\ hold' = [hold EXCEPT ![r].status = "RELEASED"]
    /\ wallet' = [wallet EXCEPT ![RiderOf[r]] = @ + hold[r].amount]
    /\ UNCHANGED booked

(* The gateway's RIDE_CANCELLED consumer. *)
GatewayReleases(r) ==
    /\ event[r] = "cancelled" /\ Claims(r)
    /\ Releases(r)
    /\ UNCHANGED <<rails, rows, intake, stage, sweep, faults>>

(* ride-service writes the next message once the one before is consumed.   *)
Publish(r) ==
    /\ consumer[r] = "idle"
    /\ \/ event[r] = "requested" /\ event' = [event EXCEPT ![r] = "assigned"]
       \/ /\ event[r] = "consumed"
          /\ \E e \in {"updated", "completed", "cancelled"} :
                event' = [event EXCEPT ![r] = e]
    /\ UNCHANGED <<rails, rows, intake, ledger, checking, consumer, sweep, faults>>

-----------------------------------------------------------------------------
(* wallet-service: ride.events, the ledger part of each message *)

Done(r) ==
    /\ event' = [event EXCEPT ![r] = "consumed"]
    /\ consumer' = [consumer EXCEPT ![r] = "idle"]

Continue(r, leg) == consumer' = [consumer EXCEPT ![r] = leg] /\ UNCHANGED event

(* RIDE_DRIVER_ASSIGNED: no Wallet row, a balance too small, or a hold     *)
(* that is there already, end the handler.                                 *)
Assigned(r) ==
    /\ event[r] = "assigned" /\ consumer[r] = "idle"
    /\ IF Affordable(r) THEN Continue(r, "hold") ELSE Done(r)
    /\ UNCHANGED <<rails, rows, intake, ledger, checking, sweep, faults>>

AssignedHolds(r) ==
    /\ consumer[r] = "hold"
    /\ IF Unheld(r) THEN Holds(r) /\ Continue(r, "escrow")
       ELSE Done(r) /\ UNCHANGED ledger
    /\ UNCHANGED <<rails, rows, intake, checking, sweep, faults>>

(* RIDE_ROUTE_UPDATED: adjustRideHold; the cash is not adjusted. *)
RouteUpdated(r) ==
    /\ event[r] = "updated" /\ consumer[r] = "idle"
    /\ IF hold[r].status = "ACTIVE"
          /\ wallet[RiderOf[r]] >= Updated - hold[r].amount
       THEN Continue(r, "adjust")
       ELSE Done(r)
    /\ UNCHANGED <<rails, rows, intake, ledger, checking, sweep, faults>>

Adjusts(r) ==
    /\ consumer[r] = "adjust"
    /\ wallet' = [wallet EXCEPT ![RiderOf[r]] = @ - (Updated - hold[r].amount)]
    /\ hold' = [hold EXCEPT ![r].amount = Updated]
    /\ Done(r)
    /\ UNCHANGED <<booked, rails, rows, intake, checking, sweep, faults>>

(* RIDE_COMPLETED: completeRideHoldWithDriverPayout, here at the held      *)
(* amount.  Without an ACTIVE hold nothing follows; a rider whose balance  *)
(* is below zero cannot pay the fare after the unlock, and the claim rolls *)
(* back with the rest; a driver without a Wallet row gets one.             *)
Payable(r) == wallet[RiderOf[r]] + hold[r].amount >= hold[r].amount

Completed(r) ==
    /\ event[r] = "completed" /\ consumer[r] = "idle"
    /\ IF Claims(r) /\ Payable(r)
       THEN /\ hold' = [hold EXCEPT ![r].status = "CHARGED"]
            /\ wallet' = [wallet EXCEPT ![DriverOf[r]] = @ + Payout]
            /\ purse' = purse \cup {DriverOf[r]}
            /\ UNCHANGED booked
            /\ Continue(r, "payout")
       ELSE Done(r) /\ UNCHANGED <<purse, ledger>>
    /\ UNCHANGED <<rails, va, intake, checking, sweep, faults>>

(* RIDE_CANCELLED: only the side that released the hold refunds cash. *)
Cancelled(r) ==
    /\ event[r] = "cancelled" /\ consumer[r] = "idle"
    /\ IF Claims(r) THEN Releases(r) /\ Continue(r, "refund")
       ELSE Done(r) /\ UNCHANGED ledger
    /\ UNCHANGED <<rails, rows, intake, checking, sweep, faults>>

-----------------------------------------------------------------------------
(* cash-settlement.ts: the cash part *)

HasAccount(u) == va[u] = "saved"

(* escrowRideFunds *)
Escrow(r) ==
    /\ consumer[r] = "escrow"
    /\ IF HasAccount(RiderOf[r])
       THEN Transfer(RiderOf[r], Treasury, Total, <<"escrow", r>>)
       ELSE UNCHANGED rails
    /\ Done(r)
    /\ UNCHANGED <<rows, intake, ledger, checking, sweep, faults>>

(* ensureDriverVirtualAccount: va-provision-<user> gives the same account  *)
(* to whoever asks; the row is stored by one of them.                      *)
CreateAccount(u) ==
    /\ va[u] = "none"
    /\ \E r \in Rides : consumer[r] = "payout" /\ DriverOf[r] = u
    /\ va' = [va EXCEPT ![u] = "created"]
    /\ UNCHANGED <<rails, purse, intake, ledger, stage, sweep, faults>>

SaveAccount(u) ==
    /\ va[u] = "created"
    /\ va' = [va EXCEPT ![u] = "saved"]
    /\ UNCHANGED <<rails, purse, intake, ledger, stage, sweep, faults>>

(* releaseToDriver: out of the treasury, escrowed or not. *)
ReleaseToDriver(r) ==
    /\ consumer[r] = "payout" /\ HasAccount(DriverOf[r])
    /\ Transfer(Treasury, DriverOf[r], Payout, <<"payout", r>>)
    /\ Done(r)
    /\ UNCHANGED <<rows, intake, ledger, checking, sweep, faults>>

(* refundToRider *)
RefundToRider(r) ==
    /\ consumer[r] = "refund"
    /\ IF HasAccount(RiderOf[r])
       THEN Transfer(Treasury, RiderOf[r], hold[r].amount, <<"refund", r>>)
       ELSE UNCHANGED rails
    /\ Done(r)
    /\ UNCHANGED <<rows, intake, ledger, checking, sweep, faults>>

(* The transaction, the publish before the cash call, the provider, or the *)
(* provisioning throws: logged as CRITICAL, the message is consumed.       *)
CashRefused(r) ==
    /\ consumer[r] # "idle" /\ Fault("throws")
    /\ Done(r)
    /\ UNCHANGED <<rails, rows, intake, ledger, checking, sweep>>

(* wallet-service dies: the message is redelivered, and a ledger operation *)
(* that was committed is found applied.                                    *)
ConsumerCrashes(r) ==
    /\ consumer[r] # "idle" /\ Fault("crashes")
    /\ consumer' = [consumer EXCEPT ![r] = "idle"]
    /\ UNCHANGED <<rails, rows, intake, ledger, checking, event, sweep>>

-----------------------------------------------------------------------------
(* treasury-sweep.ts *)

Dust == IF SweepMin > ConfiguredFee + 1 THEN SweepMin ELSE ConfiguredFee + 1

SweepReads(u) ==
    /\ HasAccount(u) /\ sweep[u] = NotRead /\ cash[u] >= Dust
    /\ sweep' = [sweep EXCEPT ![u] = cash[u]]
    /\ UNCHANGED <<rails, rows, intake, ledger, stage, faults>>

(* The balance read less the configured fee; a refusal that says what is   *)
(* required is answered once, with the deficit taken off.                  *)
SweepAmount(u) ==
    LET first == sweep[u] - ConfiguredFee
        deficit == first + Fee - cash[u]
    IN  IF deficit <= 0 THEN first
        ELSE IF deficit < first THEN first - deficit ELSE 0

SweepPays(u) ==
    /\ sweep[u] # NotRead
    /\ sweep' = [sweep EXCEPT ![u] = NotRead]
    /\ IF SweepAmount(u) > 0 THEN Moves(u, Treasury, SweepAmount(u)) ELSE UNCHANGED cash
    /\ UNCHANGED <<accepted, notices, rows, intake, ledger, stage, faults>>

-----------------------------------------------------------------------------

Next ==
    \/ \E ref \in Refs :
          \/ TransferArrives(ref) \/ Receive(ref) \/ ReceiveFails(ref) \/ Handle(ref)
          \/ HandlerThrows(ref) \/ ClearFails(ref) \/ GatewayDies(ref) \/ Redelivered(ref)
          \/ MarkerExpires(ref) \/ ConsumePayment(ref) \/ PaymentFails(ref)
    \/ \E r \in Rides :
          \/ GatewayChecks(r) \/ GatewayHolds(r) \/ GatewayReleases(r) \/ Publish(r)
          \/ Assigned(r) \/ AssignedHolds(r) \/ RouteUpdated(r) \/ Adjusts(r)
          \/ Completed(r) \/ Cancelled(r)
          \/ Escrow(r) \/ ReleaseToDriver(r) \/ RefundToRider(r)
          \/ CashRefused(r) \/ ConsumerCrashes(r)
    \/ \E u \in Users :
          \/ OpensWallet(u) \/ CreateAccount(u) \/ SaveAccount(u)
          \/ SweepReads(u) \/ SweepPays(u)

(* Pouch delivers until it is answered 200; the handler and the consumer   *)
(* take what is there.                                                     *)
Fairness ==
    \A ref \in Refs :
        WF_vars(Receive(ref)) /\ WF_vars(Handle(ref)) /\ WF_vars(ConsumePayment(ref))

Spec == CashRailsInit /\ [][Next]_vars /\ Fairness

-----------------------------------------------------------------------------

(* What the references that reached a wallet, the rides and the holds are   *)
(* worth to user u; none is more than Most.                                *)
Most == DepositNgn + Total + Updated + Payout

Booked(u) ==
    [ref \in Refs |-> IF Recipient(ref) = u /\ booked[ref] > 0 THEN AmountOf(ref) ELSE 0]

Earned(u) ==
    [r \in Rides |-> IF DriverOf[r] = u /\ hold[r].status = "CHARGED" THEN Payout ELSE 0]

Spent(u) ==
    [r \in Rides |-> IF RiderOf[r] = u /\ hold[r].status \in {"ACTIVE", "CHARGED"}
                     THEN hold[r].amount ELSE 0]

(* However often Pouch delivers a transfer, and wallet-service its event,  *)
(* the wallet of its owner holds it once, and nothing but such transfers,  *)
(* payouts and holds (the dedup marker alone would not do: it expires, and *)
(* is set before the event is out).                                        *)
TransfersBookedOnce ==
    /\ \A ref \in Refs : booked[ref] <= 1
    /\ \A u \in Users :
          wallet[u] + Tally(Spent(u), Rides, Most)
              = Tally(Booked(u), Refs, Most) + Tally(Earned(u), Rides, Most)

(* The cash of a ride leaves the treasury for the driver of a ride that    *)
(* was charged, or back to the rider of one that was released: never both, *)
(* whoever of gateway and wallet-service settled the hold, and whatever is *)
(* redelivered.                                                            *)
RideCashFollowsLedger ==
    \A r \in Rides :
        /\ <<"payout", r>> \in accepted => hold[r].status = "CHARGED"
        /\ <<"refund", r>> \in accepted => hold[r].status = "RELEASED"

(* A transfer that was paid in is booked in the end, however often its     *)
(* webhook fails and is delivered again, unless it was lost: an attempt    *)
(* left the dedup marker behind (the gateway died in the handler, or Redis *)
(* failed it) and the next delivery is skipped as a duplicate; its event   *)
(* went to the dead letter queue; or its owner had no Wallet row.          *)
FailedWebhookIsRetried ==
    \A ref \in Deposits :
        notices[ref] = "due" ~> booked[ref] = 1 \/ ref \in lost
=============================================================================

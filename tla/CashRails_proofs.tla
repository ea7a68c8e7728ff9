-------------------------- MODULE CashRails_proofs --------------------------
(***************************************************************************)
(* For every set of rides, users and deposits, any amounts and any number  *)
(* of faults: the types, the cash of a ride on the side its hold settled   *)
(* on, and each wallet the sum of what was transferred, earned and held.   *)
(***************************************************************************)
EXTENDS CashRails, TallyTheorems

(* The actions, by what they touch: Pouch and the webhook, payment.events, *)
(* the ledger part of a ride, its cash, and the accounts.                  *)
NoticeStep(ref) ==
    \/ TransferArrives(ref) \/ Receive(ref) \/ ReceiveFails(ref) \/ Handle(ref)
    \/ HandlerThrows(ref) \/ ClearFails(ref) \/ GatewayDies(ref) \/ Redelivered(ref)
    \/ MarkerExpires(ref)

PaymentStep(ref) == ConsumePayment(ref) \/ PaymentFails(ref)

LedgerStep(r) ==
    \/ GatewayChecks(r) \/ GatewayHolds(r) \/ GatewayReleases(r) \/ Publish(r)
    \/ Assigned(r) \/ AssignedHolds(r) \/ RouteUpdated(r) \/ Adjusts(r)
    \/ Completed(r) \/ Cancelled(r)

CashStage(r) ==
    \/ Escrow(r) \/ ReleaseToDriver(r) \/ RefundToRider(r)
    \/ CashRefused(r) \/ ConsumerCrashes(r)

AccountStep(u) ==
    \/ OpensWallet(u) \/ CreateAccount(u) \/ SaveAccount(u)
    \/ SweepReads(u) \/ SweepPays(u)

LEMMA NextSteps ==
    ASSUME Next
    PROVE  \/ \E ref \in Refs : NoticeStep(ref) \/ PaymentStep(ref)
           \/ \E r \in Rides : LedgerStep(r) \/ CashStage(r)
           \/ \E u \in Users : AccountStep(u)
BY DEF Next, NoticeStep, PaymentStep, LedgerStep, CashStage, AccountStep

(***************************************************************************)
(* What wallet-service still has to pay for a ride follows the state its   *)
(* ledger part left the hold in, and so does what Pouch accepted; neither  *)
(* state is left again.  While it adjusts a hold, the ride is not          *)
(* cancelled yet, and nothing settles the hold.                            *)
(***************************************************************************)
CashOf(r) ==
    /\ <<"payout", r>> \in accepted \/ consumer[r] = "payout"
          => hold[r].status = "CHARGED"
    /\ <<"refund", r>> \in accepted \/ consumer[r] = "refund"
          => hold[r].status = "RELEASED"
    /\ consumer[r] = "adjust" => event[r] = "updated" /\ hold[r].status = "ACTIVE"

CashInv == \A r \in Rides : CashOf(r)

(* What is reported, published or booked was paid in from outside or       *)
(* accepted as a payout: so the amount behind a booked reference is fixed. *)
SourceOf(ref) ==
    booked[ref] > 0 \/ ref \in payments \/ notices[ref] # "none"
        => ref \in Deposits \/ ref \in accepted

SourceInv == \A ref \in Refs : SourceOf(ref)

IInv == TypeOK /\ CashInv /\ SourceInv
-----------------------------------------------------------------------------
(***************************************************************************)
(* Types                                                                   *)
(***************************************************************************)
Statuses == {"NONE", "ACTIVE", "CHARGED", "RELEASED"}
Amounts == {0, Total, Updated}
HoldRows == [status : Statuses, amount : Amounts]

LEMMA ConstantTypes ==
    /\ Total \in Nat /\ Updated \in Nat /\ Payout \in Nat /\ Fee \in Nat
    /\ ConfiguredFee \in Nat /\ SweepMin \in Nat /\ DepositNgn \in Nat /\ Most \in Nat
    /\ Amounts \subseteq 0..Most /\ Payout \in 0..Most /\ DepositNgn \in 0..Most
BY CashRailsAssumption DEF Amounts, Most

(* The fields of a hold, and the parties of a ride. *)
LEMMA RideTypes ==
    ASSUME TypeOK, NEW r \in Rides
    PROVE  /\ hold[r] \in HoldRows
           /\ hold[r].status \in Statuses /\ hold[r].amount \in Amounts
           /\ hold[r].amount \in Nat
           /\ RiderOf[r] \in Users /\ DriverOf[r] \in Users
           /\ <<"escrow", r>> \in Refs /\ <<"payout", r>> \in Refs /\ <<"refund", r>> \in Refs
           /\ wallet[RiderOf[r]] \in Int /\ wallet[DriverOf[r]] \in Int
<1>1. hold[r] \in HoldRows
    BY DEF TypeOK, HoldRows, Statuses, Amounts
<1>2. hold[r].status \in Statuses /\ hold[r].amount \in Amounts
    BY <1>1 DEF HoldRows
<1>3. RiderOf[r] \in Users /\ DriverOf[r] \in Users
    BY CashRailsAssumption
<1>4. QED
    BY <1>1, <1>2, <1>3, ConstantTypes DEF TypeOK, Amounts, Refs, Legs

(* An amount behind a reference is one of the four. *)
LEMMA AmountType ==
    ASSUME TypeOK, NEW ref \in Refs
    PROVE  AmountOf(ref) \in 0..Most
<1>1. CASE ref \in Deposits
    BY <1>1, ConstantTypes DEF AmountOf
<1>2. CASE ref \notin Deposits
    <2>1. PICK leg \in Legs, r \in Rides : ref = <<leg, r>>
        BY <1>2 DEF Refs
    <2>2. hold[r].amount \in 0..Most /\ Total \in 0..Most /\ Payout \in 0..Most
        BY RideTypes, ConstantTypes DEF Amounts
    <2>3. ref[1] = leg /\ ref[2] = r /\ leg \in {"escrow", "payout", "refund"}
        BY <2>1 DEF Legs
    <2>4. QED
        BY <1>2, <2>2, <2>3 DEF AmountOf
<1>3. QED
    BY <1>1, <1>2

(* A payout takes no account below zero. *)
LEMMA MovesTyped ==
    ASSUME cash \in [Accounts -> Nat], NEW from \in Accounts, NEW to \in Accounts, from # to,
           NEW amount \in Nat, Moves(from, to, amount)
    PROVE  cash' \in [Accounts -> Nat]
<1>1. Fee \in Nat
    BY ConstantTypes
<1>2. cash[from] >= amount + Fee
    BY DEF Moves
<1>3. [cash EXCEPT ![from] = @ - amount - Fee, ![to] = @ + amount] \in [Accounts -> Nat]
    BY <1>1, <1>2
<1>4. QED
    BY <1>3 DEF Moves

(* What a payout through Pouch may change. *)
LEMMA TransferTyped ==
    ASSUME TypeOK, NEW from \in Accounts, NEW to \in Accounts, from # to, NEW amount \in Nat,
           NEW key \in Legs \X Rides, Transfer(from, to, amount, key)
    PROVE  /\ cash' \in [Accounts -> Nat]
           /\ accepted' \subseteq Legs \X Rides
           /\ notices' \in [Refs -> NoticeStates]
           /\ accepted \subseteq accepted' /\ accepted' \subseteq accepted \cup {key}
           /\ \A ref \in Refs : notices'[ref] # notices[ref] => ref \in accepted'
<1>1. key \in Refs
    BY DEF Refs
<1>2. CASE UNCHANGED rails
    BY <1>2 DEF rails, TypeOK
<1>3. CASE /\ Moves(from, to, amount)
           /\ accepted' = accepted \cup {key}
           /\ notices' = [notices EXCEPT ![key] = "due"]
    <2>1. cash \in [Accounts -> Nat] /\ Fee \in Nat /\ cash[from] \in Nat
        BY ConstantTypes DEF TypeOK
    <2>2. cash' \in [Accounts -> Nat]
        BY <1>3, <2>1, MovesTyped
    <2>3. notices' \in [Refs -> NoticeStates]
        BY <1>1, <1>3 DEF TypeOK, NoticeStates
    <2>4. QED
        BY <1>1, <1>3, <2>2, <2>3 DEF TypeOK
<1>4. QED
    BY <1>2, <1>3 DEF Transfer

LEMMA InitTypes == CashRailsInit => TypeOK
<1> SUFFICES ASSUME CashRailsInit
             PROVE  TypeOK
    OBVIOUS
<1>1. hold \in [Rides -> [status : {"NONE", "ACTIVE", "CHARGED", "RELEASED"},
                          amount : {0, Total, Updated}]]
    BY DEF CashRailsInit
<1>2. QED
    BY <1>1 DEF CashRailsInit, TypeOK, NoticeStates, Stages

LEMMA NoticeTypes ==
    ASSUME TypeOK, NEW ref \in Refs, NoticeStep(ref)
    PROVE  TypeOK'
<1>1. CASE TransferArrives(ref)
    <2>1. OwnerOf[ref] \in Accounts /\ DepositNgn \in Nat
        BY <1>1, CashRailsAssumption DEF TransferArrives, Accounts
    <2>2. cash' \in [Accounts -> Nat]
        BY <1>1, <2>1 DEF TransferArrives, TypeOK
    <2>3. QED
        BY <1>1, <2>2 DEF TransferArrives, TypeOK, rows, intake, ledger, stage, NoticeStates
<1>2. CASE Receive(ref) \/ ReceiveFails(ref)
    BY <1>2 DEF Receive, ReceiveFails, Loses, TypeOK, rails, rows, ledger, stage, NoticeStates
<1>3. CASE Handle(ref)
    BY <1>3 DEF Handle, Publishes, TypeOK, rows, ledger, stage, NoticeStates
<1>4. CASE HandlerThrows(ref)
    BY <1>4 DEF HandlerThrows, Publishes, Clear, TypeOK, rows, ledger, stage, NoticeStates
<1>5. CASE ClearFails(ref) \/ GatewayDies(ref)
    BY <1>5 DEF ClearFails, GatewayDies, Publishes, Loses, TypeOK, rows, ledger, stage, NoticeStates
<1>6. CASE Redelivered(ref)
    BY <1>6 DEF Redelivered, TypeOK, rows, ledger, intake, stage, NoticeStates
<1>7. CASE MarkerExpires(ref)
    BY <1>7 DEF MarkerExpires, TypeOK, rows, ledger, stage, rails
<1>8. QED
    BY <1>1, <1>2, <1>3, <1>4, <1>5, <1>6, <1>7 DEF NoticeStep

(* What a credit, or none, leaves of the wallets. *)
LEMMA CreditTypes ==
    ASSUME TypeOK, NEW ref \in Refs, Credit(ref) \/ UNCHANGED <<wallet, booked>>
    PROVE  wallet' \in [Users -> Int] /\ booked' \in [Refs -> Nat]
<1>1. AmountOf(ref) \in Nat
    BY AmountType, ConstantTypes
<1>2. CASE Credits(ref) /\ Credit(ref)
    BY <1>1, <1>2 DEF Credit, TypeOK
<1>3. CASE ~Credits(ref) \/ UNCHANGED <<wallet, booked>>
    BY <1>3 DEF Credit, TypeOK
<1>4. QED
    BY <1>2, <1>3

LEMMA PaymentTypes ==
    ASSUME TypeOK, NEW ref \in Refs, PaymentStep(ref)
    PROVE  TypeOK'
<1>1. wallet' \in [Users -> Int] /\ booked' \in [Refs -> Nat]
    BY CreditTypes DEF PaymentStep, ConsumePayment, PaymentFails, Deposited
<1>2. payments' \subseteq Refs /\ lost' \subseteq Deposits
    BY DEF PaymentStep, ConsumePayment, PaymentFails, Deposited, Loses, TypeOK
<1>3. UNCHANGED <<rails, rows, marker, hold, stage, sweep>>
    BY DEF PaymentStep, ConsumePayment, PaymentFails
<1>4. QED
    BY <1>1, <1>2, <1>3 DEF TypeOK, rails, rows, stage

(* The ledger part of a ride's messages. *)
LEMMA LedgerTypes ==
    ASSUME TypeOK, NEW r \in Rides,
           \/ Unheld(r) /\ Holds(r)
           \/ Claims(r) /\ Releases(r)
           \/ Adjusts(r)
           \/ Completed(r)
           \/ UNCHANGED ledger
    PROVE  /\ wallet' \in [Users -> Int]
           /\ booked' \in [Refs -> Nat]
           /\ hold' \in [Rides -> HoldRows]
<1> DEFINE amount == hold[r].amount
           paid == wallet[RiderOf[r]]
<1>1. /\ hold \in [Rides -> HoldRows] /\ hold[r] \in HoldRows
      /\ wallet \in [Users -> Int] /\ booked \in [Refs -> Nat]
      /\ amount \in Amounts /\ amount \in Nat /\ paid \in Int /\ wallet[DriverOf[r]] \in Int
      /\ Total \in Nat /\ Updated \in Nat /\ Payout \in Nat
    BY RideTypes, ConstantTypes DEF TypeOK, HoldRows, Statuses, Amounts
<1>2. CASE Unheld(r) /\ Holds(r)
    <2>1. [status |-> "ACTIVE", amount |-> Total] \in HoldRows
        BY DEF HoldRows, Statuses, Amounts
    <2>2. paid - Total \in Int
        BY <1>1
    <2>3. QED
        BY <1>1, <1>2, <2>1, <2>2 DEF Holds
<1>3. CASE Claims(r) /\ Releases(r)
    <2>1. [hold[r] EXCEPT !.status = "RELEASED"] \in HoldRows
        BY <1>1 DEF HoldRows, Statuses
    <2>2. paid + amount \in Int
        BY <1>1
    <2>3. hold' = [hold EXCEPT ![r] = [hold[r] EXCEPT !.status = "RELEASED"]]
        BY <1>3 DEF Releases
    <2>4. QED
        BY <1>1, <1>3, <2>1, <2>2, <2>3 DEF Releases
<1>4. CASE Adjusts(r)
    <2>1. [hold[r] EXCEPT !.amount = Updated] \in HoldRows
        BY <1>1 DEF HoldRows, Amounts
    <2>2. paid - (Updated - amount) \in Int
        BY <1>1
    <2>3. /\ hold' = [hold EXCEPT ![r] = [hold[r] EXCEPT !.amount = Updated]]
          /\ wallet' = [wallet EXCEPT ![RiderOf[r]] = paid - (Updated - amount)]
          /\ booked' = booked
        BY <1>4 DEF Adjusts
    <2>4. QED
        BY <1>1, <2>1, <2>2, <2>3
<1>5. CASE Completed(r)
    <2>1. CASE UNCHANGED ledger
        BY <1>1, <2>1 DEF ledger
    <2>2. CASE /\ hold' = [hold EXCEPT ![r].status = "CHARGED"]
               /\ wallet' = [wallet EXCEPT ![DriverOf[r]] = @ + Payout]
               /\ UNCHANGED booked
        <3>1. [hold[r] EXCEPT !.status = "CHARGED"] \in HoldRows
            BY <1>1 DEF HoldRows, Statuses
        <3>2. wallet[DriverOf[r]] + Payout \in Int
            BY <1>1
        <3>3. hold' = [hold EXCEPT ![r] = [hold[r] EXCEPT !.status = "CHARGED"]]
            BY <2>2
        <3>4. QED
            BY <1>1, <2>2, <3>1, <3>2, <3>3
    <2>3. QED
        BY <1>5, <2>1, <2>2 DEF Completed
<1>6. CASE UNCHANGED ledger
    BY <1>1, <1>6 DEF ledger
<1>7. QED
    BY <1>2, <1>3, <1>4, <1>5, <1>6

(* The step of a ride's messages is one of these. *)
LEMMA LedgerParts ==
    ASSUME NEW r \in Rides, LedgerStep(r)
    PROVE  \/ Unheld(r) /\ Holds(r)
           \/ Claims(r) /\ Releases(r)
           \/ Adjusts(r)
           \/ Completed(r)
           \/ UNCHANGED ledger
BY DEF LedgerStep, GatewayChecks, GatewayHolds, GatewayReleases, Publish, Assigned,
       AssignedHolds, RouteUpdated, Cancelled

LEMMA RideEventTypes ==
    ASSUME TypeOK, NEW r \in Rides, LedgerStep(r)
    PROVE  TypeOK'
<1>1. /\ wallet' \in [Users -> Int]
      /\ booked' \in [Refs -> Nat]
      /\ hold' \in [Rides -> HoldRows]
    BY LedgerParts, LedgerTypes
<1>2. /\ event' \in [Rides -> {"requested", "assigned", "updated", "completed",
                               "cancelled", "consumed"}]
      /\ consumer' \in [Rides -> Stages]
    BY DEF LedgerStep, GatewayChecks, GatewayHolds, GatewayReleases, Publish, Assigned,
           AssignedHolds, RouteUpdated, Adjusts, Completed, Cancelled,
           Done, Continue, stage, Stages, Legs, TypeOK
<1>3. checking' \subseteq Rides /\ purse' \subseteq Users
    <2>1. DriverOf[r] \in Users
        BY RideTypes
    <2>2. QED
        BY <2>1
        DEF LedgerStep, GatewayChecks, GatewayHolds, GatewayReleases, Publish, Assigned,
            AssignedHolds, RouteUpdated, Adjusts, Completed, Cancelled, stage, rows, TypeOK
<1>4. UNCHANGED <<rails, va, intake, sweep>>
    BY DEF LedgerStep, GatewayChecks, GatewayHolds, GatewayReleases, Publish, Assigned,
           AssignedHolds, RouteUpdated, Adjusts, Completed, Cancelled, rows
<1>5. QED
    BY <1>1, <1>2, <1>3, <1>4 DEF TypeOK, rails, intake, HoldRows, Statuses, Amounts

LEMMA CashTypes ==
    ASSUME TypeOK, NEW r \in Rides, CashStage(r)
    PROVE  TypeOK'
<1>1. /\ cash' \in [Accounts -> Nat]
      /\ accepted' \subseteq Legs \X Rides
      /\ notices' \in [Refs -> NoticeStates]
    <2>1. /\ RiderOf[r] \in Accounts /\ DriverOf[r] \in Accounts /\ Treasury \in Accounts
          /\ Total \in Nat /\ Payout \in Nat /\ hold[r].amount \in Nat
          /\ \A leg \in Legs : <<leg, r>> \in Legs \X Rides
          /\ "escrow" \in Legs /\ "payout" \in Legs /\ "refund" \in Legs
          /\ RiderOf[r] # Treasury /\ DriverOf[r] # Treasury
        BY RideTypes, ConstantTypes, CashRailsAssumption DEF Accounts, Legs
    <2>2. CASE UNCHANGED rails
        BY <2>2 DEF rails, TypeOK
    <2>3. CASE \/ Transfer(RiderOf[r], Treasury, Total, <<"escrow", r>>)
               \/ Transfer(Treasury, DriverOf[r], Payout, <<"payout", r>>)
               \/ Transfer(Treasury, RiderOf[r], hold[r].amount, <<"refund", r>>)
        BY <2>1, <2>3, TransferTyped
    <2>4. QED
        BY <2>2, <2>3
        DEF CashStage, Escrow, ReleaseToDriver, RefundToRider, CashRefused, ConsumerCrashes
<1>2. /\ event' \in [Rides -> {"requested", "assigned", "updated", "completed",
                               "cancelled", "consumed"}]
      /\ consumer' \in [Rides -> Stages]
    BY DEF CashStage, Escrow, ReleaseToDriver, RefundToRider, CashRefused, ConsumerCrashes, Done,
           Stages, TypeOK
<1>3. UNCHANGED <<rows, intake, ledger, checking, sweep>>
    BY DEF CashStage, Escrow, ReleaseToDriver, RefundToRider, CashRefused, ConsumerCrashes
<1>4. QED
    BY <1>1, <1>2, <1>3 DEF TypeOK, ledger, intake, rows

LEMMA AccountTypes ==
    ASSUME TypeOK, NEW u \in Users, AccountStep(u)
    PROVE  TypeOK'
<1>1. CASE OpensWallet(u) \/ CreateAccount(u) \/ SaveAccount(u)
    BY <1>1
    DEF OpensWallet, CreateAccount, SaveAccount, TypeOK, rails, intake, ledger, stage
<1>2. CASE SweepReads(u)
    <2>1. cash[u] \in Nat
        BY DEF TypeOK, Accounts
    <2>2. sweep' \in [Users -> Nat \cup {NotRead}]
        BY <1>2, <2>1 DEF SweepReads, TypeOK
    <2>3. QED
        BY <1>2, <2>2 DEF SweepReads, TypeOK, rails, rows, intake, ledger, stage
<1>3. CASE SweepPays(u)
    <2>1. /\ u \in Accounts /\ Treasury \in Accounts
          /\ cash \in [Accounts -> Nat] /\ cash[u] \in Nat /\ sweep[u] \in Nat
          /\ Fee \in Nat /\ ConfiguredFee \in Nat
        BY <1>3, ConstantTypes DEF Accounts, TypeOK, SweepPays
    <2>2. SweepAmount(u) \in Int
        BY <2>1 DEF SweepAmount
    <2>3. cash' \in [Accounts -> Nat]
        <3>1. CASE UNCHANGED cash
            BY <2>1, <3>1
        <3>2. CASE SweepAmount(u) > 0 /\ Moves(u, Treasury, SweepAmount(u))
            <4>1. PICK n \in Nat : n = SweepAmount(u)
                BY <2>2, <3>2
            <4>2. u # Treasury
                BY CashRailsAssumption
            <4>3. QED
                BY <2>1, <3>2, <4>1, <4>2, MovesTyped
        <3>3. QED
            BY <1>3, <3>1, <3>2 DEF SweepPays
    <2>4. sweep' \in [Users -> Nat \cup {NotRead}]
        BY <1>3 DEF SweepPays, TypeOK
    <2>5. QED
        BY <1>3, <2>3, <2>4 DEF SweepPays, TypeOK, rows, intake, ledger, stage
<1>4. QED
    BY <1>1, <1>2, <1>3 DEF AccountStep

LEMMA NextTypes == TypeOK /\ [Next]_vars => TypeOK'
<1> SUFFICES ASSUME TypeOK, [Next]_vars
             PROVE  TypeOK'
    OBVIOUS
<1>1. CASE UNCHANGED vars
    BY <1>1 DEF vars, TypeOK
<1>2. CASE Next
    BY <1>2, NextSteps, NoticeTypes, PaymentTypes, RideEventTypes, CashTypes, AccountTypes
<1>3. QED
    BY <1>1, <1>2

(* Every variable keeps its type: in particular no Pouch account goes      *)
(* below zero, whatever is redelivered (a wallet may, its balance being    *)
(* read before it is decremented).                                         *)
THEOREM TypeCorrect == Spec => []TypeOK
<1>1. QED
    BY InitTypes, NextTypes, PTL DEF Spec

-----------------------------------------------------------------------------
(***************************************************************************)
(* The cash of a ride                                                      *)
(***************************************************************************)

(* A state a hold settles in is not left. *)
Settled == {"CHARGED", "RELEASED"}

SettledStays(r) ==
    hold[r].status \in Settled => hold'[r] = hold[r]

(* Ride r is as it was, and its cash is where it was. *)
RideStill(r) ==
    /\ hold'[r] = hold[r] /\ consumer'[r] = consumer[r] /\ event'[r] = event[r]
    /\ \A leg \in Legs : <<leg, r>> \in accepted' <=> <<leg, r>> \in accepted

LEMMA StillKeeps ==
    ASSUME NEW r \in Rides, CashOf(r), RideStill(r)
    PROVE  CashOf(r)' /\ SettledStays(r)
BY DEF RideStill, CashOf, SettledStays, Legs

LEMMA LedgerCash ==
    ASSUME IInv, NEW r \in Rides, LedgerStep(r)
    PROVE  CashOf(r)' /\ SettledStays(r) /\ \A q \in Rides \ {r} : RideStill(q)
<1>1. /\ CashOf(r)
      /\ hold \in [Rides -> HoldRows] /\ hold[r] \in HoldRows
      /\ consumer \in [Rides -> Stages]
      /\ event \in [Rides -> {"requested", "assigned", "updated", "completed",
                              "cancelled", "consumed"}]
    BY RideTypes DEF IInv, CashInv, TypeOK, HoldRows, Statuses, Amounts
<1>2. accepted' = accepted
    BY DEF LedgerStep, GatewayChecks, GatewayHolds, GatewayReleases, Publish, Assigned,
           AssignedHolds, RouteUpdated, Adjusts, Completed, Cancelled, rails
<1>3. \A q \in Rides \ {r} :
          hold'[q] = hold[q] /\ consumer'[q] = consumer[q] /\ event'[q] = event[q]
    BY <1>1
    DEF LedgerStep, GatewayChecks, GatewayHolds, GatewayReleases, Publish, Assigned,
        AssignedHolds, RouteUpdated, Adjusts, Completed, Cancelled,
        Holds, Releases, Done, Continue, ledger, stage
<1>4. /\ [hold[r] EXCEPT !.status = "CHARGED"].status = "CHARGED"
      /\ [hold[r] EXCEPT !.status = "RELEASED"].status = "RELEASED"
      /\ [hold[r] EXCEPT !.amount = Updated].status = hold[r].status
      /\ [status |-> "ACTIVE", amount |-> Total].status = "ACTIVE"
    BY <1>1 DEF HoldRows
<1>5. CASE GatewayChecks(r) \/ Publish(r)
    BY <1>1, <1>2, <1>3, <1>5
    DEF GatewayChecks, Publish, ledger, CashOf, SettledStays, RideStill
<1>6. CASE GatewayHolds(r)
    BY <1>1, <1>2, <1>3, <1>4, <1>6
    DEF GatewayHolds, Unheld, Holds, ledger, CashOf, SettledStays, Settled, RideStill
<1>7. CASE GatewayReleases(r)
    BY <1>1, <1>2, <1>3, <1>4, <1>7
    DEF GatewayReleases, Claims, Releases, stage, CashOf, SettledStays, Settled, RideStill
<1>8. CASE Assigned(r) \/ RouteUpdated(r)
    BY <1>1, <1>2, <1>3, <1>8
    DEF Assigned, RouteUpdated, Done, Continue, ledger, CashOf, SettledStays, RideStill
<1>9. CASE AssignedHolds(r)
    BY <1>1, <1>2, <1>3, <1>4, <1>9
    DEF AssignedHolds, Unheld, Holds, Done, Continue, ledger, CashOf, SettledStays, Settled,
        RideStill
<1>10. CASE Adjusts(r)
    BY <1>1, <1>2, <1>3, <1>4, <1>10
    DEF Adjusts, Done, CashOf, SettledStays, Settled, RideStill
<1>11. CASE Completed(r)
    BY <1>1, <1>2, <1>3, <1>4, <1>11
    DEF Completed, Claims, Done, Continue, ledger, CashOf, SettledStays, Settled, RideStill
<1>12. CASE Cancelled(r)
    BY <1>1, <1>2, <1>3, <1>4, <1>12
    DEF Cancelled, Claims, Releases, Done, Continue, ledger, CashOf, SettledStays, Settled,
        RideStill
<1>13. QED
    BY <1>5, <1>6, <1>7, <1>8, <1>9, <1>10, <1>11, <1>12 DEF LedgerStep

LEMMA PayoutCash ==
    ASSUME IInv, NEW r \in Rides, CashStage(r)
    PROVE  CashOf(r)' /\ SettledStays(r) /\ \A q \in Rides \ {r} : RideStill(q)
<1>1. CashOf(r) /\ consumer \in [Rides -> Stages]
    BY DEF IInv, CashInv, TypeOK
<1>2. hold' = hold /\ consumer' = [consumer EXCEPT ![r] = "idle"]
    BY DEF CashStage, Escrow, ReleaseToDriver, RefundToRider, CashRefused, ConsumerCrashes,
           Done, ledger
<1>3. /\ accepted \subseteq accepted'
      /\ \/ accepted' = accepted
         \/ accepted' = accepted \cup {<<"escrow", r>>}
         \/ consumer[r] = "payout" /\ accepted' = accepted \cup {<<"payout", r>>}
         \/ consumer[r] = "refund" /\ accepted' = accepted \cup {<<"refund", r>>}
    BY DEF CashStage, Escrow, ReleaseToDriver, RefundToRider, CashRefused, ConsumerCrashes,
            Transfer, rails
<1>4. /\ <<"payout", r>> \in accepted' => <<"payout", r>> \in accepted \/ consumer[r] = "payout"
      /\ <<"refund", r>> \in accepted' => <<"refund", r>> \in accepted \/ consumer[r] = "refund"
    BY <1>3
<1>5. CashOf(r)' /\ SettledStays(r)
    BY <1>1, <1>2, <1>4 DEF CashOf, SettledStays
<1>6. event' = event \/ event' = [event EXCEPT ![r] = "consumed"]
    BY DEF CashStage, Escrow, ReleaseToDriver, RefundToRider, CashRefused, ConsumerCrashes, Done
<1>7. event \in [Rides -> {"requested", "assigned", "updated", "completed",
                          "cancelled", "consumed"}]
    BY DEF IInv, TypeOK
<1>8. ASSUME NEW q \in Rides \ {r}
      PROVE  RideStill(q)
    <2>1. hold'[q] = hold[q] /\ consumer'[q] = consumer[q]
        BY <1>1, <1>2
    <2>2. event'[q] = event[q]
        BY <1>6, <1>7
    <2>3. \A leg \in Legs : <<leg, q>> \in accepted' <=> <<leg, q>> \in accepted
        BY <1>3
    <2>4. QED
        BY <2>1, <2>2, <2>3 DEF RideStill
<1>9. QED
    BY <1>5, <1>8

LEMMA CashStep ==
    ASSUME IInv, [Next]_vars
    PROVE  CashInv' /\ \A r \in Rides : SettledStays(r)
<1>1. CASE \A r \in Rides : RideStill(r)
    BY <1>1, StillKeeps DEF IInv, CashInv
<1>2. ASSUME NEW r \in Rides, LedgerStep(r) \/ CashStage(r)
      PROVE  CashInv' /\ \A q \in Rides : SettledStays(q)
    <2>1. CashOf(r)' /\ SettledStays(r) /\ \A q \in Rides \ {r} : RideStill(q)
        BY <1>2, LedgerCash, PayoutCash
    <2>2. \A q \in Rides : CashOf(q)' /\ SettledStays(q)
        BY <2>1, StillKeeps DEF IInv, CashInv
    <2>3. QED
        BY <2>2 DEF CashInv
<1>3. ASSUME \/ \E ref \in Refs : NoticeStep(ref) \/ PaymentStep(ref)
             \/ \E u \in Users : AccountStep(u)
             \/ UNCHANGED vars
      PROVE  \A r \in Rides : RideStill(r)
    <2>1. UNCHANGED <<hold, consumer, event, accepted>>
        BY <1>3
        DEF NoticeStep, TransferArrives, Receive, ReceiveFails, Handle, HandlerThrows, ClearFails,
            GatewayDies, Redelivered, MarkerExpires, PaymentStep, ConsumePayment, PaymentFails,
            AccountStep, OpensWallet, CreateAccount, SaveAccount, SweepReads, SweepPays,
            ledger, rails, stage, vars
    <2>2. QED
        BY <2>1 DEF RideStill
<1>4. QED
    BY <1>1, <1>2, <1>3, NextSteps

-----------------------------------------------------------------------------
(***************************************************************************)
(* Where a credit comes from                                               *)
(***************************************************************************)

(* A reference nothing new happened to keeps its source. *)
LEMMA SourceStays ==
    ASSUME NEW ref \in Refs, SourceOf(ref), accepted \subseteq accepted',
           \/ booked[ref] > 0 \/ ref \in payments \/ notices[ref] # "none"
           \/ ref \in Deposits \/ ref \in accepted'
           \/ ~(booked'[ref] > 0 \/ ref \in payments' \/ notices'[ref] # "none")
    PROVE  SourceOf(ref)'
BY DEF SourceOf

LEMMA SourceStep ==
    ASSUME IInv, [Next]_vars
    PROVE  SourceInv'
<1> USE DEF IInv, SourceInv
<1>1. /\ notices \in [Refs -> NoticeStates] /\ booked \in [Refs -> Nat]
    BY DEF TypeOK
<1>2. ASSUME NEW ref \in Refs, NoticeStep(ref)
      PROVE  SourceInv'
    <2>1. accepted' = accepted /\ booked' = booked
        BY <1>2
        DEF NoticeStep, TransferArrives, Receive, ReceiveFails, Handle, HandlerThrows, ClearFails,
            GatewayDies, Redelivered, MarkerExpires, ledger, rails
    <2>2. \A q \in Refs \ {ref} : notices'[q] = notices[q] /\ (q \in payments' <=> q \in payments)
        BY <1>1, <1>2
        DEF NoticeStep, TransferArrives, Receive, ReceiveFails, Handle, HandlerThrows, ClearFails,
            GatewayDies, Redelivered, MarkerExpires, Publishes, rails, intake
    <2>3. \/ ref \in Deposits \/ notices[ref] # "none"
          \/ notices' = notices /\ payments' = payments
        BY <1>2
        DEF NoticeStep, TransferArrives, Receive, ReceiveFails, Handle, HandlerThrows, ClearFails,
            GatewayDies, Redelivered, MarkerExpires, Publishes, rails, intake
    <2>4. QED
        BY <2>1, <2>2, <2>3 DEF SourceOf
<1>3. ASSUME NEW ref \in Refs, PaymentStep(ref)
      PROVE  SourceInv'
    <2>1. /\ accepted' = accepted /\ notices' = notices /\ payments' \subseteq payments
          /\ ref \in payments
          /\ \A q \in Refs \ {ref} : booked'[q] = booked[q]
        BY <1>1, <1>3 DEF PaymentStep, ConsumePayment, PaymentFails, Deposited, Credit, rails
    <2>2. QED
        BY <2>1 DEF SourceOf
<1>4. ASSUME NEW r \in Rides, LedgerStep(r)
      PROVE  SourceInv'
    <2>1. UNCHANGED <<accepted, notices, payments, booked>>
        BY <1>4
        DEF LedgerStep, GatewayChecks, GatewayHolds, GatewayReleases, Publish, Assigned,
            AssignedHolds, RouteUpdated, Adjusts, Completed, Cancelled,
            Holds, Releases, rails, intake, ledger
    <2>2. QED
        BY <2>1 DEF SourceOf
<1>5. ASSUME NEW r \in Rides, CashStage(r)
      PROVE  SourceInv'
    <2>1. payments' = payments /\ booked' = booked
        BY <1>5
        DEF CashStage, Escrow, ReleaseToDriver, RefundToRider, CashRefused, ConsumerCrashes,
            intake, ledger
    <2>2. /\ accepted \subseteq accepted'
          /\ \A ref \in Refs : notices'[ref] # notices[ref] => ref \in accepted'
        BY <1>1, <1>5
        DEF CashStage, Escrow, ReleaseToDriver, RefundToRider, CashRefused, ConsumerCrashes,
            Transfer, rails
    <2>3. QED
        BY <2>1, <2>2 DEF SourceOf
<1>6. CASE (\E u \in Users : AccountStep(u)) \/ UNCHANGED vars
    <2>1. UNCHANGED <<accepted, notices, payments, booked>>
        BY <1>6
        DEF AccountStep, OpensWallet, CreateAccount, SaveAccount, SweepReads, SweepPays,
            rails, intake, ledger, vars
    <2>2. QED
        BY <2>1 DEF SourceOf
<1>7. QED
    BY <1>2, <1>3, <1>4, <1>5, <1>6, NextSteps

LEMMA InitInv == CashRailsInit => IInv
<1>1. CashRailsInit => CashInv /\ SourceInv
    BY DEF CashRailsInit, CashInv, CashOf, SourceInv, SourceOf
<1>2. QED
    BY <1>1, InitTypes DEF IInv

LEMMA Invariant == Spec => []IInv
<1>1. IInv /\ [Next]_vars => IInv'
    BY NextTypes, CashStep, SourceStep DEF IInv
<1>2. QED
    BY <1>1, InitInv, PTL DEF Spec

(* The treasury pays the driver of a ride only when its hold was charged,  *)
(* and its rider only when it was released: whichever of gateway and       *)
(* wallet-service settled the hold, and whatever is redelivered.           *)
THEOREM CashOnOneSide == Spec => []RideCashFollowsLedger
<1>1. IInv => RideCashFollowsLedger
    BY DEF IInv, CashInv, CashOf, RideCashFollowsLedger
<1>2. QED
    BY <1>1, Invariant, PTL

-----------------------------------------------------------------------------
(***************************************************************************)
(* The wallets                                                             *)
(***************************************************************************)

(* The columns of the sums are amounts. *)
Columns ==
    \A u \in Users :
        /\ Booked(u) \in [Refs -> 0..Most]
        /\ Earned(u) \in [Rides -> 0..Most]
        /\ Spent(u) \in [Rides -> 0..Most]

LEMMA ColumnTypes == TypeOK => Columns
<1> SUFFICES ASSUME TypeOK, NEW u \in Users
             PROVE  /\ Booked(u) \in [Refs -> 0..Most]
                    /\ Earned(u) \in [Rides -> 0..Most]
                    /\ Spent(u) \in [Rides -> 0..Most]
    BY DEF Columns
<1>1. 0 \in 0..Most /\ Payout \in 0..Most
    BY ConstantTypes
<1>2. \A ref \in Refs : AmountOf(ref) \in 0..Most
    BY AmountType
<1>3. \A r \in Rides : hold[r].amount \in 0..Most
    BY RideTypes, ConstantTypes
<1>4. Booked(u) \in [Refs -> 0..Most]
    BY <1>1, <1>2 DEF Booked
<1>5. Earned(u) \in [Rides -> 0..Most]
    BY <1>1 DEF Earned
<1>6. Spent(u) \in [Rides -> 0..Most]
    BY <1>1, <1>3 DEF Spent
<1>7. QED
    BY <1>4, <1>5, <1>6

LEMMA ColumnTypesNext == TypeOK' => Columns'
BY ColumnTypes, PTL

LEMMA FiniteRefs == IsFiniteSet(Rides) /\ IsFiniteSet(Refs) /\ Most \in Nat
<1>1. IsFiniteSet(Rides) /\ IsFiniteSet(Deposits)
    BY CashRailsAssumption
<1>2. IsFiniteSet({"escrow"}) /\ IsFiniteSet({"payout"}) /\ IsFiniteSet({"refund"})
    BY FS_Singleton
<1>3. IsFiniteSet({"escrow"} \cup {"payout"})
    BY <1>2, FS_Union
<1>4. IsFiniteSet(({"escrow"} \cup {"payout"}) \cup {"refund"})
    BY <1>2, <1>3, FS_Union
<1>5. Legs = ({"escrow"} \cup {"payout"}) \cup {"refund"}
    BY DEF Legs
<1>6. IsFiniteSet(Legs)
    BY <1>4, <1>5
<1>7. IsFiniteSet(Legs \X Rides)
    BY <1>1, <1>6, FS_Product
<1>8. IsFiniteSet(Deposits \cup (Legs \X Rides))
    BY <1>1, <1>7, FS_Union
<1>9. QED
    BY <1>1, <1>8, ConstantTypes DEF Refs

LEMMA SumTypes ==
    ASSUME TypeOK, NEW u \in Users
    PROVE  /\ Tally(Booked(u), Refs, Most) \in Int
           /\ Tally(Earned(u), Rides, Most) \in Int
           /\ Tally(Spent(u), Rides, Most) \in Int
<1>1. /\ Booked(u) \in [Refs -> 0..Most]
      /\ Earned(u) \in [Rides -> 0..Most]
      /\ Spent(u) \in [Rides -> 0..Most]
    BY ColumnTypes DEF Columns
<1>2. QED
    BY <1>1, FiniteRefs, TallyType

(* The amount behind a booked reference does not change any more. *)
LEMMA FixedAmount ==
    ASSUME IInv, [Next]_vars, NEW ref \in Refs, booked[ref] > 0
    PROVE  AmountOf(ref)' = AmountOf(ref)
<1>1. CASE ref \in Deposits
    BY <1>1 DEF AmountOf
<1>2. CASE ref \notin Deposits
    <2>1. PICK leg \in Legs, r \in Rides : ref = <<leg, r>>
        BY <1>2 DEF Refs
    <2>2. ref \in accepted /\ CashOf(r) /\ SettledStays(r)
        BY <1>2, CashStep DEF IInv, SourceInv, SourceOf, CashInv
    <2>3. ref[1] = leg /\ ref[2] = r /\ leg \in {"escrow", "payout", "refund"}
        BY <2>1 DEF Legs
    <2>4. leg = "refund" => hold'[r] = hold[r]
        BY <2>1, <2>2 DEF CashOf, SettledStays, Settled
    <2>5. QED
        BY <1>2, <2>3, <2>4 DEF AmountOf
<1>3. QED
    BY <1>1, <1>2

(* What one ride takes from a wallet or adds to it is what its hold says.  *)
RideMoney(r) ==
    /\ booked' = booked
    /\ \A q \in Rides \ {r} : hold'[q] = hold[q]
    /\ \A u \in Users :
          wallet'[u] + Spent(u)'[r] - Earned(u)'[r] = wallet[u] + Spent(u)[r] - Earned(u)[r]

(* What a reference adds to a wallet is its amount, the first time. *)
RefMoney(ref) ==
    /\ hold' = hold
    /\ booked[ref] = 0 /\ booked' = [booked EXCEPT ![ref] = 1]
    /\ \A u \in Users :
          wallet'[u] = wallet[u] + IF Recipient(ref) = u THEN AmountOf(ref) ELSE 0

LEMMA RideMoneyStep ==
    ASSUME IInv, NEW r \in Rides,
           \/ Unheld(r) /\ Holds(r)
           \/ Claims(r) /\ Releases(r)
           \/ Adjusts(r)
           \/ Completed(r)
    PROVE  UNCHANGED ledger \/ RideMoney(r)
<1> DEFINE amount == hold[r].amount
           rider == RiderOf[r]
           driver == DriverOf[r]
<1>1. /\ hold \in [Rides -> HoldRows] /\ hold[r] \in HoldRows
      /\ wallet \in [Users -> Int]
      /\ amount \in Nat /\ rider \in Users /\ driver \in Users
      /\ Total \in Nat /\ Updated \in Nat /\ Payout \in Nat
    BY RideTypes, ConstantTypes DEF IInv, TypeOK, HoldRows, Statuses, Amounts
<1>2. /\ [hold[r] EXCEPT !.status = "CHARGED"].status = "CHARGED"
      /\ [hold[r] EXCEPT !.status = "CHARGED"].amount = amount
      /\ [hold[r] EXCEPT !.status = "RELEASED"].status = "RELEASED"
      /\ [hold[r] EXCEPT !.amount = Updated].status = hold[r].status
      /\ [hold[r] EXCEPT !.amount = Updated].amount = Updated
    BY <1>1 DEF HoldRows
<1>3. \A u \in Users :
          /\ Spent(u)[r] = IF rider = u /\ hold[r].status \in {"ACTIVE", "CHARGED"}
                           THEN amount ELSE 0
          /\ Spent(u)'[r] = IF rider = u /\ hold'[r].status \in {"ACTIVE", "CHARGED"}
                            THEN hold'[r].amount ELSE 0
          /\ Earned(u)[r] = IF driver = u /\ hold[r].status = "CHARGED" THEN Payout ELSE 0
          /\ Earned(u)'[r] = IF driver = u /\ hold'[r].status = "CHARGED" THEN Payout ELSE 0
    BY DEF Spent, Earned
<1> HIDE DEF amount, rider, driver
<1>4. CASE Unheld(r) /\ Holds(r)
    <2>1. /\ hold[r].status = "NONE"
          /\ hold'[r].status = "ACTIVE" /\ hold'[r].amount = Total
          /\ \A q \in Rides \ {r} : hold'[q] = hold[q]
          /\ wallet' = [wallet EXCEPT ![rider] = @ - Total]
          /\ booked' = booked
        BY <1>1, <1>4 DEF Unheld, Holds, rider
    <2>2. \A u \in Users : wallet'[u] = wallet[u] - IF rider = u THEN Total ELSE 0
        BY <1>1, <2>1
    <2>3. QED
        BY <1>1, <1>3, <2>1, <2>2 DEF RideMoney
<1>5. CASE Claims(r) /\ Releases(r)
    <2>1. /\ hold[r].status = "ACTIVE"
          /\ hold'[r].status = "RELEASED"
          /\ \A q \in Rides \ {r} : hold'[q] = hold[q]
          /\ wallet' = [wallet EXCEPT ![rider] = @ + amount]
          /\ booked' = booked
        BY <1>1, <1>2, <1>5 DEF Claims, Releases, rider, amount
    <2>2. \A u \in Users : wallet'[u] = wallet[u] + IF rider = u THEN amount ELSE 0
        BY <1>1, <2>1
    <2>3. QED
        BY <1>1, <1>3, <2>1, <2>2 DEF RideMoney
<1>6. CASE Adjusts(r)
    <2>1. hold[r].status = "ACTIVE"
        BY <1>6 DEF Adjusts, IInv, CashInv, CashOf
    <2>2. /\ hold' = [hold EXCEPT ![r].amount = Updated]
          /\ wallet' = [wallet EXCEPT ![rider] = @ - (Updated - amount)]
          /\ booked' = booked
        BY <1>6 DEF Adjusts, rider, amount
    <2>3. /\ hold'[r].status = "ACTIVE" /\ hold'[r].amount = Updated
          /\ \A q \in Rides \ {r} : hold'[q] = hold[q]
        BY <1>1, <1>2, <2>1, <2>2
    <2>4. \A u \in Users : wallet'[u] = wallet[u] - IF rider = u THEN Updated - amount ELSE 0
        BY <1>1, <2>2
    <2>5. QED
        BY <1>1, <1>3, <2>1, <2>2, <2>3, <2>4 DEF RideMoney
<1>7. CASE Completed(r)
    <2>1. CASE UNCHANGED ledger
        BY <2>1
    <2>2. CASE ~UNCHANGED ledger
        <3>1. /\ hold[r].status = "ACTIVE"
              /\ hold' = [hold EXCEPT ![r].status = "CHARGED"]
              /\ wallet' = [wallet EXCEPT ![driver] = @ + Payout]
              /\ booked' = booked
            BY <1>7, <2>2 DEF Completed, Claims, driver
        <3>2. /\ hold'[r].status = "CHARGED" /\ hold'[r].amount = amount
              /\ \A q \in Rides \ {r} : hold'[q] = hold[q]
            BY <1>1, <1>2, <3>1
        <3>3. \A u \in Users : wallet'[u] = wallet[u] + IF driver = u THEN Payout ELSE 0
            BY <1>1, <3>1
        <3>4. QED
            BY <1>1, <1>3, <3>1, <3>2, <3>3 DEF RideMoney
    <2>3. QED
        BY <2>1, <2>2
<1>8. QED
    BY <1>4, <1>5, <1>6, <1>7

(* Every step leaves the ledger alone, moves the money of one ride, or     *)
(* books one reference.                                                    *)
LEMMA StepIsMove ==
    ASSUME IInv, [Next]_vars
    PROVE  \/ UNCHANGED ledger
           \/ \E r \in Rides : RideMoney(r)
           \/ \E ref \in Refs : RefMoney(ref)
<1>1. ASSUME NEW r \in Rides, LedgerStep(r)
      PROVE  UNCHANGED ledger \/ RideMoney(r)
    BY <1>1, LedgerParts, RideMoneyStep
<1>2. ASSUME NEW ref \in Refs, PaymentStep(ref)
      PROVE  UNCHANGED ledger \/ RefMoney(ref)
    <2>1. hold' = hold /\ (Credit(ref) \/ UNCHANGED <<wallet, booked>>)
        BY <1>2 DEF PaymentStep, ConsumePayment, PaymentFails, Deposited
    <2>2. CASE UNCHANGED <<wallet, booked>>
        BY <2>1, <2>2 DEF ledger
    <2>3. CASE Credit(ref) /\ Credits(ref)
        <3>1. /\ booked[ref] = 0 /\ booked' = [booked EXCEPT ![ref] = @ + 1]
              /\ wallet' = [wallet EXCEPT ![Recipient(ref)] = @ + AmountOf(ref)]
            BY <2>3 DEF Credit, Credits
        <3>2. wallet \in [Users -> Int] /\ AmountOf(ref) \in Nat /\ booked \in [Refs -> Nat]
            BY AmountType, ConstantTypes DEF IInv, TypeOK
        <3>3. booked' = [booked EXCEPT ![ref] = 1]
            BY <3>1, <3>2
        <3>4. \A u \in Users :
                  wallet'[u] = wallet[u] + IF Recipient(ref) = u THEN AmountOf(ref) ELSE 0
            BY <3>1, <3>2
        <3>5. QED
            BY <2>1, <3>1, <3>3, <3>4 DEF RefMoney
    <2>4. CASE Credit(ref) /\ ~Credits(ref)
        BY <2>1, <2>4 DEF Credit, ledger
    <2>5. QED
        BY <2>1, <2>2, <2>3, <2>4
<1>3. CASE \/ \E ref \in Refs : NoticeStep(ref)
           \/ \E r \in Rides : CashStage(r)
           \/ \E u \in Users : AccountStep(u)
           \/ UNCHANGED vars
    BY <1>3
    DEF NoticeStep, TransferArrives, Receive, ReceiveFails, Handle, HandlerThrows, ClearFails,
        GatewayDies, Redelivered, MarkerExpires,
        CashStage, Escrow, ReleaseToDriver, RefundToRider, CashRefused, ConsumerCrashes,
        AccountStep, OpensWallet, CreateAccount, SaveAccount, SweepReads, SweepPays, ledger, vars
<1>4. QED
    BY <1>1, <1>2, <1>3, NextSteps

-----------------------------------------------------------------------------

LEMMA InitBooked == CashRailsInit => TransfersBookedOnce
<1> SUFFICES ASSUME CashRailsInit
             PROVE  TransfersBookedOnce
    OBVIOUS
<1>1. \A ref \in Refs : booked[ref] <= 1
    BY DEF CashRailsInit
<1>2. ASSUME NEW u \in Users
      PROVE  wallet[u] + Tally(Spent(u), Rides, Most)
                 = Tally(Booked(u), Refs, Most) + Tally(Earned(u), Rides, Most)
    <2>1. /\ Spent(u) = [r \in Rides |-> 0] /\ Earned(u) = [r \in Rides |-> 0]
          /\ Booked(u) = [ref \in Refs |-> 0]
        BY DEF CashRailsInit, Spent, Earned, Booked
    <2>2. /\ Tally([r \in Rides |-> 0], Rides, Most) = 0
          /\ Tally([ref \in Refs |-> 0], Refs, Most) = 0
        BY TallyZero, ConstantTypes
    <2>3. wallet[u] = 0
        BY DEF CashRailsInit
    <2>4. QED
        BY <2>1, <2>2, <2>3
<1>3. QED
    BY <1>1, <1>2 DEF TransfersBookedOnce

(* Unless it is ref that is booked now, a reference is worth what it was.  *)
LEMMA BookedStays ==
    ASSUME IInv, [Next]_vars, NEW u \in Users, NEW ref \in Refs, booked'[ref] = booked[ref]
    PROVE  Booked(u)'[ref] = Booked(u)[ref]
<1>1. booked[ref] > 0 => AmountOf(ref)' = AmountOf(ref)
    BY FixedAmount
<1>2. QED
    BY <1>1 DEF Booked

(* What a ride changes of the two sums it changes of the balance. *)
LEMMA BalanceShifts ==
    \A w, v, a, b, c, s, t, e, f \in Int :
        w + a = c + b /\ v = w + s - e - t + f => v + (a - s + t) = c + (b - e + f)
OBVIOUS

LEMMA BookedStep ==
    ASSUME IInv, [Next]_vars, TransfersBookedOnce
    PROVE  TransfersBookedOnce'
<1> DEFINE spent(u) == Tally(Spent(u), Rides, Most)
           earned(u) == Tally(Earned(u), Rides, Most)
           got(u) == Tally(Booked(u), Refs, Most)
<1>1. /\ TypeOK /\ TypeOK'
      /\ booked \in [Refs -> Nat] /\ wallet \in [Users -> Int] /\ wallet' \in [Users -> Int]
    BY NextTypes DEF IInv, TypeOK
<1>2. \A u \in Users :
          /\ Booked(u) \in [Refs -> 0..Most] /\ Booked(u)' \in [Refs -> 0..Most]
          /\ Earned(u) \in [Rides -> 0..Most] /\ Earned(u)' \in [Rides -> 0..Most]
          /\ Spent(u) \in [Rides -> 0..Most] /\ Spent(u)' \in [Rides -> 0..Most]
    BY <1>1, ColumnTypes, ColumnTypesNext DEF Columns
<1>3. \A u \in Users : spent(u) \in Int /\ earned(u) \in Int /\ got(u) \in Int
    BY <1>1, SumTypes
<1>4. /\ \A ref \in Refs : booked[ref] <= 1
      /\ \A u \in Users : wallet[u] + spent(u) = got(u) + earned(u)
    BY DEF TransfersBookedOnce
<1>5. CASE UNCHANGED ledger
    <2>1. ASSUME NEW u \in Users
          PROVE  Spent(u)' = Spent(u) /\ Earned(u)' = Earned(u) /\ Booked(u)' = Booked(u)
        BY <1>5 DEF Spent, Earned, Booked, AmountOf, ledger
    <2>2. QED
        BY <1>4, <1>5, <2>1 DEF TransfersBookedOnce, ledger
<1>6. ASSUME NEW r \in Rides, RideMoney(r)
      PROVE  TransfersBookedOnce'
    <2>1. ASSUME NEW u \in Users
          PROVE  wallet'[u] + spent(u)' = got(u)' + earned(u)'
        <3> DEFINE s == Spent(u)
                   t == Spent(u)'
                   e == Earned(u)
                   f == Earned(u)'
        <3>1. \A q \in Rides : q # r => t[q] = s[q] /\ f[q] = e[q]
            BY <1>6 DEF RideMoney, Spent, Earned
        <3>2. Booked(u)' = Booked(u)
            <4>1. \A ref \in Refs : Booked(u)'[ref] = Booked(u)[ref]
                BY <1>6, BookedStays DEF RideMoney
            <4>2. QED
                BY <1>2, <4>1
        <3>3. wallet'[u] + t[r] - f[r] = wallet[u] + s[r] - e[r]
            BY <1>6 DEF RideMoney
        <3>4. /\ s \in [Rides -> 0..Most] /\ t \in [Rides -> 0..Most]
              /\ e \in [Rides -> 0..Most] /\ f \in [Rides -> 0..Most]
            BY <1>2
        <3> HIDE DEF s, t, e, f
        <3>5. DiffersAt(s, t, r, Rides, Most) /\ DiffersAt(e, f, r, Rides, Most)
            BY <3>1, <3>4, FiniteRefs, TallyAt
        <3>6. /\ Tally(t, Rides, Most) = Tally(s, Rides, Most) - s[r] + t[r]
              /\ Tally(f, Rides, Most) = Tally(e, Rides, Most) - e[r] + f[r]
            BY <3>5 DEF DiffersAt
        <3>7. /\ spent(u)' = spent(u) - s[r] + t[r] /\ earned(u)' = earned(u) - e[r] + f[r]
              /\ got(u)' = got(u)
            BY <3>2, <3>6 DEF s, t, e, f
        <3>8. s[r] \in Int /\ t[r] \in Int /\ e[r] \in Int /\ f[r] \in Int
            BY <3>4
        <3>9. /\ wallet[u] + spent(u) = got(u) + earned(u)
              /\ wallet[u] \in Int /\ wallet'[u] \in Int
              /\ spent(u) \in Int /\ earned(u) \in Int /\ got(u) \in Int
            BY <1>1, <1>3, <1>4
        <3>10. wallet'[u] = wallet[u] + s[r] - e[r] - t[r] + f[r]
            BY <3>3, <3>8, <3>9
        <3>11. wallet'[u] + (spent(u) - s[r] + t[r]) = got(u) + (earned(u) - e[r] + f[r])
            <4> HIDE DEF spent, earned, got
            <4>1. PICK w \in Int : w = wallet[u]
                BY <3>9
            <4>2. PICK v \in Int : v = wallet'[u]
                BY <3>9
            <4>3. PICK a \in Int : a = spent(u)
                BY <3>9
            <4>4. PICK b \in Int : b = earned(u)
                BY <3>9
            <4>5. PICK c \in Int : c = got(u)
                BY <3>9
            <4>6. PICK s0 \in Int : s0 = s[r]
                BY <3>8
            <4>7. PICK t0 \in Int : t0 = t[r]
                BY <3>8
            <4>8. PICK e0 \in Int : e0 = e[r]
                BY <3>8
            <4>9. PICK f0 \in Int : f0 = f[r]
                BY <3>8
            <4>10. w + a = c + b
                BY <3>9, <4>1, <4>3, <4>4, <4>5, Zenon
            <4>11. v = w + s0 - e0 - t0 + f0
                BY <3>10, <4>1, <4>2, <4>6, <4>7, <4>8, <4>9, Zenon
            <4>12. v + (a - s0 + t0) = c + (b - e0 + f0)
                BY <4>10, <4>11, BalanceShifts
            <4>13. QED
                BY <4>12, <4>2, <4>3, <4>4, <4>5, <4>6, <4>7, <4>8, <4>9, Zenon
        <3>12. QED
            BY <3>7, <3>11, Zenon
    <2>2. \A ref \in Refs : booked'[ref] <= 1
        BY <1>4, <1>6 DEF RideMoney
    <2>3. QED
        BY <2>1, <2>2 DEF TransfersBookedOnce
<1>7. ASSUME NEW ref \in Refs, RefMoney(ref)
      PROVE  TransfersBookedOnce'
    <2>1. ASSUME NEW u \in Users
          PROVE  wallet'[u] + spent(u)' = got(u)' + earned(u)'
        <3> DEFINE b == Booked(u)
                   c == Booked(u)'
        <3>1. Spent(u)' = Spent(u) /\ Earned(u)' = Earned(u)
            BY <1>7 DEF RefMoney, Spent, Earned
        <3>2. \A q \in Refs : q # ref => c[q] = b[q]
            BY <1>1, <1>7, BookedStays DEF RefMoney
        <3>3. b[ref] = 0 /\ c[ref] = IF Recipient(ref) = u THEN AmountOf(ref) ELSE 0
            <4>1. AmountOf(ref)' = AmountOf(ref) /\ booked[ref] = 0 /\ booked'[ref] = 1
                BY <1>1, <1>7 DEF RefMoney, AmountOf
            <4>2. QED
                BY <4>1 DEF Booked
        <3>4. wallet'[u] = wallet[u] + c[ref]
            BY <1>7, <3>3 DEF RefMoney
        <3>5. b \in [Refs -> 0..Most] /\ c \in [Refs -> 0..Most]
            BY <1>2
        <3> HIDE DEF b, c
        <3>6. DiffersAt(b, c, ref, Refs, Most)
            BY <3>2, <3>5, FiniteRefs, TallyAt
        <3>7. Tally(c, Refs, Most) = Tally(b, Refs, Most) - b[ref] + c[ref]
            BY <3>6 DEF DiffersAt
        <3>8. /\ got(u)' = got(u) - b[ref] + c[ref]
              /\ spent(u)' = spent(u) /\ earned(u)' = earned(u)
            BY <3>1, <3>7 DEF b, c
        <3>9. /\ c[ref] \in Int /\ wallet[u] \in Int
              /\ wallet[u] + spent(u) = got(u) + earned(u)
            BY <1>1, <1>4, <3>5
        <3> HIDE DEF spent, earned, got
        <3>10. QED
            BY <1>3, <3>3, <3>4, <3>8, <3>9
    <2>2. \A q \in Refs : booked'[q] <= 1
        BY <1>1, <1>4, <1>7 DEF RefMoney
    <2>3. QED
        BY <2>1, <2>2 DEF TransfersBookedOnce
<1>8. QED
    BY <1>1, <1>5, <1>6, <1>7, StepIsMove

(* However often Pouch reports a transfer and wallet-service gets its      *)
(* event, it is in the wallet of its owner once, and the wallet is what    *)
(* was transferred and earned less what is held or was charged.            *)
THEOREM EachTransferOnce == Spec => []TransfersBookedOnce
<1>1. IInv /\ TransfersBookedOnce /\ [Next]_vars => TransfersBookedOnce'
    BY BookedStep
<1>2. QED
    BY <1>1, InitBooked, Invariant, PTL DEF Spec

=============================================================================

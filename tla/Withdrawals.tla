---------------------------- MODULE Withdrawals ----------------------------
(***************************************************************************)
(* Bank withdrawals: packages/db/src/clients/withdrawal.client.ts and the  *)
(* callers that race on it.  The HTTP or WhatsApp handler reserves funds,  *)
(* asks Pouch for a payout, attaches it and publishes PAYOUT_CREATED; the  *)
(* payout's fate comes back by webhook, by the PAYOUT_CREATED consumer of  *)
(* payment-service, by the client polling the withdrawal, or by the        *)
(* reconciliation sweep.                                                   *)
(*                                                                         *)
(* A release or a settlement is one READ COMMITTED transaction: it reads   *)
(* the request with its reservation, then writes on the strength of what   *)
(* it read.  Workers hold the transactions that are between the two.       *)
(***************************************************************************)
EXTENDS Tally

CONSTANTS
    Users,
    Requests,   \* withdrawal requests
    UserOf,     \* whose request it is
    Amount,     \* requestedAmountNgn = reservedAmountNgn of each request
    Funds,      \* balance of each user before any withdrawal
    Workers,    \* callers that may be inside a transaction at the same time
    MaxAmount   \* bound on an amount

ASSUME WithdrawalsAssumption ==
    /\ IsFiniteSet(Requests)
    /\ UserOf \in [Requests -> Users]
    /\ MaxAmount \in Nat
    /\ Amount \in [Requests -> 0..MaxAmount]
    /\ Funds \in [Users -> Nat]

VARIABLES
    balance,        \* Wallet.balanceNgn
    locked,         \* Wallet.lockedNgn
    status,         \* WithdrawalRequest.status ("NONE": no row yet)
    reservation,    \* WalletReservation.status ("NONE": no row yet)
    attached,       \* requests with providerReference and pouchPayoutId set
    withdrawn,      \* requests with a WITHDRAWAL Transaction row
    route,          \* where the handler that creates the withdrawal is
    payout,         \* the payout as Pouch knows it
    webhook,        \* its final webhook: "none", "due" until answered 200, "over"
    hook,           \* the gateway's attempt at it: "idle" or "handling"
    marker,         \* requests whose webhook dedup key is set in Redis
    event,          \* the PAYOUT_CREATED event: "none", "pending", "handled"
    tx,             \* the transaction each worker is in
    raced           \* requests written on a reservation changed since it was read

money == <<balance, locked>>
rows == <<status, reservation, attached, withdrawn>>
hooks == <<webhook, hook, marker>>
vars == <<money, rows, route, payout, hooks, event, tx, raced>>

Statuses == {"NONE", "FUNDS_RESERVED", "PAYOUT_CREATED", "PROCESSING",
             "SETTLED", "FAILED"}
Reservations == {"NONE", "ACTIVE", "CONSUMED", "RELEASED"}
Routes == {"new", "checked", "refused", "reserved", "created", "attached",
           "failed", "refunded", "done", "crashed"}
Payouts == {"NONE", "PENDING", "PAID", "FAILED"}
Vias == {"route", "webhook", "sync"}

Idle == [op |-> "idle"]
Transactions ==
    [op : {"reserve"}, req : Requests]
        \cup [op : {"release", "settle"}, req : Requests, via : Vias,
              seen : Reservations]

Init ==
    /\ balance = Funds
    /\ locked = [u \in Users |-> 0]
    /\ status = [x \in Requests |-> "NONE"]
    /\ reservation = [x \in Requests |-> "NONE"]
    /\ attached = {}
    /\ withdrawn = {}
    /\ route = [x \in Requests |-> "new"]
    /\ payout = [x \in Requests |-> "NONE"]
    /\ webhook = [x \in Requests |-> "none"]
    /\ hook = [x \in Requests |-> "idle"]
    /\ marker = {}
    /\ event = [x \in Requests |-> "none"]
    /\ tx = [w \in Workers |-> Idle]
    /\ raced = {}

-----------------------------------------------------------------------------
(***************************************************************************)
(* withdrawal.client.ts                                                    *)
(***************************************************************************)
Step(x, from, to) == route[x] = from /\ route' = [route EXCEPT ![x] = to]
Begin(w, t) == tx[w] = Idle /\ tx' = [tx EXCEPT ![w] = t]
End(w) == tx' = [tx EXCEPT ![w] = Idle]

(* Faulty variants, each one slip in the code it stands for. *)
ReleasableAlways(seen) == TRUE
UnsettledAlways(x) == TRUE
InFlightCreatedOnly(x) == status[x] = "PAYOUT_CREATED" /\ x \in attached
OutcomePendingIsFailed(x) ==
    CASE payout[x] = "PAID" -> "settle" [] OTHER -> "release"

(* The reservation as the transaction read it allows a refund. *)
Releasable(seen) == seen = "ACTIVE"

(* Transaction is unique on wallet, type, direction and reference: the     *)
(* second settlement fails on it and rolls back.                           *)
Unsettled(x) == x \notin withdrawn

(* reserve: the balance is read and checked again, then decremented; not   *)
(* enough ends the request.                                                *)
BeginReserve(w, x) ==
    /\ route[x] = "checked"
    /\ \A v \in Workers : tx[v].op = "reserve" => tx[v].req # x
    /\ IF balance[UserOf[x]] >= Amount[x]
       THEN Begin(w, [op |-> "reserve", req |-> x]) /\ UNCHANGED route
       ELSE Step(x, "checked", "refused") /\ UNCHANGED tx
    /\ UNCHANGED <<money, rows, payout, hooks, event, raced>>

CommitReserve(w) ==
    /\ tx[w].op = "reserve"
    /\ LET x == tx[w].req
           u == UserOf[x]
       IN  /\ balance' = [balance EXCEPT ![u] = @ - Amount[x]]
           /\ locked' = [locked EXCEPT ![u] = @ + Amount[x]]
           /\ status' = [status EXCEPT ![x] = "FUNDS_RESERVED"]
           /\ reservation' = [reservation EXCEPT ![x] = "ACTIVE"]
           /\ route' = [route EXCEPT ![x] = "reserved"]
    /\ End(w)
    /\ UNCHANGED <<attached, withdrawn, payout, hooks, event, raced>>

(* releaseFailedRequest reads; a SETTLED request it leaves alone. *)
BeginRelease(w, x, via) ==
    Begin(w, [op |-> "release", req |-> x, via |-> via,
              seen |-> reservation[x]])

(* settle reads; a reservation that is not ACTIVE makes it throw. *)
BeginSettle(w, x, via) ==
    /\ reservation[x] = "ACTIVE"
    /\ Begin(w, [op |-> "settle", req |-> x, via |-> via,
                 seen |-> "ACTIVE"])

(* The webhook is over, or its dedup key is cleared for the retry. *)
Answer(x) ==
    /\ webhook' = [webhook EXCEPT ![x] = "over"]
    /\ hook' = [hook EXCEPT ![x] = "idle"]
    /\ UNCHANGED marker

Refuse(x) ==
    /\ hook' = [hook EXCEPT ![x] = "idle"]
    /\ marker' = marker \ {x}
    /\ UNCHANGED webhook

(* What the caller does when its transaction returns: the handler answers  *)
(* its 400, the webhook its 200, or, when the event it publishes then is   *)
(* not taken, an error after which Pouch tries again.                      *)
Return(x, via) ==
    /\ route' = IF via = "route" THEN [route EXCEPT ![x] = "refunded"] ELSE route
    /\ IF via = "webhook" THEN Answer(x) \/ Refuse(x) ELSE UNCHANGED hooks

(* A reservation read as ACTIVE is refunded without looking again, and the *)
(* request is failed whatever it has become.                               *)
CommitRelease(w) ==
    /\ tx[w].op = "release"
    /\ LET x == tx[w].req
           u == UserOf[x]
       IN  /\ IF Releasable(tx[w].seen)
              THEN /\ balance' = [balance EXCEPT ![u] = @ + Amount[x]]
                   /\ locked' = [locked EXCEPT ![u] = @ - Amount[x]]
                   /\ reservation' = [reservation EXCEPT ![x] = "RELEASED"]
                   /\ raced' = IF reservation[x] = tx[w].seen THEN raced ELSE raced \cup {x}
              ELSE UNCHANGED <<money, reservation, raced>>
           /\ status' = [status EXCEPT ![x] = "FAILED"]
           /\ Return(x, tx[w].via)
    /\ End(w)
    /\ UNCHANGED <<attached, withdrawn, payout, event>>

CommitSettle(w) ==
    /\ tx[w].op = "settle"
    /\ LET x == tx[w].req
       IN  /\ Unsettled(x)
           /\ locked' = [locked EXCEPT ![UserOf[x]] = @ - Amount[x]]
           /\ withdrawn' = withdrawn \cup {x}
           /\ reservation' = [reservation EXCEPT ![x] = "CONSUMED"]
           /\ status' = [status EXCEPT ![x] = "SETTLED"]
           /\ raced' = IF reservation[x] = tx[w].seen THEN raced ELSE raced \cup {x}
           /\ Return(x, tx[w].via)
    /\ End(w)
    /\ UNCHANGED <<balance, attached, payout, event>>

(* The unique Transaction row of a concurrent settlement: nothing is       *)
(* written, and the caller gets the settled request, or the error when a   *)
(* late release has failed it since.                                       *)
SettleDuplicate(w) ==
    /\ tx[w].op = "settle"
    /\ LET x == tx[w].req
       IN  /\ ~Unsettled(x)
           /\ \/ status[x] = "SETTLED" /\ Return(x, tx[w].via)
              \/ /\ status[x] # "SETTLED"
                 /\ IF tx[w].via = "webhook" THEN Refuse(x) ELSE UNCHANGED hooks
                 /\ UNCHANGED route
    /\ End(w)
    /\ UNCHANGED <<money, rows, payout, event, raced>>

(* A rollback: a lost connection, a write conflict.  The handler that      *)
(* could not reserve is over; one that could not refund gives up with the  *)
(* funds still locked; a webhook attempt that threw clears its marker.     *)
Abort(w) ==
    /\ tx[w] # Idle
    /\ LET x == tx[w].req
           via == IF tx[w].op = "reserve" THEN "route" ELSE tx[w].via
       IN  /\ route' = IF via = "route" THEN [route EXCEPT ![x] = "done"] ELSE route
           /\ IF via = "webhook" THEN Refuse(x) ELSE UNCHANGED hooks
    /\ End(w)
    /\ UNCHANGED <<money, rows, payout, event, raced>>

(* attachPayout, one conditional update: a request already failed or       *)
(* settled only gets the identifiers.                                      *)
AttachPayout(x) ==
    /\ attached' = attached \cup {x}
    /\ status' = IF status[x] = "FUNDS_RESERVED"
                 THEN [status EXCEPT ![x] = "PAYOUT_CREATED"] ELSE status

(* markProcessing, one conditional update by providerReference. *)
MarkProcessing(x) ==
    status' = IF x \in attached /\ status[x] \in {"FUNDS_RESERVED", "PAYOUT_CREATED"}
              THEN [status EXCEPT ![x] = "PROCESSING"] ELSE status

(* findStaleInFlight. *)
InFlight(x) == status[x] \in {"PAYOUT_CREATED", "PROCESSING"} /\ x \in attached

-----------------------------------------------------------------------------
(***************************************************************************)
(* The handler that creates a withdrawal (wallet.route.ts,                 *)
(* whatsapp.route.ts).  Any error after the reservation, the provider's or *)
(* its own, ends in a release of the reservation.                          *)
(***************************************************************************)
(* The amount against the minimum and the balance, and the virtual account *)
(* that pays against what it holds and the fee.                            *)
RouteChecks(x) ==
    /\ \/ balance[UserOf[x]] >= Amount[x] /\ Step(x, "new", "checked")
       \/ Step(x, "new", "refused")
    /\ UNCHANGED <<money, rows, payout, hooks, event, tx, raced>>

(* Pouch accepts, and the answer arrives. *)
RouteCreate(x) ==
    /\ Step(x, "reserved", "created")
    /\ payout' = [payout EXCEPT ![x] = "PENDING"]
    /\ UNCHANGED <<money, rows, hooks, event, tx, raced>>

(* createPayout throws: refused (also inside an HTTP 200), never sent, or  *)
(* accepted and timed out (a 408, which the client does not retry).        *)
RouteCreateFails(x) ==
    /\ Step(x, "reserved", "failed")
    /\ payout' \in {payout, [payout EXCEPT ![x] = "PENDING"],
                    [payout EXCEPT ![x] = "FAILED"]}
    /\ UNCHANGED <<money, rows, hooks, event, tx, raced>>

RouteAttach(x) ==
    /\ \/ Step(x, "created", "attached") /\ AttachPayout(x)
       \/ Step(x, "created", "failed") /\ UNCHANGED <<status, attached>>
    /\ UNCHANGED <<money, reservation, withdrawn, payout, hooks, event, tx, raced>>

RoutePublish(x) ==
    /\ \/ Step(x, "attached", "done") /\ event' = [event EXCEPT ![x] = "pending"]
       \/ Step(x, "attached", "failed") /\ UNCHANGED event
    /\ UNCHANGED <<money, rows, payout, hooks, tx, raced>>

RouteRelease(w, x) ==
    /\ route[x] = "failed"
    /\ \A v \in Workers : tx[v] # Idle /\ tx[v].op # "reserve" =>
           ~(tx[v].req = x /\ tx[v].via = "route")
    /\ IF status[x] = "SETTLED"
       THEN Step(x, "failed", "refunded") /\ UNCHANGED tx
       ELSE BeginRelease(w, x, "route") /\ UNCHANGED route
    /\ UNCHANGED <<money, rows, payout, hooks, event, raced>>

(* The gateway dies in the middle of the handler. *)
RouteCrash(x) ==
    /\ route[x] \in {"reserved", "created", "attached", "failed"}
    /\ \A v \in Workers : tx[v] # Idle => tx[v].req # x
    /\ route' = [route EXCEPT ![x] = "crashed"]
    /\ UNCHANGED <<money, rows, payout, hooks, event, tx, raced>>

-----------------------------------------------------------------------------
(***************************************************************************)
(* Pouch and its webhook (pouch.route.ts).                                 *)
(***************************************************************************)
Finalize(x) ==
    /\ payout[x] = "PENDING" \/ (payout[x] = "FAILED" /\ webhook[x] = "none")
    /\ payout' \in {[payout EXCEPT ![x] = o] :
                       o \in IF payout[x] = "PENDING" THEN {"PAID", "FAILED"} ELSE {"FAILED"}}
    /\ webhook' = [webhook EXCEPT ![x] = "due"]
    /\ UNCHANGED <<money, rows, route, hook, marker, event, tx, raced>>

(* A delivery sets the dedup key before it is handled ... *)
WebhookArrives(x) ==
    /\ webhook[x] = "due" /\ x \notin marker
    /\ hook[x] = "idle"
    /\ marker' = marker \cup {x}
    /\ hook' = [hook EXCEPT ![x] = "handling"]
    /\ UNCHANGED <<money, rows, route, payout, webhook, event, tx, raced>>

(* ... and one that finds it set is answered 200 as a duplicate. *)
WebhookSkipped(x) ==
    /\ webhook[x] = "due" /\ x \in marker
    /\ webhook' = [webhook EXCEPT ![x] = "over"]
    /\ UNCHANGED <<money, rows, route, payout, hook, marker, event, tx, raced>>

Handling(x) ==
    /\ hook[x] = "handling"
    /\ \A v \in Workers : tx[v].op \in {"release", "settle"} =>
           ~(tx[v].req = x /\ tx[v].via = "webhook")

(* payout.success: no request by that reference is taken for a treasury    *)
(* sweep and acknowledged.                                                 *)
HandleSuccess(w, x) ==
    /\ Handling(x) /\ payout[x] = "PAID"
    /\ \/ x \notin attached /\ Answer(x) /\ UNCHANGED tx
       \/ x \in attached /\ status[x] = "SETTLED" /\ (Answer(x) \/ Refuse(x)) /\ UNCHANGED tx
       \/ /\ x \in attached /\ status[x] # "SETTLED"
          /\ IF reservation[x] = "ACTIVE"
             THEN BeginSettle(w, x, "webhook") /\ UNCHANGED hooks
             ELSE Refuse(x) /\ UNCHANGED tx
    /\ UNCHANGED <<money, rows, route, payout, event, raced>>

(* payout.failed: no request by that reference is an error, so that Pouch  *)
(* tries again after attachPayout.                                         *)
HandleFailure(w, x) ==
    /\ Handling(x) /\ payout[x] = "FAILED"
    /\ \/ x \notin attached /\ Refuse(x) /\ UNCHANGED tx
       \/ x \in attached /\ status[x] = "SETTLED" /\ (Answer(x) \/ Refuse(x)) /\ UNCHANGED tx
       \/ /\ x \in attached /\ status[x] # "SETTLED"
          /\ BeginRelease(w, x, "webhook") /\ UNCHANGED hooks
    /\ UNCHANGED <<money, rows, route, payout, event, raced>>

(* The gateway dies while it handles the webhook: the dedup key stays. *)
WebhookCrash(x) ==
    /\ Handling(x)
    /\ hook' = [hook EXCEPT ![x] = "idle"]
    /\ UNCHANGED <<money, rows, route, payout, webhook, marker, event, tx, raced>>

(* Pouch stops retrying, or the webhook never arrives. *)
WebhookLost(x) ==
    /\ webhook[x] = "due" /\ hook[x] = "idle"
    /\ webhook' = [webhook EXCEPT ![x] = "over"]
    /\ UNCHANGED <<money, rows, route, payout, hook, marker, event, tx, raced>>

-----------------------------------------------------------------------------
(***************************************************************************)
(* Everyone else asks Pouch for the payout and applies the answer:         *)
(* payment-service on PAYOUT_CREATED, the client that polls its            *)
(* withdrawal, the sweep.                                                  *)
(***************************************************************************)
Outcome(x) ==
    CASE payout[x] = "PAID" -> "settle"
      [] payout[x] = "FAILED" -> "release"
      [] OTHER -> "processing"

Sync(w, x) ==
    /\ x \in attached
    /\ \/ Outcome(x) = "settle" /\ BeginSettle(w, x, "sync") /\ UNCHANGED status
       \/ /\ Outcome(x) = "release" /\ status[x] # "SETTLED"
          /\ BeginRelease(w, x, "sync") /\ UNCHANGED status
       \/ Outcome(x) = "processing" /\ MarkProcessing(x) /\ UNCHANGED tx

(* A settlement that finds nothing to settle, or an error on the way, is   *)
(* logged and the event is consumed all the same.                          *)
HandlePayoutCreated(w, x) ==
    /\ event[x] = "pending"
    /\ event' = [event EXCEPT ![x] = "handled"]
    /\ Sync(w, x) \/ UNCHANGED <<status, tx>>
    /\ UNCHANGED <<money, reservation, attached, withdrawn, route, payout, hooks, raced>>

Poll(w, x) ==
    /\ Sync(w, x)
    /\ UNCHANGED <<money, reservation, attached, withdrawn, route, payout, hooks, event, raced>>

Sweep(w, x) ==
    /\ InFlight(x)
    /\ Sync(w, x)
    /\ UNCHANGED <<money, reservation, attached, withdrawn, route, payout, hooks, event, raced>>

-----------------------------------------------------------------------------

Next ==
    \/ \E x \in Requests :
          \/ RouteChecks(x) \/ RouteCreate(x) \/ RouteCreateFails(x)
          \/ RouteAttach(x) \/ RoutePublish(x) \/ RouteCrash(x)
          \/ Finalize(x)
          \/ WebhookArrives(x) \/ WebhookSkipped(x)
          \/ WebhookCrash(x) \/ WebhookLost(x)
          \/ \E w \in Workers :
                \/ BeginReserve(w, x)
                \/ RouteRelease(w, x)
                \/ HandleSuccess(w, x) \/ HandleFailure(w, x)
                \/ HandlePayoutCreated(w, x) \/ Poll(w, x) \/ Sweep(w, x)
    \/ \E w \in Workers :
          \/ CommitReserve(w) \/ CommitRelease(w) \/ CommitSettle(w)
          \/ SettleDuplicate(w) \/ Abort(w)

Spec == Init /\ [][Next]_vars

(* The sweep is a timer of payment-service: it comes back to a request as  *)
(* long as it is in flight.  A transaction begun again and again for a     *)
(* request commits in the end: the database is not down for ever.          *)
CommitFor(w, x) ==
    /\ tx[w].op \in {"release", "settle"} /\ tx[w].req = x
    /\ CommitRelease(w) \/ CommitSettle(w) \/ SettleDuplicate(w)

Fairness ==
    \A x \in Requests :
        /\ SF_vars(\E w \in Workers : Sweep(w, x))
        /\ SF_vars(\E w \in Workers : CommitFor(w, x))
        /\ \A w \in Workers : WF_vars(tx[w].op = "reserve" /\ CommitReserve(w))

FairSpec == Spec /\ Fairness

-----------------------------------------------------------------------------

TypeOK ==
    /\ balance \in [Users -> Int]
    /\ locked \in [Users -> Int]
    /\ status \in [Requests -> Statuses]
    /\ reservation \in [Requests -> Reservations]
    /\ attached \in SUBSET Requests
    /\ withdrawn \in SUBSET Requests
    /\ route \in [Requests -> Routes]
    /\ payout \in [Requests -> Payouts]
    /\ webhook \in [Requests -> {"none", "due", "over"}]
    /\ hook \in [Requests -> {"idle", "handling"}]
    /\ marker \in SUBSET Requests
    /\ event \in [Requests -> {"none", "pending", "handled"}]
    /\ tx \in [Workers -> Transactions \cup {Idle}]
    /\ raced \in SUBSET Requests

Reserved(u) ==
    [x \in Requests |-> IF UserOf[x] = u /\ reservation[x] = "ACTIVE"
                        THEN Amount[x] ELSE 0]
Withdrawn(u) ==
    [x \in Requests |-> IF UserOf[x] = u /\ x \in withdrawn THEN Amount[x] ELSE 0]

(* lockedNgn is the sum of the ACTIVE reservations, for every user none of *)
(* whose requests was written on a reservation that had changed since it   *)
(* was read.                                                               *)
LockedBacksReservations ==
    \A u \in Users :
        (\A x \in raced : UserOf[x] # u) =>
            locked[u] = Tally(Reserved(u), Requests, MaxAmount)

(* However releases and settlements race, a user's balance, locked funds   *)
(* and WITHDRAWAL transactions add up to what it had: two settlements of   *)
(* one payout debit it once.                                               *)
WithdrawalMoneyConserved ==
    \A u \in Users :
        balance[u] + locked[u] + Tally(Withdrawn(u), Requests, MaxAmount) = Funds[u]

(* A payout that left the bank is not refunded, unless the handler that    *)
(* asked for it released the reservation on an error of its own, and a     *)
(* failed one is never taken for a withdrawal.                             *)
PaidIsNotRefunded ==
    \A x \in Requests :
        /\ payout[x] = "PAID" /\ route[x] \notin {"failed", "refunded"}
               => reservation[x] # "RELEASED"
        /\ payout[x] = "FAILED" => x \notin withdrawn

(* A payout whose fate is known, attached to its request, is settled or    *)
(* refunded in the end, whichever webhooks are lost, skipped or answered   *)
(* too early, and wherever the gateway dies.                               *)
KnownFateIsApplied ==
    \A x \in Requests :
        (x \in attached /\ payout[x] \in {"PAID", "FAILED"})
            ~> reservation[x] # "ACTIVE"

(* The withdrawals keep the promise of BankTransfers, whichever callers    *)
(* release, settle, retry or die: every step sets aside, returns or pays   *)
(* the amount of one request, or is the bank's, or leaves them all alone.  *)
OutcomeOf(x) ==
    IF x \in raced THEN "CONTESTED"
    ELSE CASE reservation[x] = "NONE" -> "OPEN"
           [] reservation[x] = "ACTIVE" -> "ASIDE"
           [] reservation[x] = "RELEASED" -> "RETURNED"
           [] reservation[x] = "CONSUMED" -> "PAID"

Transfers == INSTANCE BankTransfers WITH
    spendable <- balance,
    held <- [u \in Users |-> balance[u] + locked[u]],
    outcome <- [x \in Requests |-> OutcomeOf(x)],
    debited <- withdrawn,
    bank <- payout

KeepsTransferContract == Transfers!Spec
=============================================================================

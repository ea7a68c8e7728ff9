------------------------- MODULE Withdrawals_proofs -------------------------
(***************************************************************************)
(* For every set of users, requests, amounts and callers: the types of     *)
(* Withdrawals, its two money invariants, PaidIsNotRefunded, and that it   *)
(* implements BankTransfers.                                               *)
(***************************************************************************)
EXTENDS Withdrawals, TallyTheorems

(* What an open transaction has read and was asked for. *)
LEMMA TxFields ==
    ASSUME TypeOK, NEW w \in Workers
    PROVE  /\ tx[w] # Idle <=> tx[w].op # "idle"
           /\ tx[w].op \in {"idle", "reserve", "release", "settle"}
           /\ tx[w].op # "idle" => tx[w].req \in Requests /\ UserOf[tx[w].req] \in Users
           /\ tx[w].op \in {"release", "settle"} =>
                  tx[w].via \in Vias /\ tx[w].seen \in Reservations
<1>1. tx[w] \in Transactions \cup {Idle}
    BY DEF TypeOK
<1>2. CASE tx[w] = Idle
    BY <1>2 DEF Idle
<1>3. CASE tx[w] \in Transactions
    BY <1>3, WithdrawalsAssumption DEF Transactions, Idle
<1>4. QED
    BY <1>1, <1>2, <1>3

-----------------------------------------------------------------------------
(***************************************************************************)
(* Who may be at a request when, and what a transaction may count on when  *)
(* it commits.  A handler that has not reserved has no reservation, one    *)
(* that has not asked Pouch no payout; one transaction of the handler at a *)
(* time is open for a request; a settlement was begun for a payout that is *)
(* PAID, a release for one that FAILED or for the handler's own error; a   *)
(* payout that is PAID or FAILED stays so.                                 *)
(***************************************************************************)
Unreserved == {"new", "checked", "refused"}

RouteSound ==
    \A x \in Requests :
        /\ route[x] \in Unreserved => reservation[x] = "NONE"
        /\ route[x] \in Unreserved \cup {"reserved"} => payout[x] = "NONE"

(* The transaction is the withdrawal handler's own. *)
OfHandler(t) == t.op = "reserve" \/ (t.op \in {"release", "settle"} /\ t.via = "route")

TxSound ==
    \A w \in Workers :
        LET t == tx[w]
        IN  /\ t.op = "reserve" => route[t.req] = "checked"
            /\ t.op \in {"release", "settle"} =>
                  /\ t.via = "route" => t.op = "release" /\ route[t.req] = "failed"
                  /\ t.seen = "ACTIVE" => reservation[t.req] # "NONE"
            /\ t.op = "release" /\ t.via # "route" => payout[t.req] = "FAILED"
            /\ t.op = "settle" => t.seen = "ACTIVE" /\ payout[t.req] = "PAID"

OneHandler ==
    \A v, w \in Workers :
        OfHandler(tx[v]) /\ OfHandler(tx[w]) /\ tx[v].req = tx[w].req => v = w

FateSound ==
    \A x \in Requests :
        /\ x \in withdrawn => payout[x] = "PAID"
        /\ reservation[x] = "RELEASED" => payout[x] = "FAILED" \/ route[x] = "refunded"

Control == RouteSound /\ TxSound /\ OneHandler /\ FateSound

IInv == TypeOK /\ Control

-----------------------------------------------------------------------------

LEMMA InitTypeOK == Init => TypeOK
BY WithdrawalsAssumption DEF Init, TypeOK, Statuses, Reservations, Routes, Payouts

(* The columns and the handlers' places, apart from the open transactions. *)
TxTyped == tx \in [Workers -> Transactions \cup {Idle}]
HooksTyped ==
    /\ webhook \in [Requests -> {"none", "due", "over"}]
    /\ hook \in [Requests -> {"idle", "handling"}]
    /\ marker \in SUBSET Requests

LEMMA BeginTyped ==
    ASSUME TypeOK, NEW w \in Workers, NEW x \in Requests,
           \/ Begin(w, [op |-> "reserve", req |-> x])
           \/ \E via \in Vias : BeginRelease(w, x, via) \/ BeginSettle(w, x, via)
           \/ End(w)
           \/ UNCHANGED tx
    PROVE  TxTyped'
<1>1. reservation[x] \in Reservations /\ "ACTIVE" \in Reservations
    BY DEF TypeOK, Reservations
<1>2. ASSUME NEW t \in Transactions, Begin(w, t)
      PROVE  TxTyped'
    BY <1>2 DEF TypeOK, TxTyped, Begin
<1>3. CASE Begin(w, [op |-> "reserve", req |-> x])
    <2>1. [op |-> "reserve", req |-> x] \in Transactions
        BY DEF Transactions
    <2>2. QED
        BY <1>2, <1>3, <2>1
<1>4. ASSUME NEW via \in Vias, BeginRelease(w, x, via) \/ BeginSettle(w, x, via)
      PROVE  TxTyped'
    <2>1. /\ [op |-> "release", req |-> x, via |-> via, seen |-> reservation[x]] \in Transactions
          /\ [op |-> "settle", req |-> x, via |-> via, seen |-> "ACTIVE"] \in Transactions
        BY <1>1 DEF Transactions
    <2>2. QED
        BY <1>2, <1>4, <2>1 DEF BeginRelease, BeginSettle
<1>5. CASE End(w) \/ UNCHANGED tx
    BY <1>5 DEF TypeOK, TxTyped, End
<1>6. QED
    BY <1>3, <1>4, <1>5

LEMMA HooksStayTyped ==
    ASSUME TypeOK, NEW x \in Requests, Answer(x) \/ Refuse(x) \/ UNCHANGED hooks
    PROVE  HooksTyped'
BY DEF TypeOK, HooksTyped, Answer, Refuse, hooks

LEMMA ReturnTyped ==
    ASSUME TypeOK, NEW x \in Requests, NEW via \in Vias, Return(x, via)
    PROVE  HooksTyped' /\ route' \in [Requests -> Routes]
<1>1. HooksTyped'
    BY HooksStayTyped DEF Return
<1>2. route' \in [Requests -> Routes]
    BY DEF TypeOK, Return, Routes
<1>3. QED
    BY <1>1, <1>2

(* Everyone who asks Pouch only begins a transaction or marks the request. *)
LEMMA SyncTyped ==
    ASSUME TypeOK, NEW w \in Workers, NEW x \in Requests, Sync(w, x)
    PROVE  TxTyped' /\ status' \in [Requests -> Statuses]
<1>1. "sync" \in Vias
    BY DEF Vias
<1>2. TxTyped'
    BY <1>1, BeginTyped DEF Sync
<1>3. status' \in [Requests -> Statuses]
    BY DEF TypeOK, Sync, MarkProcessing, Statuses
<1>4. QED
    BY <1>2, <1>3

(* Every step of a request's handler, of its webhook and of Pouch. *)
LEMMA RequestStepTyped ==
    ASSUME TypeOK, NEW x \in Requests,
           \/ RouteChecks(x) \/ RouteCreate(x) \/ RouteCreateFails(x)
           \/ RouteAttach(x) \/ RoutePublish(x) \/ RouteCrash(x)
           \/ Finalize(x)
           \/ WebhookArrives(x) \/ WebhookSkipped(x)
           \/ WebhookCrash(x) \/ WebhookLost(x)
    PROVE  TypeOK'
<1> USE DEF TypeOK, money, rows, hooks
<1>1. CASE RouteChecks(x)
    BY <1>1 DEF RouteChecks, Step, Routes
<1>2. CASE RouteCreate(x)
    BY <1>2 DEF RouteCreate, Step, Routes, Payouts
<1>3. CASE RouteCreateFails(x)
    BY <1>3 DEF RouteCreateFails, Step, Routes, Payouts
<1>4. CASE RouteAttach(x)
    BY <1>4 DEF RouteAttach, AttachPayout, Step, Routes, Statuses
<1>5. CASE RoutePublish(x)
    BY <1>5 DEF RoutePublish, Step, Routes
<1>6. CASE RouteCrash(x)
    BY <1>6 DEF RouteCrash, Routes
<1>7. CASE Finalize(x)
    BY <1>7 DEF Finalize, Payouts
<1>8. CASE WebhookArrives(x)
    BY <1>8 DEF WebhookArrives
<1>9. CASE WebhookSkipped(x)
    BY <1>9 DEF WebhookSkipped
<1>10. CASE WebhookCrash(x)
    BY <1>10 DEF WebhookCrash
<1>11. CASE WebhookLost(x)
    BY <1>11 DEF WebhookLost
<1>12. QED
    BY <1>1, <1>2, <1>3, <1>4, <1>5, <1>6, <1>7, <1>8, <1>9, <1>10, <1>11

(* Every step that begins a transaction. *)
LEMMA BeginStepTyped ==
    ASSUME TypeOK, NEW w \in Workers, NEW x \in Requests,
           \/ BeginReserve(w, x) \/ RouteRelease(w, x)
           \/ HandleSuccess(w, x) \/ HandleFailure(w, x)
           \/ HandlePayoutCreated(w, x) \/ Poll(w, x) \/ Sweep(w, x)
    PROVE  TypeOK'
<1>1. "route" \in Vias /\ "webhook" \in Vias
    BY DEF Vias
<1>2. CASE BeginReserve(w, x)
    <2>1. TxTyped'
        BY <1>2, BeginTyped DEF BeginReserve
    <2>2. QED
        BY <1>2, <2>1 DEF BeginReserve, Step, TypeOK, TxTyped, money, rows, hooks, Routes
<1>3. CASE RouteRelease(w, x)
    <2>1. TxTyped'
        BY <1>1, <1>3, BeginTyped DEF RouteRelease
    <2>2. QED
        BY <1>3, <2>1 DEF RouteRelease, Step, TypeOK, TxTyped, money, rows, hooks, Routes
<1>4. CASE HandleSuccess(w, x) \/ HandleFailure(w, x)
    <2>1. TxTyped'
        BY <1>1, <1>4, BeginTyped DEF HandleSuccess, HandleFailure
    <2>2. HooksTyped'
        BY <1>4, HooksStayTyped DEF HandleSuccess, HandleFailure
    <2>3. UNCHANGED <<money, rows, route, payout, event, raced>>
        BY <1>4 DEF HandleSuccess, HandleFailure
    <2>4. QED
        BY <2>1, <2>2, <2>3 DEF TypeOK, TxTyped, HooksTyped, money, rows
<1>5. CASE HandlePayoutCreated(w, x) \/ Poll(w, x) \/ Sweep(w, x)
    <2>1. TxTyped' /\ status' \in [Requests -> Statuses]
        <3>1. CASE Sync(w, x)
            BY <3>1, SyncTyped
        <3>2. CASE UNCHANGED <<status, tx>>
            BY <3>2 DEF TypeOK, TxTyped
        <3>3. QED
            BY <1>5, <3>1, <3>2 DEF HandlePayoutCreated, Poll, Sweep
    <2>2. /\ UNCHANGED <<money, reservation, attached, withdrawn, route, payout, hooks, raced>>
          /\ event' \in [Requests -> {"none", "pending", "handled"}]
        BY <1>5 DEF HandlePayoutCreated, Poll, Sweep, TypeOK
    <2>3. QED
        BY <2>1, <2>2 DEF TypeOK, TxTyped, money, hooks
<1>6. QED
    BY <1>2, <1>3, <1>4, <1>5

(* Every step that ends one. *)
LEMMA CommitStepTyped ==
    ASSUME TypeOK, NEW w \in Workers,
           \/ CommitReserve(w) \/ CommitRelease(w) \/ CommitSettle(w)
           \/ SettleDuplicate(w) \/ Abort(w)
    PROVE  TypeOK'
<1> DEFINE x == tx[w].req
<1>1. x \in Requests /\ UserOf[x] \in Users /\ Amount[x] \in Int
    <2>1. tx[w].op # "idle"
        BY TxFields DEF CommitReserve, CommitRelease, CommitSettle, SettleDuplicate, Abort
    <2>2. x \in Requests /\ UserOf[x] \in Users
        BY <2>1, TxFields
    <2>3. QED
        BY <2>2, WithdrawalsAssumption
<1>2. TxTyped'
    <2>1. End(w)
        BY DEF CommitReserve, CommitRelease, CommitSettle, SettleDuplicate, Abort
    <2>2. QED
        BY <1>1, <2>1, BeginTyped
<1>3. tx[w].op \in {"release", "settle"} => tx[w].via \in Vias
    BY TxFields
<1> HIDE DEF x
<1>4. CASE CommitReserve(w)
    BY <1>1, <1>2, <1>4
    DEF CommitReserve, TypeOK, TxTyped, hooks, Routes, Statuses, Reservations, x
<1>5. CASE CommitRelease(w)
    <2>1. Return(x, tx[w].via)
        BY <1>5 DEF CommitRelease, x
    <2>2. HooksTyped' /\ route' \in [Requests -> Routes]
        BY <1>1, <1>3, <1>5, <2>1, ReturnTyped DEF CommitRelease
    <2>3. /\ balance' \in [Users -> Int] /\ locked' \in [Users -> Int]
          /\ status' \in [Requests -> Statuses]
          /\ reservation' \in [Requests -> Reservations]
          /\ raced' \in SUBSET Requests
        BY <1>1, <1>5 DEF CommitRelease, TypeOK, money, Statuses, Reservations, x
    <2>4. UNCHANGED <<attached, withdrawn, payout, event>>
        BY <1>5 DEF CommitRelease
    <2>5. QED
        BY <1>2, <2>2, <2>3, <2>4 DEF TypeOK, TxTyped, HooksTyped
<1>6. CASE CommitSettle(w)
    <2>1. Return(x, tx[w].via)
        BY <1>6 DEF CommitSettle, x
    <2>2. HooksTyped' /\ route' \in [Requests -> Routes]
        BY <1>1, <1>3, <1>6, <2>1, ReturnTyped DEF CommitSettle
    <2>3. /\ locked' \in [Users -> Int]
          /\ status' \in [Requests -> Statuses]
          /\ reservation' \in [Requests -> Reservations]
          /\ withdrawn' \in SUBSET Requests
          /\ raced' \in SUBSET Requests
        BY <1>1, <1>6 DEF CommitSettle, TypeOK, Statuses, Reservations, x
    <2>4. UNCHANGED <<balance, attached, payout, event>>
        BY <1>6 DEF CommitSettle
    <2>5. QED
        BY <1>2, <2>2, <2>3, <2>4 DEF TypeOK, TxTyped, HooksTyped
<1>7. CASE SettleDuplicate(w)
    <2>1. Return(x, tx[w].via) \/ ((Refuse(x) \/ UNCHANGED hooks) /\ UNCHANGED route)
        BY <1>7 DEF SettleDuplicate, x
    <2>2. HooksTyped' /\ route' \in [Requests -> Routes]
        BY <1>1, <1>3, <1>7, <2>1, ReturnTyped, HooksStayTyped DEF SettleDuplicate, TypeOK
    <2>3. QED
        BY <1>2, <1>7, <2>2 DEF SettleDuplicate, TypeOK, TxTyped, HooksTyped, money, rows
<1>8. CASE Abort(w)
    <2>1. Refuse(x) \/ UNCHANGED hooks
        BY <1>8 DEF Abort, x
    <2>2. HooksTyped' /\ route' \in [Requests -> Routes]
        BY <1>1, <1>8, <2>1, HooksStayTyped DEF Abort, TypeOK, Routes, x
    <2>3. QED
        BY <1>2, <1>8, <2>2 DEF Abort, TypeOK, TxTyped, HooksTyped, money, rows
<1>9. QED
    BY <1>4, <1>5, <1>6, <1>7, <1>8

LEMMA NextTypeOK == TypeOK /\ [Next]_vars => TypeOK'
<1>1. ASSUME TypeOK, Next
      PROVE  TypeOK'
    BY <1>1, RequestStepTyped, BeginStepTyped, CommitStepTyped DEF Next
<1>2. ASSUME TypeOK, UNCHANGED vars
      PROVE  TypeOK'
    BY <1>2 DEF TypeOK, vars, money, rows, hooks
<1>3. QED
    BY <1>1, <1>2

(* Every reachable state is well typed. *)
THEOREM TypeCorrect == Spec => []TypeOK
BY InitTypeOK, NextTypeOK, PTL DEF Spec

-----------------------------------------------------------------------------

LEMMA InitControl == Init => Control
BY DEF Init, Control, RouteSound, TxSound, OneHandler, FateSound, OfHandler, Idle

(* What Control reads. *)
Watched == <<route, reservation, payout, withdrawn, tx>>

LEMMA WatchedKept ==
    ASSUME Control, UNCHANGED Watched
    PROVE  Control'
BY DEF Watched, Control, RouteSound, TxSound, OneHandler, FateSound, OfHandler

(* A step of the handler outside its transactions, with what Pouch then    *)
(* knows of the payout.                                                    *)
Advances(x, from, to) ==
    /\ Step(x, from, to)
    /\ \A y \in Requests : y # x => payout'[y] = payout[y]
    /\ UNCHANGED <<reservation, withdrawn, tx>>

(* The handler moves on when none of its transactions is open, and Pouch   *)
(* learns of a payout it did not know.                                     *)
LEMMA AdvanceKeepsControl ==
    ASSUME TypeOK, Control, NEW x \in Requests, NEW from, NEW to, Advances(x, from, to),
           \A w \in Workers : OfHandler(tx[w]) => tx[w].req # x,
           from # "refunded",
           to \in Unreserved => from \in Unreserved,
           to # "reserved",
           to \in Unreserved => payout' = payout,
           payout' # payout => payout[x] = "NONE"
    PROVE  Control'
<1>1. /\ route' = [route EXCEPT ![x] = to] /\ route[x] = from
      /\ reservation' = reservation /\ withdrawn' = withdrawn /\ tx' = tx
      /\ \A y \in Requests : y # x => payout'[y] = payout[y]
    BY DEF Advances, Step
<1>2. \A y \in Requests : payout[y] # "NONE" => payout'[y] = payout[y]
    BY <1>1
<1>3. RouteSound'
    BY <1>1 DEF Control, RouteSound, Unreserved, TypeOK
<1>4. TxSound'
    <2> SUFFICES ASSUME NEW w \in Workers
                 PROVE  TxSound!(w)'
        BY DEF TxSound
    <2>1. tx[w].op # "idle" => tx[w].req \in Requests
        BY TxFields
    <2>2. QED
        BY <1>1, <1>2, <2>1 DEF Control, TxSound, OfHandler, TypeOK
<1>5. OneHandler'
    BY <1>1 DEF Control, OneHandler, OfHandler
<1>6. FateSound'
    BY <1>1, <1>2 DEF Control, FateSound, TypeOK
<1>7. QED
    BY <1>3, <1>4, <1>5, <1>6 DEF Control

(* Where the handler is when one of its transactions is open. *)
LEMMA HandlerPlace ==
    ASSUME Control, NEW w \in Workers, OfHandler(tx[w])
    PROVE  route[tx[w].req] \in {"checked", "failed"}
BY DEF Control, TxSound, OfHandler

LEMMA RequestStepControl ==
    ASSUME TypeOK, Control, NEW x \in Requests,
           \/ RouteChecks(x) \/ RouteCreate(x) \/ RouteCreateFails(x)
           \/ RouteAttach(x) \/ RoutePublish(x) \/ RouteCrash(x)
           \/ Finalize(x)
           \/ WebhookArrives(x) \/ WebhookSkipped(x)
           \/ WebhookCrash(x) \/ WebhookLost(x)
    PROVE  Control'
<1> USE DEF rows, Unreserved
<1>1. CASE RouteChecks(x)
    <2>1. \A w \in Workers : OfHandler(tx[w]) => tx[w].req # x
        BY <1>1, HandlerPlace DEF RouteChecks, Step
    <2>2. Advances(x, "new", "checked") \/ Advances(x, "new", "refused")
        BY <1>1 DEF RouteChecks, Advances
    <2>3. payout' = payout
        BY <1>1 DEF RouteChecks
    <2>4. QED
        BY <2>1, <2>2, <2>3, AdvanceKeepsControl
<1>2. CASE RouteCreate(x) \/ RouteCreateFails(x)
    <2>1. route[x] = "reserved" /\ payout[x] = "NONE"
        BY <1>2 DEF RouteCreate, RouteCreateFails, Step, Control, RouteSound
    <2>2. \A w \in Workers : OfHandler(tx[w]) => tx[w].req # x
        BY <2>1, HandlerPlace
    <2>3. Advances(x, "reserved", "created") \/ Advances(x, "reserved", "failed")
        BY <1>2 DEF RouteCreate, RouteCreateFails, Advances, TypeOK
    <2>4. QED
        BY <2>1, <2>2, <2>3, AdvanceKeepsControl
<1>3. CASE RouteAttach(x)
    <2>1. \A w \in Workers : OfHandler(tx[w]) => tx[w].req # x
        BY <1>3, HandlerPlace DEF RouteAttach, Step
    <2>2. Advances(x, "created", "attached") \/ Advances(x, "created", "failed")
        BY <1>3 DEF RouteAttach, Advances
    <2>3. payout' = payout
        BY <1>3 DEF RouteAttach
    <2>4. QED
        BY <2>1, <2>2, <2>3, AdvanceKeepsControl
<1>4. CASE RoutePublish(x)
    <2>1. \A w \in Workers : OfHandler(tx[w]) => tx[w].req # x
        BY <1>4, HandlerPlace DEF RoutePublish, Step
    <2>2. Advances(x, "attached", "done") \/ Advances(x, "attached", "failed")
        BY <1>4 DEF RoutePublish, Advances
    <2>3. payout' = payout
        BY <1>4 DEF RoutePublish
    <2>4. QED
        BY <2>1, <2>2, <2>3, AdvanceKeepsControl
<1>5. CASE RouteCrash(x)
    <2>1. \A w \in Workers : OfHandler(tx[w]) => tx[w].req # x
        BY <1>5, TxFields DEF RouteCrash, OfHandler
    <2>2. Advances(x, route[x], "crashed") /\ route[x] # "refunded" /\ payout' = payout
        BY <1>5 DEF RouteCrash, Advances, Step
    <2>3. QED
        BY <2>1, <2>2, AdvanceKeepsControl
<1>6. CASE Finalize(x)
    <2>1. /\ payout[x] \in {"PENDING", "FAILED"}
          /\ payout[x] = "FAILED" => payout'[x] = "FAILED"
          /\ \A y \in Requests : y # x => payout'[y] = payout[y]
          /\ UNCHANGED <<route, reservation, withdrawn, tx>>
        BY <1>6 DEF Finalize, TypeOK
    <2>2. \A y \in Requests : payout[y] \in {"NONE", "PAID", "FAILED"} => payout'[y] = payout[y]
        BY <2>1
    <2>3. RouteSound'
        BY <2>1, <2>2 DEF Control, RouteSound
    <2>4. TxSound'
        BY <2>1, <2>2, TxFields DEF Control, TxSound
    <2>5. OneHandler' /\ FateSound'
        BY <2>1, <2>2 DEF Control, OneHandler, FateSound, OfHandler
    <2>6. QED
        BY <2>3, <2>4, <2>5 DEF Control
<1>7. CASE WebhookArrives(x) \/ WebhookSkipped(x) \/ WebhookCrash(x) \/ WebhookLost(x)
    BY <1>7, WatchedKept
    DEF WebhookArrives, WebhookSkipped, WebhookCrash, WebhookLost, Watched
<1>8. QED
    BY <1>1, <1>2, <1>3, <1>4, <1>5, <1>6, <1>7

(* A transaction may begin that says true things of its request and, if it *)
(* is the handler's, is its only one.                                      *)
LEMMA BeginKeepsControl ==
    ASSUME TypeOK, Control, NEW w \in Workers, NEW t \in Transactions, Begin(w, t),
           UNCHANGED <<route, reservation, payout, withdrawn>>,
           OfHandler(t) => \A v \in Workers : OfHandler(tx[v]) => tx[v].req # t.req,
           t.op = "reserve" => route[t.req] = "checked",
           t.op \in {"release", "settle"} =>
               /\ t.via = "route" => t.op = "release" /\ route[t.req] = "failed"
               /\ t.seen = "ACTIVE" => reservation[t.req] # "NONE",
           t.op = "release" /\ t.via # "route" => payout[t.req] = "FAILED",
           t.op = "settle" => t.seen = "ACTIVE" /\ payout[t.req] = "PAID"
    PROVE  Control'
<1>1. /\ tx' = [tx EXCEPT ![w] = t]
      /\ tx'[w] = t /\ \A v \in Workers : v # w => tx'[v] = tx[v]
    BY DEF Begin, TypeOK
<1>2. RouteSound' /\ FateSound'
    BY DEF Control, RouteSound, FateSound
<1>3. TxSound'
    BY <1>1 DEF Control, TxSound
<1>4. OneHandler'
    BY <1>1 DEF Control, OneHandler
<1>5. QED
    BY <1>2, <1>3, <1>4 DEF Control

LEMMA SyncKeepsControl ==
    ASSUME TypeOK, Control, NEW w \in Workers, NEW x \in Requests, NEW via \in Vias,
           via # "route",
           UNCHANGED <<route, reservation, payout, withdrawn>>,
           \/ payout[x] = "PAID" /\ BeginSettle(w, x, via)
           \/ payout[x] = "FAILED" /\ BeginRelease(w, x, via)
    PROVE  Control'
<1>1. reservation[x] \in Reservations /\ "ACTIVE" \in Reservations
    BY DEF TypeOK, Reservations
<1>2. CASE payout[x] = "PAID" /\ BeginSettle(w, x, via)
    <2> DEFINE t == [op |-> "settle", req |-> x, via |-> via, seen |-> "ACTIVE"]
    <2>1. t \in Transactions
        BY <1>1 DEF Transactions
    <2>2. Begin(w, t) /\ reservation[x] = "ACTIVE"
        BY <1>2 DEF BeginSettle
    <2>3. ~OfHandler(t)
        BY DEF OfHandler
    <2>4. QED
        BY <1>2, <2>1, <2>2, <2>3, BeginKeepsControl
<1>3. CASE payout[x] = "FAILED" /\ BeginRelease(w, x, via)
    <2> DEFINE t == [op |-> "release", req |-> x, via |-> via, seen |-> reservation[x]]
    <2>1. t \in Transactions
        BY <1>1 DEF Transactions
    <2>2. Begin(w, t)
        BY <1>3 DEF BeginRelease
    <2>3. ~OfHandler(t)
        BY DEF OfHandler
    <2>4. QED
        BY <1>3, <2>1, <2>2, <2>3, BeginKeepsControl
<1>4. QED
    BY <1>2, <1>3

LEMMA BeginStepControl ==
    ASSUME TypeOK, Control, NEW w \in Workers, NEW x \in Requests,
           \/ BeginReserve(w, x) \/ RouteRelease(w, x)
           \/ HandleSuccess(w, x) \/ HandleFailure(w, x)
           \/ HandlePayoutCreated(w, x) \/ Poll(w, x) \/ Sweep(w, x)
    PROVE  Control'
<1> USE DEF rows, Unreserved
<1>1. "route" \in Vias /\ "webhook" \in Vias /\ "sync" \in Vias
    BY DEF Vias
<1>2. CASE BeginReserve(w, x)
    <2>1. \A v \in Workers : OfHandler(tx[v]) => tx[v].req # x
        BY <1>2 DEF BeginReserve, OfHandler, Control, TxSound
    <2>2. CASE Begin(w, [op |-> "reserve", req |-> x]) /\ UNCHANGED route
        <3> DEFINE t == [op |-> "reserve", req |-> x]
        <3>1. t \in Transactions
            BY DEF Transactions
        <3>2. QED
            BY <1>2, <2>1, <2>2, <3>1, BeginKeepsControl DEF BeginReserve
    <2>3. CASE Step(x, "checked", "refused") /\ UNCHANGED tx
        <3>1. Advances(x, "checked", "refused") /\ payout' = payout
            BY <1>2, <2>3 DEF BeginReserve, Advances
        <3>2. QED
            BY <2>1, <3>1, AdvanceKeepsControl
    <2>4. QED
        BY <1>2, <2>2, <2>3 DEF BeginReserve
<1>3. CASE RouteRelease(w, x)
    <2>1. \A v \in Workers : OfHandler(tx[v]) => tx[v].req # x
        BY <1>3, TxFields DEF RouteRelease, OfHandler, Control, TxSound
    <2>2. CASE BeginRelease(w, x, "route") /\ UNCHANGED route
        <3> DEFINE t == [op |-> "release", req |-> x, via |-> "route", seen |-> reservation[x]]
        <3>1. t \in Transactions
            BY <1>1 DEF Transactions, TypeOK
        <3>2. QED
            BY <1>3, <2>1, <2>2, <3>1, BeginKeepsControl DEF RouteRelease, BeginRelease
    <2>3. CASE Step(x, "failed", "refunded") /\ UNCHANGED tx
        <3>1. Advances(x, "failed", "refunded") /\ payout' = payout
            BY <1>3, <2>3 DEF RouteRelease, Advances
        <3>2. QED
            BY <2>1, <3>1, AdvanceKeepsControl
    <2>4. QED
        BY <1>3, <2>2, <2>3 DEF RouteRelease
<1>4. CASE HandleSuccess(w, x)
    BY <1>1, <1>4, SyncKeepsControl, WatchedKept DEF HandleSuccess, Watched
<1>5. CASE HandleFailure(w, x)
    BY <1>1, <1>5, SyncKeepsControl, WatchedKept DEF HandleFailure, Watched
<1>6. CASE HandlePayoutCreated(w, x) \/ Poll(w, x) \/ Sweep(w, x)
    <2>1. UNCHANGED <<route, reservation, payout, withdrawn>>
        BY <1>6 DEF HandlePayoutCreated, Poll, Sweep
    <2>2. \/ UNCHANGED tx
          \/ payout[x] = "PAID" /\ BeginSettle(w, x, "sync")
          \/ payout[x] = "FAILED" /\ BeginRelease(w, x, "sync")
        BY <1>6 DEF HandlePayoutCreated, Poll, Sweep, Sync, Outcome
    <2>3. QED
        BY <1>1, <2>1, <2>2, SyncKeepsControl, WatchedKept DEF Watched
<1>7. QED
    BY <1>2, <1>3, <1>4, <1>5, <1>6

(* What the end of a transaction may do to its request: the handler leaves *)
(* its place when the transaction was its own, a reservation that is there *)
(* stays, a refund and a withdrawal have their payout.                     *)
Ends(w, x) ==
    /\ UNCHANGED payout
    /\ \A y \in Requests : y # x => route'[y] = route[y] /\ reservation'[y] = reservation[y]
    /\ ~OfHandler(tx[w]) => route' = route
    /\ OfHandler(tx[w]) => route'[x] \in {"reserved", "refunded", "done"}
    /\ route'[x] = "reserved" => payout[x] = "NONE"
    /\ reservation'[x] = "NONE" => reservation[x] = "NONE"
    /\ reservation[x] = "NONE" /\ ~OfHandler(tx[w]) => reservation'[x] = "NONE"
    /\ reservation'[x] = "RELEASED" => payout[x] = "FAILED" \/ route'[x] = "refunded"
    /\ withdrawn' \subseteq withdrawn \cup {x}
    /\ x \in withdrawn' => x \in withdrawn \/ payout[x] = "PAID"

LEMMA EndKeepsControl ==
    ASSUME TypeOK, Control, NEW w \in Workers, End(w), tx[w].op # "idle", Ends(w, tx[w].req)
    PROVE  Control'
<1> DEFINE x == tx[w].req
<1>1. /\ tx'[w] = Idle /\ \A v \in Workers : v # w => tx'[v] = tx[v]
      /\ x \in Requests
      /\ Ends(w, x)
    BY TxFields DEF End, TypeOK
<1> HIDE DEF x
<1>2. tx'[w].op = "idle"
    BY <1>1 DEF Idle
<1>3. route[x] \in Unreserved /\ ~OfHandler(tx[w]) => reservation'[x] = "NONE"
    BY <1>1 DEF Ends, Control, RouteSound
<1>4. RouteSound'
    BY <1>1, <1>3 DEF Ends, Control, RouteSound, Unreserved
<1>5. ASSUME NEW v \in Workers, v # w, OfHandler(tx[v])
      PROVE  tx[v].req # x \/ ~OfHandler(tx[w])
    BY <1>5 DEF Control, OneHandler, x
<1>6. ASSUME NEW v \in Workers, v # w, tx[v].op # "idle"
      PROVE  /\ tx'[v] = tx[v] /\ tx[v].req \in Requests
             /\ OfHandler(tx[v]) => route'[tx[v].req] = route[tx[v].req]
             /\ reservation[tx[v].req] # "NONE" => reservation'[tx[v].req] # "NONE"
    BY <1>1, <1>5, <1>6, TxFields DEF Ends
<1>7. TxSound'
    <2> SUFFICES ASSUME NEW v \in Workers
                 PROVE  TxSound!(v)'
        BY DEF TxSound
    <2>1. CASE v = w
        BY <1>2, <2>1
    <2>2. CASE v # w /\ tx[v].op = "idle"
        BY <1>1, <2>2
    <2>3. CASE v # w /\ tx[v].op # "idle"
        BY <1>1, <1>6, <2>3 DEF Ends, Control, TxSound, OfHandler
    <2>4. QED
        BY <2>1, <2>2, <2>3
<1>8. OneHandler'
    BY <1>1, <1>2 DEF Control, OneHandler, OfHandler
<1>9. FateSound'
    <2> SUFFICES ASSUME NEW y \in Requests
                 PROVE  FateSound!(y)'
        BY DEF FateSound
    <2>1. CASE y # x
        BY <1>1, <2>1 DEF Ends, Control, FateSound
    <2>2. CASE y = x
        BY <1>1, <2>2 DEF Ends, Control, FateSound
    <2>3. QED
        BY <2>1, <2>2
<1>10. QED
    BY <1>4, <1>7, <1>8, <1>9 DEF Control

(* What the caller of a release or of a settlement does then. *)
LEMMA ReturnMoves ==
    ASSUME TypeOK, Control, NEW w \in Workers, tx[w].op \in {"release", "settle"},
           Return(tx[w].req, tx[w].via)
    PROVE  /\ \A y \in Requests : y # tx[w].req => route'[y] = route[y]
           /\ ~OfHandler(tx[w]) => route' = route
           /\ OfHandler(tx[w]) => route'[tx[w].req] = "refunded"
           /\ route[tx[w].req] = "refunded" => route'[tx[w].req] = "refunded"
           /\ route'[tx[w].req] = "reserved" => payout[tx[w].req] = "NONE"
BY TxFields DEF Return, OfHandler, TypeOK, Control, RouteSound

LEMMA CommitStepControl ==
    ASSUME TypeOK, Control, NEW w \in Workers,
           \/ CommitReserve(w) \/ CommitRelease(w) \/ CommitSettle(w)
           \/ SettleDuplicate(w) \/ Abort(w)
    PROVE  Control'
<1> DEFINE x == tx[w].req
<1>1. tx[w].op # "idle" /\ x \in Requests /\ End(w)
    BY TxFields DEF CommitReserve, CommitRelease, CommitSettle, SettleDuplicate, Abort
<1>2. SUFFICES Ends(w, x)
    BY <1>1, EndKeepsControl
<1>3. CASE CommitReserve(w)
    <2>1. route[x] = "checked" /\ reservation[x] = "NONE" /\ payout[x] = "NONE" /\ OfHandler(tx[w])
        BY <1>1, <1>3 DEF CommitReserve, Control, TxSound, RouteSound, Unreserved, OfHandler
    <2>2. /\ route'[x] = "reserved" /\ reservation'[x] = "ACTIVE"
          /\ \A y \in Requests : y # x => route'[y] = route[y] /\ reservation'[y] = reservation[y]
          /\ payout' = payout /\ withdrawn' = withdrawn
        BY <1>1, <1>3 DEF CommitReserve, TypeOK
    <2> HIDE DEF x
    <2>3. QED
        BY <2>1, <2>2 DEF Ends
<1>4. CASE CommitRelease(w)
    <2>1. tx[w].op = "release" /\ Return(x, tx[w].via) /\ payout' = payout /\ withdrawn' = withdrawn
        BY <1>4 DEF CommitRelease
    <2>2. \A y \in Requests : y # x => reservation'[y] = reservation[y]
        BY <1>4 DEF CommitRelease, TypeOK, money
    <2>3. \/ reservation'[x] = reservation[x]
          \/ reservation'[x] = "RELEASED" /\ reservation[x] # "NONE"
        BY <1>1, <1>4 DEF CommitRelease, Releasable, Control, TxSound, TypeOK
    <2>4. OfHandler(tx[w]) \/ payout[x] = "FAILED"
        BY <2>1 DEF Control, TxSound, OfHandler
    <2>5. /\ \A y \in Requests : y # x => route'[y] = route[y]
          /\ ~OfHandler(tx[w]) => route' = route
          /\ OfHandler(tx[w]) => route'[x] = "refunded"
          /\ route'[x] = "reserved" => payout[x] = "NONE"
        BY <2>1, ReturnMoves
    <2> HIDE DEF x
    <2>6. QED
        BY <1>1, <2>1, <2>2, <2>3, <2>4, <2>5 DEF Ends
<1>5. CASE CommitSettle(w)
    <2>1. tx[w].op = "settle" /\ Return(x, tx[w].via) /\ payout' = payout
        BY <1>5 DEF CommitSettle
    <2>2. /\ \A y \in Requests : y # x => reservation'[y] = reservation[y]
          /\ reservation'[x] = "CONSUMED"
          /\ withdrawn' = withdrawn \cup {x}
        BY <1>1, <1>5 DEF CommitSettle, TypeOK
    <2>3. reservation[x] # "NONE" /\ payout[x] = "PAID" /\ ~OfHandler(tx[w])
        BY <2>1 DEF Control, TxSound, OfHandler
    <2>4. route' = route
        BY <2>1, <2>3, ReturnMoves
    <2> HIDE DEF x
    <2>5. QED
        BY <1>1, <2>1, <2>2, <2>3, <2>4 DEF Ends, Control, RouteSound
<1>6. CASE SettleDuplicate(w)
    <2>1. tx[w].op = "settle" /\ (Return(x, tx[w].via) \/ UNCHANGED route)
        BY <1>6 DEF SettleDuplicate
    <2>2. payout' = payout /\ withdrawn' = withdrawn /\ reservation' = reservation
        BY <1>6 DEF SettleDuplicate, rows
    <2>3. ~OfHandler(tx[w]) /\ payout[x] = "PAID"
        BY <2>1 DEF Control, TxSound, OfHandler
    <2>4. route' = route
        BY <2>1, <2>3, ReturnMoves
    <2> HIDE DEF x
    <2>5. QED
        BY <1>1, <2>2, <2>3, <2>4 DEF Ends, Control, RouteSound, FateSound
<1>7. CASE Abort(w)
    <2>1. payout' = payout /\ withdrawn' = withdrawn /\ reservation' = reservation
        BY <1>7 DEF Abort, rows
    <2>2. /\ \A y \in Requests : y # x => route'[y] = route[y]
          /\ ~OfHandler(tx[w]) => route' = route
          /\ OfHandler(tx[w]) => route'[x] = "done" /\ route[x] # "refunded"
        BY <1>1, <1>7, TxFields, HandlerPlace DEF Abort, OfHandler, TypeOK
    <2> HIDE DEF x
    <2>3. QED
        BY <1>1, <2>1, <2>2 DEF Ends, Control, RouteSound, FateSound
<1>8. QED
    BY <1>3, <1>4, <1>5, <1>6, <1>7

LEMMA NextControl == IInv /\ [Next]_vars => IInv'
<1>1. ASSUME TypeOK, Control, Next
      PROVE  Control'
    BY <1>1, RequestStepControl, BeginStepControl, CommitStepControl DEF Next
<1>2. ASSUME TypeOK, Control, UNCHANGED vars
      PROVE  Control'
    BY <1>2, WatchedKept DEF Watched, vars, rows
<1>3. QED
    BY <1>1, <1>2, NextTypeOK DEF IInv

LEMMA Controlled == Spec => []IInv
BY InitTypeOK, InitControl, NextControl, PTL DEF Spec, IInv

(* A payout that left the bank is not refunded, except by the handler on   *)
(* an error of its own, and a failed one is never taken for a withdrawal,  *)
(* whichever of the webhook, the consumer, the poll and the sweep come to  *)
(* the request together.                                                   *)
THEOREM PaidStaysPaid == Spec => []PaidIsNotRefunded
<1>1. IInv => PaidIsNotRefunded
    BY DEF IInv, Control, FateSound, PaidIsNotRefunded
<1>2. QED
    BY <1>1, Controlled, PTL

-----------------------------------------------------------------------------
(***************************************************************************)
(* What a transaction may do to the money of a request.  Every step is one *)
(* of these four; the two money invariants are proved of them.             *)
(***************************************************************************)
Still == UNCHANGED <<balance, locked, reservation, withdrawn, raced>>

Reserve(x) ==
    /\ reservation[x] = "NONE"
    /\ balance' = [balance EXCEPT ![UserOf[x]] = @ - Amount[x]]
    /\ locked' = [locked EXCEPT ![UserOf[x]] = @ + Amount[x]]
    /\ reservation' = [reservation EXCEPT ![x] = "ACTIVE"]
    /\ UNCHANGED <<withdrawn, raced>>

(* The reservation is ACTIVE still, or the request is marked raced. *)
Marks(x) ==
    /\ reservation[x] # "NONE"
    /\ raced' = IF reservation[x] = "ACTIVE" THEN raced ELSE raced \cup {x}

Refund(x) ==
    /\ Marks(x)
    /\ balance' = [balance EXCEPT ![UserOf[x]] = @ + Amount[x]]
    /\ locked' = [locked EXCEPT ![UserOf[x]] = @ - Amount[x]]
    /\ reservation' = [reservation EXCEPT ![x] = "RELEASED"]
    /\ UNCHANGED withdrawn

Withdraw(x) ==
    /\ Marks(x)
    /\ x \notin withdrawn
    /\ locked' = [locked EXCEPT ![UserOf[x]] = @ - Amount[x]]
    /\ withdrawn' = withdrawn \cup {x}
    /\ reservation' = [reservation EXCEPT ![x] = "CONSUMED"]
    /\ UNCHANGED balance

Move == Still \/ \E x \in Requests : Reserve(x) \/ Refund(x) \/ Withdraw(x)

LEMMA StepIsMove == IInv /\ [Next]_vars => Move
<1> SUFFICES ASSUME IInv, [Next]_vars
             PROVE  Move
    OBVIOUS
<1> USE DEF IInv
<1>1. ASSUME NEW w \in Workers, CommitReserve(w)
      PROVE  Move
    <2>1. PICK x \in Requests : x = tx[w].req
        BY <1>1, TxFields DEF CommitReserve
    <2>2. reservation[x] = "NONE"
        BY <1>1, <2>1 DEF CommitReserve, Control, TxSound, RouteSound, Unreserved
    <2>3. Reserve(x)
        BY <1>1, <2>1, <2>2 DEF CommitReserve, Reserve
    <2>4. QED
        BY <2>3 DEF Move
<1>2. ASSUME NEW w \in Workers, CommitRelease(w)
      PROVE  Move
    <2>1. PICK x \in Requests : x = tx[w].req
        BY <1>2, TxFields DEF CommitRelease
    <2>2. Refund(x) \/ Still
        <3>1. CASE tx[w].seen = "ACTIVE"
            <4>1. reservation[x] # "NONE"
                BY <1>2, <2>1, <3>1 DEF CommitRelease, Control, TxSound
            <4>2. QED
                BY <1>2, <2>1, <3>1, <4>1 DEF CommitRelease, Releasable, Refund, Marks
        <3>2. CASE tx[w].seen # "ACTIVE"
            BY <1>2, <2>1, <3>2 DEF CommitRelease, Releasable, Still, money
        <3>3. QED
            BY <3>1, <3>2
    <2>3. QED
        BY <2>2 DEF Move
<1>3. ASSUME NEW w \in Workers, CommitSettle(w)
      PROVE  Move
    <2>1. PICK x \in Requests : x = tx[w].req
        BY <1>3, TxFields DEF CommitSettle
    <2>2. tx[w].seen = "ACTIVE" /\ reservation[x] # "NONE"
        BY <1>3, <2>1 DEF CommitSettle, Control, TxSound
    <2>3. Withdraw(x)
        BY <1>3, <2>1, <2>2 DEF CommitSettle, Unsettled, Withdraw, Marks
    <2>4. QED
        BY <2>3 DEF Move
<1>4. ASSUME NEW w \in Workers, SettleDuplicate(w) \/ Abort(w)
      PROVE  Still
    BY <1>4 DEF SettleDuplicate, Abort, Still, money, rows
<1>5. ASSUME NEW x \in Requests,
             \/ RouteChecks(x) \/ RouteCreate(x) \/ RouteCreateFails(x)
             \/ RouteAttach(x) \/ RoutePublish(x) \/ RouteCrash(x)
             \/ Finalize(x)
             \/ WebhookArrives(x) \/ WebhookSkipped(x)
             \/ WebhookCrash(x) \/ WebhookLost(x)
      PROVE  Still
    BY <1>5
    DEF RouteChecks, RouteCreate, RouteCreateFails, RouteAttach, RoutePublish, RouteCrash,
        Finalize, WebhookArrives, WebhookSkipped, WebhookCrash, WebhookLost, Still, money, rows
<1>6. ASSUME NEW x \in Requests, NEW w \in Workers,
             \/ BeginReserve(w, x) \/ RouteRelease(w, x)
             \/ HandleSuccess(w, x) \/ HandleFailure(w, x)
             \/ HandlePayoutCreated(w, x) \/ Poll(w, x) \/ Sweep(w, x)
      PROVE  Still
    BY <1>6
    DEF BeginReserve, RouteRelease, HandleSuccess, HandleFailure, HandlePayoutCreated,
        Poll, Sweep, Still, money, rows
<1>7. CASE UNCHANGED vars
    BY <1>7 DEF vars, Move, Still, money, rows
<1>8. QED
    BY <1>1, <1>2, <1>3, <1>4, <1>5, <1>6, <1>7 DEF Next, Move

-----------------------------------------------------------------------------

(* The columns of the sums are amounts. *)
LEMMA ColumnTypes ==
    \A u \in Users :
        /\ Reserved(u) \in [Requests -> 0..MaxAmount]
        /\ Withdrawn(u) \in [Requests -> 0..MaxAmount]
<1>1. \A x \in Requests : Amount[x] \in 0..MaxAmount /\ 0 \in 0..MaxAmount
    BY WithdrawalsAssumption
<1>2. QED
    BY <1>1 DEF Reserved, Withdrawn

LEMMA ColumnTypesNext ==
    \A u \in Users :
        /\ Reserved(u)' \in [Requests -> 0..MaxAmount]
        /\ Withdrawn(u)' \in [Requests -> 0..MaxAmount]
<1>1. \A x \in Requests : Amount[x] \in 0..MaxAmount /\ 0 \in 0..MaxAmount
    BY WithdrawalsAssumption
<1>2. QED
    BY <1>1 DEF Reserved, Withdrawn

(* A step that leaves the other requests alone changes the sums of a user  *)
(* by what it changes at its request.                                      *)
LEMMA OneRequestChanged ==
    ASSUME NEW x \in Requests, NEW u \in Users,
           \A y \in Requests : y # x =>
               reservation'[y] = reservation[y] /\ (y \in withdrawn' <=> y \in withdrawn)
    PROVE  /\ Tally(Reserved(u)', Requests, MaxAmount)
                  = Tally(Reserved(u), Requests, MaxAmount) - Reserved(u)[x] + Reserved(u)'[x]
           /\ Tally(Withdrawn(u)', Requests, MaxAmount)
                  = Tally(Withdrawn(u), Requests, MaxAmount) - Withdrawn(u)[x] + Withdrawn(u)'[x]
<1> DEFINE f == Reserved(u)
           g == Reserved(u)'
           h == Withdrawn(u)
           k == Withdrawn(u)'
<1>1. /\ f \in [Requests -> 0..MaxAmount] /\ g \in [Requests -> 0..MaxAmount]
      /\ h \in [Requests -> 0..MaxAmount] /\ k \in [Requests -> 0..MaxAmount]
    BY ColumnTypes, ColumnTypesNext
<1>2. \A y \in Requests : y # x => g[y] = f[y] /\ k[y] = h[y]
    BY DEF Reserved, Withdrawn
<1>3. IsFiniteSet(Requests) /\ MaxAmount \in Nat
    BY WithdrawalsAssumption
<1> HIDE DEF f, g, h, k
<1>4. DiffersAt(f, g, x, Requests, MaxAmount)
    BY <1>1, <1>2, <1>3, TallyAt
<1>5. DiffersAt(h, k, x, Requests, MaxAmount)
    BY <1>1, <1>2, <1>3, TallyAt
<1>6. QED
    BY <1>4, <1>5, Zenon DEF DiffersAt, f, g, h, k

(* The sums are numbers. *)
LEMMA SumTypes ==
    ASSUME NEW u \in Users
    PROVE  /\ Tally(Reserved(u), Requests, MaxAmount) \in Int
           /\ Tally(Withdrawn(u), Requests, MaxAmount) \in Int
BY ColumnTypes, TallyType, WithdrawalsAssumption

LEMMA InitMoney == Init => LockedBacksReservations /\ WithdrawalMoneyConserved
<1> SUFFICES ASSUME Init, NEW u \in Users
             PROVE  /\ locked[u] = Tally(Reserved(u), Requests, MaxAmount)
                    /\ balance[u] + locked[u] + Tally(Withdrawn(u), Requests, MaxAmount) = Funds[u]
    BY DEF LockedBacksReservations, WithdrawalMoneyConserved
<1>1. Reserved(u) = [x \in Requests |-> 0] /\ Withdrawn(u) = [x \in Requests |-> 0]
    BY DEF Init, Reserved, Withdrawn
<1>2. Tally([x \in Requests |-> 0], Requests, MaxAmount) = 0
    BY WithdrawalsAssumption, TallyZero
<1>3. balance[u] = Funds[u] /\ locked[u] = 0 /\ Funds[u] \in Int
    BY WithdrawalsAssumption DEF Init
<1>4. QED
    BY <1>1, <1>2, <1>3

(* What one request's transaction does to the sums of a user. *)
LEMMA MoneyAt ==
    ASSUME TypeOK, NEW x \in Requests, NEW u \in Users,
           Reserve(x) \/ Refund(x) \/ Withdraw(x)
    PROVE  LET moved == IF UserOf[x] = u THEN Amount[x] ELSE 0
               sum == Tally(Reserved(u), Requests, MaxAmount)
               paid == Tally(Withdrawn(u), Requests, MaxAmount)
           IN  /\ Reserve(x) => /\ balance'[u] = balance[u] - moved
                                /\ locked'[u] = locked[u] + moved
                                /\ Tally(Reserved(u)', Requests, MaxAmount) = sum + moved
                                /\ Tally(Withdrawn(u)', Requests, MaxAmount) = paid
               /\ Refund(x) => /\ balance'[u] = balance[u] + moved
                               /\ locked'[u] = locked[u] - moved
                               /\ reservation[x] = "ACTIVE" =>
                                      Tally(Reserved(u)', Requests, MaxAmount) = sum - moved
                               /\ Tally(Withdrawn(u)', Requests, MaxAmount) = paid
               /\ Withdraw(x) => /\ balance'[u] = balance[u]
                                 /\ locked'[u] = locked[u] - moved
                                 /\ reservation[x] = "ACTIVE" =>
                                        Tally(Reserved(u)', Requests, MaxAmount) = sum - moved
                                 /\ Tally(Withdrawn(u)', Requests, MaxAmount) = paid + moved
<1> DEFINE moved == IF UserOf[x] = u THEN Amount[x] ELSE 0
           sum == Tally(Reserved(u), Requests, MaxAmount)
           sumNext == Tally(Reserved(u)', Requests, MaxAmount)
           paid == Tally(Withdrawn(u), Requests, MaxAmount)
           paidNext == Tally(Withdrawn(u)', Requests, MaxAmount)
<1>1. /\ Amount[x] \in Int /\ moved \in Int /\ UserOf[x] \in Users
      /\ balance[u] \in Int /\ locked[u] \in Int
    BY WithdrawalsAssumption DEF TypeOK
<1>2. \A y \in Requests : y # x =>
          reservation'[y] = reservation[y] /\ (y \in withdrawn' <=> y \in withdrawn)
    BY DEF Reserve, Refund, Withdraw, TypeOK
<1>3. /\ sumNext = sum - Reserved(u)[x] + Reserved(u)'[x]
      /\ paidNext = paid - Withdrawn(u)[x] + Withdrawn(u)'[x]
    BY <1>2, OneRequestChanged
<1>4. sum \in Int /\ paid \in Int
    BY SumTypes
<1>5. /\ Reserved(u)[x] = IF reservation[x] = "ACTIVE" THEN moved ELSE 0
      /\ Reserved(u)'[x] = IF reservation'[x] = "ACTIVE" THEN moved ELSE 0
      /\ Withdrawn(u)[x] = IF x \in withdrawn THEN moved ELSE 0
      /\ Withdrawn(u)'[x] = IF x \in withdrawn' THEN moved ELSE 0
    BY DEF Reserved, Withdrawn
<1>6. /\ Reserve(x) => /\ balance'[u] = balance[u] - moved
                       /\ locked'[u] = locked[u] + moved
                       /\ reservation[x] = "NONE" /\ reservation'[x] = "ACTIVE"
                       /\ withdrawn' = withdrawn
      /\ Refund(x) => /\ balance'[u] = balance[u] + moved
                      /\ locked'[u] = locked[u] - moved
                      /\ reservation'[x] = "RELEASED"
                      /\ withdrawn' = withdrawn
      /\ Withdraw(x) => /\ balance'[u] = balance[u]
                        /\ locked'[u] = locked[u] - moved
                        /\ reservation'[x] = "CONSUMED"
                        /\ x \notin withdrawn /\ x \in withdrawn'
    BY <1>1 DEF Reserve, Refund, Withdraw, TypeOK
<1> HIDE DEF moved, sum, sumNext, paid, paidNext
<1>7. /\ Reserve(x) => sumNext = sum + moved /\ paidNext = paid
      /\ Refund(x) => (reservation[x] = "ACTIVE" => sumNext = sum - moved) /\ paidNext = paid
      /\ Withdraw(x) => (reservation[x] = "ACTIVE" => sumNext = sum - moved) /\ paidNext = paid + moved
    BY <1>1, <1>3, <1>4, <1>5, <1>6
<1>8. QED
    BY <1>6, <1>7 DEF moved, sum, sumNext, paid, paidNext

LEMMA LockedStep ==
    ASSUME TypeOK, LockedBacksReservations, Move
    PROVE  LockedBacksReservations'
<1>1. CASE Still
    BY <1>1 DEF Still, LockedBacksReservations, Reserved
<1>2. ASSUME NEW x \in Requests, Reserve(x) \/ Refund(x) \/ Withdraw(x)
      PROVE  LockedBacksReservations'
    <2> SUFFICES ASSUME NEW u \in Users, \A y \in raced' : UserOf[y] # u
                 PROVE  locked'[u] = Tally(Reserved(u)', Requests, MaxAmount)
        BY DEF LockedBacksReservations
    <2> DEFINE sum == Tally(Reserved(u), Requests, MaxAmount)
               sumNext == Tally(Reserved(u)', Requests, MaxAmount)
               moved == IF UserOf[x] = u THEN Amount[x] ELSE 0
    <2>1. raced \subseteq raced'
        BY <1>2 DEF Reserve, Refund, Withdraw, Marks
    <2>2. locked[u] = sum
        BY <2>1 DEF LockedBacksReservations
    <2>3. /\ Reserve(x) => locked'[u] = locked[u] + moved /\ sumNext = sum + moved
          /\ Refund(x) \/ Withdraw(x) =>
                /\ locked'[u] = locked[u] - moved
                /\ reservation[x] = "ACTIVE" => sumNext = sum - moved
        BY <1>2, MoneyAt
    <2>4. CASE UserOf[x] = u
        <3>1. Refund(x) \/ Withdraw(x) => reservation[x] = "ACTIVE"
            BY <2>4 DEF Refund, Withdraw, Marks
        <3> HIDE DEF sum, sumNext, moved
        <3>2. locked'[u] = sumNext
            BY <1>2, <2>2, <2>3, <3>1
        <3>3. QED
            BY <3>2 DEF sumNext
    <2>5. CASE UserOf[x] # u
        <3>1. Reserved(u)' = Reserved(u)
            BY <1>2, <2>5 DEF Reserved, Reserve, Refund, Withdraw, TypeOK
        <3>2. locked'[u] = locked[u]
            BY <1>2, <2>5 DEF Reserve, Refund, Withdraw, TypeOK
        <3>3. QED
            BY <2>2, <3>1, <3>2
    <2>6. QED
        BY <2>4, <2>5
<1>3. QED
    BY <1>1, <1>2 DEF Move

LEMMA MoneyStep ==
    ASSUME TypeOK, WithdrawalMoneyConserved, Move
    PROVE  WithdrawalMoneyConserved'
<1>1. CASE Still
    BY <1>1 DEF Still, WithdrawalMoneyConserved, Withdrawn
<1>2. ASSUME NEW x \in Requests, Reserve(x) \/ Refund(x) \/ Withdraw(x)
      PROVE  WithdrawalMoneyConserved'
    <2> SUFFICES ASSUME NEW u \in Users
                 PROVE  balance'[u] + locked'[u] + Tally(Withdrawn(u)', Requests, MaxAmount)
                            = Funds[u]
        BY DEF WithdrawalMoneyConserved
    <2> DEFINE moved == IF UserOf[x] = u THEN Amount[x] ELSE 0
               paid == Tally(Withdrawn(u), Requests, MaxAmount)
               paidNext == Tally(Withdrawn(u)', Requests, MaxAmount)
    <2>1. balance[u] + locked[u] + paid = Funds[u]
        BY DEF WithdrawalMoneyConserved
    <2>2. /\ moved \in Int /\ paid \in Int
          /\ balance[u] \in Int /\ locked[u] \in Int /\ Funds[u] \in Int
        BY SumTypes, WithdrawalsAssumption DEF TypeOK
    <2>3. /\ Reserve(x) => balance'[u] = balance[u] - moved /\ locked'[u] = locked[u] + moved
                               /\ paidNext = paid
          /\ Refund(x) => balance'[u] = balance[u] + moved /\ locked'[u] = locked[u] - moved
                               /\ paidNext = paid
          /\ Withdraw(x) => balance'[u] = balance[u] /\ locked'[u] = locked[u] - moved
                               /\ paidNext = paid + moved
        BY <1>2, MoneyAt
    <2> HIDE DEF moved, paid, paidNext
    <2>4. balance'[u] + locked'[u] + paidNext = Funds[u]
        BY <1>2, <2>1, <2>2, <2>3
    <2>5. QED
        BY <2>4 DEF paidNext
<1>3. QED
    BY <1>1, <1>2 DEF Move

(* lockedNgn is the sum of the ACTIVE reservations, however many releases  *)
(* and settlements run into each other, for every user none of whose       *)
(* requests was written on a reservation that had changed since it was     *)
(* read.                                                                   *)
THEOREM LockedIsReserved == Spec => []LockedBacksReservations
<1>1. Init => LockedBacksReservations
    BY InitMoney
<1>2. IInv /\ LockedBacksReservations /\ [Next]_vars => LockedBacksReservations'
    BY StepIsMove, LockedStep DEF IInv
<1>3. QED
    BY <1>1, <1>2, Controlled, PTL DEF Spec

(* Balance, locked funds and WITHDRAWAL transactions add up to what the    *)
(* user had, with no exception: not even a race that spoils the locked     *)
(* column makes money or loses any.                                        *)
THEOREM WithdrawalsAddUp == Spec => []WithdrawalMoneyConserved
<1>1. Init => WithdrawalMoneyConserved
    BY InitMoney
<1>2. IInv /\ WithdrawalMoneyConserved /\ [Next]_vars => WithdrawalMoneyConserved'
    BY StepIsMove, MoneyStep DEF IInv
<1>3. QED
    BY <1>1, <1>2, Controlled, PTL DEF Spec


-----------------------------------------------------------------------------
(***************************************************************************)
(* The refinement of BankTransfers.  Two facts more are needed: a handler  *)
(* asks Pouch with the money set aside, and a raced request had money set  *)
(* aside once, so that it is contested rather than open.                   *)
(***************************************************************************)
AsideFirst ==
    /\ \A x \in Requests : route[x] = "reserved" => reservation[x] # "NONE"
    /\ \A x \in raced : reservation[x] # "NONE"

TransferInv == IInv /\ AsideFirst

(* The bank takes a payout, or decides on it. *)
BankStep(x) ==
    \/ /\ payout[x] = "NONE" /\ route[x] = "reserved"
       /\ \/ payout' = [payout EXCEPT ![x] = "PENDING"]
          \/ payout' = [payout EXCEPT ![x] = "FAILED"]
    \/ /\ payout[x] = "PENDING"
       /\ \/ payout' = [payout EXCEPT ![x] = "PAID"]
          \/ payout' = [payout EXCEPT ![x] = "FAILED"]

(* A step that reserves leaves the money set aside; no other one puts a    *)
(* handler where it asks Pouch.                                            *)
LEMMA ReservedStep ==
    ASSUME IInv, [Next]_vars
    PROVE  \A x \in Requests :
              route'[x] = "reserved" => route[x] = "reserved" \/ reservation'[x] # "NONE"
<1> USE DEF IInv
<1>1. ASSUME NEW w \in Workers, CommitReserve(w)
      PROVE  \A x \in Requests :
                route'[x] = "reserved" => route[x] = "reserved" \/ reservation'[x] # "NONE"
    BY <1>1, TxFields DEF CommitReserve, TypeOK
<1>2. ASSUME NEW w \in Workers, CommitRelease(w) \/ CommitSettle(w) \/ SettleDuplicate(w) \/ Abort(w)
      PROVE  \A x \in Requests : route'[x] = "reserved" => route[x] = "reserved"
    BY <1>2 DEF CommitRelease, CommitSettle, SettleDuplicate, Abort, Return, TypeOK
<1>3. ASSUME NEW x \in Requests,
             \/ RouteChecks(x) \/ RouteCreate(x) \/ RouteCreateFails(x)
             \/ RouteAttach(x) \/ RoutePublish(x) \/ RouteCrash(x)
      PROVE  \A y \in Requests : route'[y] = "reserved" => route[y] = "reserved"
    BY <1>3
    DEF RouteChecks, RouteCreate, RouteCreateFails, RouteAttach, RoutePublish, RouteCrash,
        Step, TypeOK
<1>4. ASSUME NEW x \in Requests,
             \/ Finalize(x) \/ WebhookArrives(x) \/ WebhookSkipped(x)
             \/ WebhookCrash(x) \/ WebhookLost(x)
      PROVE  route' = route
    BY <1>4 DEF Finalize, WebhookArrives, WebhookSkipped, WebhookCrash, WebhookLost
<1>5. ASSUME NEW x \in Requests, NEW w \in Workers,
             \/ BeginReserve(w, x) \/ RouteRelease(w, x)
             \/ HandleSuccess(w, x) \/ HandleFailure(w, x)
             \/ HandlePayoutCreated(w, x) \/ Poll(w, x) \/ Sweep(w, x)
      PROVE  \A y \in Requests : route'[y] = "reserved" => route[y] = "reserved"
    BY <1>5
    DEF BeginReserve, RouteRelease, HandleSuccess, HandleFailure, HandlePayoutCreated,
        Poll, Sweep, Step, TypeOK
<1>6. CASE UNCHANGED vars
    BY <1>6 DEF vars
<1>7. QED
    BY <1>1, <1>2, <1>3, <1>4, <1>5, <1>6 DEF Next

LEMMA AsideStep ==
    ASSUME TransferInv, [Next]_vars
    PROVE  AsideFirst'
<1>1. Move
    BY StepIsMove DEF TransferInv
<1>2. \A x \in Requests : reservation[x] # "NONE" => reservation'[x] # "NONE"
    BY <1>1 DEF Move, Still, Reserve, Refund, Withdraw, TransferInv, IInv, TypeOK
<1>3. ASSUME NEW x \in raced'
      PROVE  reservation'[x] # "NONE"
    <2>1. CASE x \in raced
        BY <1>2, <2>1 DEF TransferInv, AsideFirst, IInv, TypeOK
    <2>2. CASE x \notin raced
        BY <1>1, <1>3, <2>2
        DEF Move, Still, Reserve, Refund, Withdraw, Marks, TransferInv, IInv, TypeOK
    <2>3. QED
        BY <2>1, <2>2
<1>4. ASSUME NEW x \in Requests, route'[x] = "reserved"
      PROVE  reservation'[x] # "NONE"
    BY <1>2, <1>4, ReservedStep DEF TransferInv, AsideFirst
<1>5. QED
    BY <1>3, <1>4 DEF AsideFirst

(* Only the bank changes what became of a payout, and nothing else then. *)
LEMMA BankAlone ==
    ASSUME IInv, [Next]_vars
    PROVE  payout' = payout \/ (Still /\ \E x \in Requests : BankStep(x))
<1> USE DEF IInv
<1>1. ASSUME NEW w \in Workers,
             \/ CommitReserve(w) \/ CommitRelease(w) \/ CommitSettle(w)
             \/ SettleDuplicate(w) \/ Abort(w)
      PROVE  payout' = payout
    BY <1>1 DEF CommitReserve, CommitRelease, CommitSettle, SettleDuplicate, Abort
<1>2. ASSUME NEW x \in Requests, RouteCreate(x) \/ RouteCreateFails(x)
      PROVE  payout' = payout \/ (Still /\ BankStep(x))
    <2>1. route[x] = "reserved" /\ payout[x] = "NONE"
        BY <1>2 DEF RouteCreate, RouteCreateFails, Step, Control, RouteSound
    <2>2. Still
        BY <1>2 DEF RouteCreate, RouteCreateFails, Still, money, rows
    <2>3. payout' \in {payout, [payout EXCEPT ![x] = "PENDING"], [payout EXCEPT ![x] = "FAILED"]}
        BY <1>2 DEF RouteCreate, RouteCreateFails
    <2>4. QED
        BY <2>1, <2>2, <2>3 DEF BankStep
<1>3. ASSUME NEW x \in Requests, Finalize(x)
      PROVE  payout' = payout \/ (Still /\ BankStep(x))
    <2>1. Still
        BY <1>3 DEF Finalize, Still, money, rows
    <2>2. CASE payout[x] = "PENDING"
        <3>1. \/ payout' = [payout EXCEPT ![x] = "PAID"]
              \/ payout' = [payout EXCEPT ![x] = "FAILED"]
            BY <1>3, <2>2 DEF Finalize
        <3>2. QED
            BY <2>1, <2>2, <3>1 DEF BankStep
    <2>3. CASE payout[x] = "FAILED"
        <3>1. payout' = [payout EXCEPT ![x] = "FAILED"]
            BY <1>3, <2>3 DEF Finalize
        <3>2. payout' = payout
            BY <2>3, <3>1 DEF TypeOK
        <3>3. QED
            BY <3>2
    <2>4. QED
        BY <1>3, <2>2, <2>3 DEF Finalize
<1>4. ASSUME NEW x \in Requests,
             \/ RouteChecks(x) \/ RouteAttach(x) \/ RoutePublish(x) \/ RouteCrash(x)
             \/ WebhookArrives(x) \/ WebhookSkipped(x) \/ WebhookCrash(x) \/ WebhookLost(x)
      PROVE  payout' = payout
    BY <1>4
    DEF RouteChecks, RouteAttach, RoutePublish, RouteCrash,
        WebhookArrives, WebhookSkipped, WebhookCrash, WebhookLost
<1>5. ASSUME NEW x \in Requests, NEW w \in Workers,
             \/ BeginReserve(w, x) \/ RouteRelease(w, x)
             \/ HandleSuccess(w, x) \/ HandleFailure(w, x)
             \/ HandlePayoutCreated(w, x) \/ Poll(w, x) \/ Sweep(w, x)
      PROVE  payout' = payout
    BY <1>5
    DEF BeginReserve, RouteRelease, HandleSuccess, HandleFailure, HandlePayoutCreated, Poll, Sweep
<1>6. CASE UNCHANGED vars
    BY <1>6 DEF vars
<1>7. QED
    BY <1>1, <1>2, <1>3, <1>4, <1>5, <1>6 DEF Next

(* The contract's view of the wallets and of the requests. *)
HeldBy == [u \in Users |-> balance[u] + locked[u]]
Outcomes == [x \in Requests |-> OutcomeOf(x)]

LEMMA OutcomeElsewhere ==
    ASSUME TypeOK, NEW x \in Requests, Reserve(x) \/ Refund(x) \/ Withdraw(x)
    PROVE  Outcomes' = [Outcomes EXCEPT ![x] = OutcomeOf(x)']
<1>1. /\ \A y \in Requests : y # x => reservation'[y] = reservation[y]
      /\ \A y \in Requests : y # x => (y \in raced' <=> y \in raced)
    BY DEF Reserve, Refund, Withdraw, Marks, TypeOK
<1>2. \A y \in Requests : reservation[y] \in {"NONE", "ACTIVE", "CONSUMED", "RELEASED"}
    BY DEF TypeOK, Reservations
<1>3. \A y \in Requests : y # x => OutcomeOf(y)' = OutcomeOf(y)
    BY <1>1, <1>2 DEF OutcomeOf
<1>4. QED
    BY <1>3 DEF Outcomes

(* Money set aside or freed stays in the wallet. *)
LEMMA HeldStays ==
    ASSUME TypeOK, NEW x \in Requests, Reserve(x) \/ Refund(x)
    PROVE  HeldBy' = HeldBy
<1>1. UserOf[x] \in Users /\ Amount[x] \in Int
    BY WithdrawalsAssumption
<1>2. \A u \in Users : balance'[u] + locked'[u] = balance[u] + locked[u]
    BY <1>1 DEF Reserve, Refund, TypeOK
<1>3. QED
    BY <1>2 DEF HeldBy

LEMMA HeldFalls ==
    ASSUME TypeOK, NEW x \in Requests, Withdraw(x)
    PROVE  HeldBy' = [HeldBy EXCEPT ![UserOf[x]] = HeldBy[UserOf[x]] - Amount[x]]
<1>1. UserOf[x] \in Users /\ Amount[x] \in Int
    BY WithdrawalsAssumption
<1>2. \A u \in Users :
          balance'[u] + locked'[u] =
              IF u = UserOf[x] THEN (balance[u] + locked[u]) - Amount[x] ELSE balance[u] + locked[u]
    BY <1>1 DEF Withdraw, TypeOK
<1>3. QED
    BY <1>1, <1>2 DEF HeldBy

(* A refund or a withdrawal of a request that is not raced ends it; any    *)
(* other is of a request that is or becomes contested.                     *)
LEMMA OutcomeMoves ==
    ASSUME TypeOK, AsideFirst, NEW x \in Requests
    PROVE  /\ Reserve(x) => OutcomeOf(x) = "OPEN" /\ OutcomeOf(x)' = "ASIDE"
           /\ Refund(x) =>
                 \/ OutcomeOf(x) = "ASIDE" /\ OutcomeOf(x)' = "RETURNED"
                 \/ /\ OutcomeOf(x) \in {"RETURNED", "PAID", "CONTESTED"}
                    /\ OutcomeOf(x)' = "CONTESTED"
           /\ Withdraw(x) =>
                 \/ OutcomeOf(x) = "ASIDE" /\ OutcomeOf(x)' = "PAID"
                 \/ /\ OutcomeOf(x) \in {"RETURNED", "PAID", "CONTESTED"}
                    /\ OutcomeOf(x)' = "CONTESTED"
<1>1. reservation[x] \in {"NONE", "ACTIVE", "CONSUMED", "RELEASED"}
    BY DEF TypeOK, Reservations
<1>2. x \in raced => reservation[x] # "NONE"
    BY DEF AsideFirst
<1>3. Reserve(x) => x \notin raced /\ x \notin raced' /\ reservation'[x] = "ACTIVE"
    BY <1>2 DEF Reserve, TypeOK
<1>4. Refund(x) => reservation'[x] = "RELEASED"
    BY DEF Refund, TypeOK
<1>5. Withdraw(x) => reservation'[x] = "CONSUMED"
    BY DEF Withdraw, TypeOK
<1>6. Reserve(x) => OutcomeOf(x) = "OPEN" /\ OutcomeOf(x)' = "ASIDE"
    BY <1>3 DEF Reserve, OutcomeOf
<1>7. ASSUME Refund(x) \/ Withdraw(x)
      PROVE  \/ /\ OutcomeOf(x) = "ASIDE" /\ x \notin raced'
             \/ /\ OutcomeOf(x) \in {"RETURNED", "PAID", "CONTESTED"}
                /\ OutcomeOf(x)' = "CONTESTED"
    <2>1. Marks(x)
        BY <1>7 DEF Refund, Withdraw
    <2>2. CASE x \in raced
        BY <2>1, <2>2 DEF Marks, OutcomeOf
    <2>3. CASE x \notin raced /\ reservation[x] = "ACTIVE"
        BY <2>1, <2>3 DEF Marks, OutcomeOf
    <2>4. CASE x \notin raced /\ reservation[x] # "ACTIVE"
        BY <1>1, <2>1, <2>4 DEF Marks, OutcomeOf
    <2>5. QED
        BY <2>2, <2>3, <2>4
<1>8. QED
    BY <1>4, <1>5, <1>6, <1>7 DEF OutcomeOf

LEMMA StepKeepsTransfers == TransferInv /\ [Next]_vars => [Transfers!Next]_(Transfers!vars)
<1> SUFFICES ASSUME TransferInv, [Next]_vars
             PROVE  [Transfers!Next]_(Transfers!vars)
    OBVIOUS
<1>1. TypeOK /\ AsideFirst /\ IInv'
    BY NextControl DEF TransferInv, IInv
<1>2. Move
    BY StepIsMove DEF TransferInv
<1>3. payout' = payout \/ (Still /\ \E x \in Requests : BankStep(x))
    BY BankAlone DEF TransferInv
<1>4. ASSUME Still
      PROVE  HeldBy' = HeldBy /\ Outcomes' = Outcomes /\ balance' = balance /\ withdrawn' = withdrawn
    BY <1>4 DEF Still, HeldBy, Outcomes, OutcomeOf
<1>5. CASE Still /\ payout' = payout
    BY <1>4, <1>5 DEF Transfers!vars, HeldBy, Outcomes
<1>6. ASSUME NEW x \in Requests, Still, BankStep(x)
      PROVE  Transfers!Next
    <2>1. CASE payout[x] = "NONE" /\ route[x] = "reserved"
        <3>1. reservation[x] # "NONE"
            BY <1>1, <2>1 DEF AsideFirst
        <3>2. OutcomeOf(x) # "OPEN"
            BY <1>1, <3>1 DEF OutcomeOf, TypeOK, Reservations
        <3>3. Transfers!Ask(x)
            BY <1>4, <1>6, <2>1, <3>2 DEF BankStep, Transfers!Ask, HeldBy, Outcomes
        <3>4. QED
            BY <3>3 DEF Transfers!Next
    <2>2. CASE payout[x] = "PENDING"
        <3>1. Transfers!Decide(x)
            BY <1>4, <1>6, <2>2 DEF BankStep, Transfers!Decide, HeldBy, Outcomes
        <3>2. QED
            BY <3>1 DEF Transfers!Next
    <2>3. QED
        BY <1>6, <2>1, <2>2 DEF BankStep
<1>7. ASSUME NEW x \in Requests, Reserve(x), payout' = payout
      PROVE  Transfers!Next
    <2>1. HeldBy' = HeldBy
        BY <1>1, <1>7, HeldStays
    <2>2. Outcomes[x] = "OPEN" /\ Outcomes' = [Outcomes EXCEPT ![x] = "ASIDE"]
        BY <1>1, <1>7, OutcomeElsewhere, OutcomeMoves DEF Outcomes
    <2>3. Transfers!SetAside(x)
        BY <1>7, <2>1, <2>2 DEF Reserve, HeldBy, Outcomes, Transfers!SetAside, Transfers!Ends
    <2>4. QED
        BY <2>3 DEF Transfers!Next
<1>8. ASSUME NEW x \in Requests, Refund(x), payout' = payout
      PROVE  Transfers!Next
    <2>1. HeldBy' = HeldBy
        BY <1>1, <1>8, HeldStays
    <2>2. Transfers!Frees(x)
        BY <1>8, <2>1 DEF Refund, HeldBy, Transfers!Frees
    <2>3. CASE OutcomeOf(x) = "ASIDE" /\ OutcomeOf(x)' = "RETURNED"
        <3>1. Outcomes[x] = "ASIDE" /\ Outcomes' = [Outcomes EXCEPT ![x] = "RETURNED"]
            BY <1>1, <1>8, <2>3, OutcomeElsewhere DEF Outcomes
        <3>2. Transfers!Return(x)
            BY <2>2, <3>1 DEF Outcomes, Transfers!Return, Transfers!Ends
        <3>3. QED
            BY <3>2 DEF Transfers!Next
    <2>4. CASE OutcomeOf(x) \in {"RETURNED", "PAID", "CONTESTED"} /\ OutcomeOf(x)' = "CONTESTED"
        <3>1. /\ Outcomes[x] \in {"RETURNED", "PAID", "CONTESTED"}
              /\ Outcomes' = [Outcomes EXCEPT ![x] = "CONTESTED"]
            BY <1>1, <1>8, <2>4, OutcomeElsewhere DEF Outcomes
        <3>2. Transfers!Contest(x)
            BY <2>2, <3>1 DEF Outcomes, Transfers!Contest, Transfers!Ends
        <3>3. QED
            BY <3>2 DEF Transfers!Next
    <2>5. QED
        BY <1>1, <1>8, <2>3, <2>4, OutcomeMoves
<1>9. ASSUME NEW x \in Requests, Withdraw(x), payout' = payout
      PROVE  Transfers!Next
    <2>1. HeldBy' = [HeldBy EXCEPT ![UserOf[x]] = HeldBy[UserOf[x]] - Amount[x]]
        BY <1>1, <1>9, HeldFalls
    <2>2. payout[x] = "PAID"
        BY <1>1, <1>9 DEF Withdraw, IInv, Control, FateSound
    <2>3. Transfers!Leaves(x)
        BY <1>9, <2>1, <2>2 DEF Withdraw, HeldBy, Transfers!Leaves
    <2>4. CASE OutcomeOf(x) = "ASIDE" /\ OutcomeOf(x)' = "PAID"
        <3>1. Outcomes[x] = "ASIDE" /\ Outcomes' = [Outcomes EXCEPT ![x] = "PAID"]
            BY <1>1, <1>9, <2>4, OutcomeElsewhere DEF Outcomes
        <3>2. Transfers!Pay(x)
            BY <2>3, <3>1 DEF Outcomes, Transfers!Pay, Transfers!Ends
        <3>3. QED
            BY <3>2 DEF Transfers!Next
    <2>5. CASE OutcomeOf(x) \in {"RETURNED", "PAID", "CONTESTED"} /\ OutcomeOf(x)' = "CONTESTED"
        <3>1. /\ Outcomes[x] \in {"RETURNED", "PAID", "CONTESTED"}
              /\ Outcomes' = [Outcomes EXCEPT ![x] = "CONTESTED"]
            BY <1>1, <1>9, <2>5, OutcomeElsewhere DEF Outcomes
        <3>2. Transfers!Contest(x)
            BY <2>3, <3>1 DEF Outcomes, Transfers!Contest, Transfers!Ends
        <3>3. QED
            BY <3>2 DEF Transfers!Next
    <2>6. QED
        BY <1>1, <1>9, <2>4, <2>5, OutcomeMoves
<1>10. QED
    BY <1>2, <1>3, <1>5, <1>6, <1>7, <1>8, <1>9 DEF Move

LEMMA InitKeepsTransfers == Init => Transfers!Init /\ AsideFirst
<1> SUFFICES ASSUME Init
             PROVE  Transfers!Init /\ AsideFirst
    OBVIOUS
<1>1. HeldBy = Funds
    <2>1. \A u \in Users : balance[u] + locked[u] = Funds[u]
        BY WithdrawalsAssumption DEF Init
    <2>2. QED
        BY <2>1, WithdrawalsAssumption DEF HeldBy
<1>2. Outcomes = [x \in Requests |-> "OPEN"]
    BY DEF Init, Outcomes, OutcomeOf
<1>3. Transfers!Init
    BY <1>1, <1>2 DEF Init, HeldBy, Outcomes, Transfers!Init
<1>4. AsideFirst
    BY DEF Init, AsideFirst
<1>5. QED
    BY <1>3, <1>4

(* The withdrawal code keeps the contract of a bank transfer: whoever      *)
(* releases or settles, in whatever order and however often, the amount is *)
(* set aside once, leaves the wallet once and only when the bank has paid, *)
(* and returns otherwise; a request ended twice is contested, not paid     *)
(* twice.                                                                  *)
THEOREM WithdrawalsImplementTransfers == Spec => KeepsTransferContract
<1>1. Init => TransferInv /\ Transfers!Init
    BY InitTypeOK, InitControl, InitKeepsTransfers DEF TransferInv, IInv
<1>2. TransferInv /\ [Next]_vars => TransferInv'
    BY NextControl, AsideStep DEF TransferInv
<1>3. QED
    BY <1>1, <1>2, StepKeepsTransfers, PTL
    DEF Spec, Transfers!Spec, KeepsTransferContract
=============================================================================

-------------------------- MODULE RideHolds_proofs --------------------------
(***************************************************************************)
(* A ride alone and a ride shared.  For every set of riders, drivers,      *)
(* rides, callers and fares: the types of the wallet and hold columns,     *)
(* the money invariants of RideHolds, and that it implements               *)
(* RideSettlement.  In the second half, for every set of match requests    *)
(* and groups, any number of crashes and of messages waiting: the types of *)
(* GroupRides, who is seated and who is offered, and that both searches of *)
(* StopSequencer order the stops so that they serve the group.             *)
(***************************************************************************)
EXTENDS RideHolds, GroupRides, TallyTheorems, SequenceTheorems

(* What an open transaction has read and was asked for. *)
LEMMA TxFields ==
    ASSUME TypeOK, NEW w \in Workers
    PROVE  /\ tx[w].op = "debit" =>
                  tx[w].rider \in Riders /\ tx[w].amount \in Transfers
           /\ tx[w].op = "create" =>
                  tx[w].ride \in Rides /\ tx[w].amount \in Amounts
           /\ tx[w].op = "adjust" =>
                  /\ tx[w].ride \in Rides
                  /\ tx[w].seen \in Amounts
                  /\ tx[w].target \in Amounts
           /\ tx[w].op = "cancel" =>
                  tx[w].ride \in Rides /\ tx[w].seen \in Amounts
           /\ tx[w].op = "complete" =>
                  /\ tx[w].ride \in Rides
                  /\ tx[w].seen \in Amounts
                  /\ tx[w].fare \in Fares
                  /\ tx[w].driver \in Drivers
<1>1. tx[w] \in Transactions \cup {Idle}
    BY DEF TypeOK
<1>2. QED
    BY <1>1 DEF Transactions, Idle

(* The two parts of a fare are within it. *)
LEMMA FeeSplit ==
    ASSUME NEW fare \in Fares
    PROVE  /\ DriverPayout(fare) \in 0..MaxAmount
           /\ PlatformTotal(fare) \in 0..MaxAmount
           /\ DriverPayout(fare) + PlatformTotal(fare) = fare
<1>1. fare \in 0..MaxAmount /\ Deduction[fare] \in Nat /\ MaxAmount \in Nat
    BY RideHoldsAssumption
<1>2. QED
    BY <1>1 DEF DriverPayout, PlatformTotal

-----------------------------------------------------------------------------

(***************************************************************************)
(* What a transaction may do to the money, with its inputs as parameters.  *)
(* Every step is one of these six; the invariants are proved of them.      *)
(***************************************************************************)
Quiet == UNCHANGED <<balance, locked, hold, payouts, earned, platform, funded, stale>>

Fund(rd, n) ==
    /\ balance' = [balance EXCEPT ![rd] = @ + n]
    /\ funded' = [funded EXCEPT ![rd] = @ + n]
    /\ UNCHANGED <<locked, hold, payouts, earned, platform, stale>>

(* The hold row moved money it was read for, or is marked stale. *)
Marks(r, seen) ==
    /\ stale' \in {stale, stale \cup {r}}
    /\ r \notin stale' => hold[r].status = "ACTIVE" /\ hold[r].amount = seen

Secure(r, n) ==
    /\ hold[r].status = "NONE"
    /\ balance' = [balance EXCEPT ![RiderOf[r]] = @ - n]
    /\ locked' = [locked EXCEPT ![RiderOf[r]] = @ + n]
    /\ hold' = [hold EXCEPT ![r] = [status |-> "ACTIVE", amount |-> n, settled |-> 0]]
    /\ UNCHANGED <<payouts, earned, platform, funded, stale>>

Adjust(r, seen, n) ==
    /\ Marks(r, seen)
    /\ balance' = [balance EXCEPT ![RiderOf[r]] = @ - (n - seen)]
    /\ locked' = [locked EXCEPT ![RiderOf[r]] = @ + (n - seen)]
    /\ hold' = [hold EXCEPT ![r].amount = n]
    /\ UNCHANGED <<payouts, earned, platform, funded>>

Release(r, seen) ==
    /\ hold[r].status = "ACTIVE"
    /\ Marks(r, seen)
    /\ balance' = [balance EXCEPT ![RiderOf[r]] = @ + seen]
    /\ locked' = [locked EXCEPT ![RiderOf[r]] = @ - seen]
    /\ hold' = [hold EXCEPT ![r].status = "RELEASED"]
    /\ UNCHANGED <<payouts, earned, platform, funded>>

Charge(r, seen, fare, d) ==
    /\ hold[r].status = "ACTIVE"
    /\ payouts[r] = {}
    /\ Marks(r, seen)
    /\ balance' = [balance EXCEPT ![RiderOf[r]] = @ + seen - fare]
    /\ locked' = [locked EXCEPT ![RiderOf[r]] = @ - seen]
    /\ hold' = [hold EXCEPT ![r].status = "CHARGED", ![r].settled = fare]
    /\ payouts' = [payouts EXCEPT ![r] = @ \cup {d}]
    /\ earned' = [earned EXCEPT ![d] = @ + DriverPayout(fare)]
    /\ platform' = platform + PlatformTotal(fare)
    /\ UNCHANGED funded

Move ==
    \/ Quiet
    \/ \E rd \in Riders, n \in Transfers : Fund(rd, n) \/ Fund(rd, -n)
    \/ \E r \in Rides :
          \/ \E n \in Amounts : Secure(r, n)
          \/ \E seen \in Amounts, n \in Amounts : Adjust(r, seen, n)
          \/ \E seen \in Amounts : Release(r, seen)
          \/ \E seen \in Amounts, fare \in Fares, d \in Drivers :
                Charge(r, seen, fare, d)

LEMMA TransfersAreInt == \A n \in Transfers : n \in Int /\ -n \in Int
BY RideHoldsAssumption

LEMMA StepIsMove == TypeOK /\ [Next]_vars => Move
<1> SUFFICES ASSUME TypeOK, [Next]_vars
             PROVE  Move
    OBVIOUS
<1>1. ASSUME NEW rd \in Riders, NEW amount \in Transfers, Deposit(rd, amount)
      PROVE  Move
    <2>1. Fund(rd, amount)
        BY <1>1 DEF Deposit, Fund, charges
    <2>2. QED
        BY <2>1 DEF Move
<1>2. ASSUME NEW w \in Workers, NEW t, Begin(w, t)
      PROVE  Move
    BY <1>2 DEF Begin, Move, Quiet, charges
<1>3. ASSUME NEW w \in Workers, CommitDebit(w)
      PROVE  Move
    <2>1. tx[w].rider \in Riders /\ tx[w].amount \in Transfers
        BY <1>3, TxFields DEF CommitDebit
    <2>2. PICK rd \in Riders, amount \in Transfers :
              rd = tx[w].rider /\ amount = tx[w].amount
        BY <2>1
    <2>3. amount \in Int /\ -amount \in Int
        BY RideHoldsAssumption
    <2>4. /\ balance' = [balance EXCEPT ![rd] = balance[rd] - amount]
          /\ funded' = [funded EXCEPT ![rd] = funded[rd] - amount]
          /\ UNCHANGED <<locked, hold, payouts, earned, platform, stale>>
        BY <1>3, <2>2 DEF CommitDebit, charges
    <2>5. balance[rd] \in Int /\ funded[rd] \in Int
        BY DEF TypeOK
    <2>6. Fund(rd, -amount)
        BY <2>3, <2>4, <2>5 DEF Fund
    <2>7. QED
        BY <2>6 DEF Move
<1>4. ASSUME NEW w \in Workers, CommitCreateRideHold(w)
      PROVE  Move
    <2>1. tx[w].ride \in Rides /\ tx[w].amount \in Amounts
        BY <1>4, TxFields DEF CommitCreateRideHold
    <2>2. PICK r \in Rides, n \in Amounts : r = tx[w].ride /\ n = tx[w].amount
        BY <2>1
    <2>3. Secure(r, n) \/ Quiet
        BY <1>4, <2>2 DEF CommitCreateRideHold, HasHold, Lock, Secure, Quiet
    <2>4. QED
        BY <2>3 DEF Move
<1>5. ASSUME NEW w \in Workers, CommitAdjustRideHold(w)
      PROVE  Move
    <2>1. /\ tx[w].ride \in Rides
          /\ tx[w].seen \in Amounts
          /\ tx[w].target \in Amounts
        BY <1>5, TxFields DEF CommitAdjustRideHold
    <2>2. PICK r \in Rides, seen \in Amounts, n \in Amounts :
              r = tx[w].ride /\ seen = tx[w].seen /\ n = tx[w].target
        BY <2>1
    <2>3. Adjust(r, seen, n)
        BY <1>5, <2>2
        DEF CommitAdjustRideHold, AdjustedAmount, Lock, Adjust, Marks
    <2>4. QED
        BY <2>3 DEF Move
<1>6. ASSUME NEW w \in Workers, CommitCancelRideHold(w)
      PROVE  Move
    <2>1. tx[w].ride \in Rides /\ tx[w].seen \in Amounts
        BY <1>6, TxFields DEF CommitCancelRideHold
    <2>2. PICK r \in Rides, seen \in Amounts : r = tx[w].ride /\ seen = tx[w].seen
        BY <2>1
    <2>3. CASE Claimable(r)
        <3>1. seen \in Int /\ RiderOf[r] \in Riders
            BY RideHoldsAssumption DEF Amounts
        <3>2. /\ balance' = [balance EXCEPT ![RiderOf[r]] = balance[RiderOf[r]] - (-seen)]
              /\ locked' = [locked EXCEPT ![RiderOf[r]] = locked[RiderOf[r]] + (-seen)]
              /\ Marks(r, seen)
              /\ hold' = [hold EXCEPT ![r].status = "RELEASED"]
              /\ UNCHANGED <<payouts, earned, platform, funded>>
            BY <1>6, <2>2, <2>3 DEF CommitCancelRideHold, Lock, Marks, Claimable
        <3>3. balance[RiderOf[r]] \in Int /\ locked[RiderOf[r]] \in Int
            BY <3>1 DEF TypeOK
        <3>4. /\ balance[RiderOf[r]] - (-seen) = balance[RiderOf[r]] + seen
              /\ locked[RiderOf[r]] + (-seen) = locked[RiderOf[r]] - seen
            BY <3>1, <3>3
        <3>5. Release(r, seen)
            BY <2>3, <3>2, <3>4, Zenon DEF Release, Claimable
        <3>6. QED
            BY <3>5 DEF Move
    <2>4. CASE ~Claimable(r)
        BY <1>6, <2>2, <2>4 DEF CommitCancelRideHold, Move, Quiet
    <2>5. QED
        BY <2>3, <2>4
<1>7. ASSUME NEW w \in Workers, CommitCompleteRideHold(w)
      PROVE  Move
    <2>1. /\ tx[w].ride \in Rides
          /\ tx[w].seen \in Amounts
          /\ tx[w].fare \in Fares
          /\ tx[w].driver \in Drivers
        BY <1>7, TxFields DEF CommitCompleteRideHold
    <2>2. PICK r \in Rides, seen \in Amounts, fare \in Fares, d \in Drivers :
              /\ r = tx[w].ride
              /\ seen = tx[w].seen
              /\ fare = tx[w].fare
              /\ d = tx[w].driver
        BY <2>1
    <2>3. Charge(r, seen, fare, d) \/ Quiet
        BY <1>7, <2>2
        DEF CommitCompleteRideHold, Payable, Claimable, Marks, Charge, Quiet, charges
    <2>4. QED
        BY <2>3 DEF Move
<1>8. ASSUME NEW w \in Workers, Abort(w)
      PROVE  Move
    BY <1>8 DEF Abort, Move, Quiet, charges
<1>9. CASE UNCHANGED vars
    BY <1>9 DEF vars, Move, Quiet
<1>10. QED
    BY <1>1, <1>2, <1>3, <1>4, <1>5, <1>6, <1>7, <1>8, <1>9
    DEF Next, BeginDebit, BeginCreateRideHold, BeginAdjustRideHold,
        BeginCancelRideHold, BeginCompleteRideHold

-----------------------------------------------------------------------------

TxTyped == tx \in [Workers -> Transactions \cup {Idle}]

(* Beginning a transaction records what it read, and ending one forgets it. *)
LEMMA BeginTyped ==
    ASSUME TypeOK, NEW w \in Workers, NEW t \in Transactions, Begin(w, t)
    PROVE  TxTyped'
BY DEF TypeOK, TxTyped, Begin

LEMMA EndTyped ==
    ASSUME TypeOK, NEW w \in Workers, End(w)
    PROVE  TxTyped'
BY DEF TypeOK, TxTyped, End

LEMMA TransactionsTyped ==
    TypeOK /\ [Next]_vars => TxTyped'
<1> SUFFICES ASSUME TypeOK, [Next]_vars
             PROVE  TxTyped'
    OBVIOUS
<1>1. ASSUME NEW rd \in Riders, NEW amount \in Transfers, Deposit(rd, amount)
      PROVE  TxTyped'
    BY <1>1 DEF Deposit, TypeOK, TxTyped
<1>2. ASSUME NEW w \in Workers, NEW rd \in Riders, NEW amount \in Transfers,
             BeginDebit(w, rd, amount)
      PROVE  TxTyped'
    <2>1. [op |-> "debit", rider |-> rd, amount |-> amount] \in Transactions
        BY DEF Transactions
    <2>2. QED
        BY <1>2, <2>1, BeginTyped DEF BeginDebit
<1>3. ASSUME NEW w \in Workers, NEW r \in Rides, NEW fare \in Fares,
             BeginCreateRideHold(w, r, fare)
      PROVE  TxTyped'
    <2>1. [op |-> "create", ride |-> r, amount |-> fare] \in Transactions
        BY RideHoldsAssumption DEF Transactions, Amounts
    <2>2. QED
        BY <1>3, <2>1, BeginTyped DEF BeginCreateRideHold
<1>4. ASSUME NEW w \in Workers, NEW r \in Rides, NEW fare \in Fares,
             BeginAdjustRideHold(w, r, fare)
      PROVE  TxTyped'
    <2>1. [op |-> "adjust", ride |-> r, seen |-> hold[r].amount,
           target |-> fare] \in Transactions
        BY RideHoldsAssumption DEF Transactions, Amounts, TypeOK
    <2>2. QED
        BY <1>4, <2>1, BeginTyped DEF BeginAdjustRideHold
<1>5. ASSUME NEW w \in Workers, NEW r \in Rides, NEW fare \in Fares,
             NEW d \in Drivers, BeginCompleteRideHold(w, r, fare, d)
      PROVE  TxTyped'
    <2>1. [op |-> "complete", ride |-> r, seen |-> hold[r].amount,
           fare |-> fare, driver |-> d] \in Transactions
        BY DEF Transactions, Amounts, TypeOK
    <2>2. QED
        BY <1>5, <2>1, BeginTyped DEF BeginCompleteRideHold
<1>6. ASSUME NEW w \in Workers, NEW r \in Rides, BeginCancelRideHold(w, r)
      PROVE  TxTyped'
    <2>1. [op |-> "cancel", ride |-> r, seen |-> hold[r].amount]
              \in Transactions
        BY DEF Transactions, Amounts, TypeOK
    <2>2. QED
        BY <1>6, <2>1, BeginTyped DEF BeginCancelRideHold
<1>7. ASSUME NEW w \in Workers,
             \/ CommitDebit(w)
             \/ CommitCreateRideHold(w)
             \/ CommitAdjustRideHold(w)
             \/ CommitCancelRideHold(w)
             \/ CommitCompleteRideHold(w)
             \/ Abort(w)
      PROVE  TxTyped'
    <2>1. End(w)
        BY <1>7
        DEF CommitDebit, CommitCreateRideHold, CommitAdjustRideHold,
            CommitCancelRideHold, CommitCompleteRideHold, Abort
    <2>2. QED
        BY <2>1, EndTyped
<1>8. CASE UNCHANGED vars
    BY <1>8 DEF vars, TypeOK, TxTyped
<1>9. QED
    BY <1>1, <1>2, <1>3, <1>4, <1>5, <1>6, <1>7, <1>8 DEF Next

-----------------------------------------------------------------------------

LEMMA InitTypeOK == Init => TypeOK
BY RideHoldsAssumption DEF Init, TypeOK, Statuses, Amounts

LEMMA MoveTypeOK ==
    ASSUME TypeOK, Move, TxTyped'
    PROVE  TypeOK'
<1> USE RideHoldsAssumption DEF TxTyped
<1>1. CASE Quiet
    BY <1>1 DEF Quiet, TypeOK
<1>2. ASSUME NEW rd \in Riders, NEW n \in Int, Fund(rd, n)
      PROVE  TypeOK'
    BY <1>2 DEF Fund, TypeOK
<1>3. ASSUME NEW r \in Rides, NEW n \in Amounts, Secure(r, n)
      PROVE  TypeOK'
    BY <1>3 DEF Secure, TypeOK, Amounts, Statuses
<1>4. ASSUME NEW r \in Rides, NEW seen \in Amounts, NEW n \in Amounts,
             Adjust(r, seen, n)
      PROVE  TypeOK'
    BY <1>4 DEF Adjust, Marks, TypeOK, Amounts
<1>5. ASSUME NEW r \in Rides, NEW seen \in Amounts, Release(r, seen)
      PROVE  TypeOK'
    BY <1>5 DEF Release, Marks, TypeOK, Amounts, Statuses
<1>6. ASSUME NEW r \in Rides, NEW seen \in Amounts, NEW fare \in Fares,
             NEW d \in Drivers, Charge(r, seen, fare, d)
      PROVE  TypeOK'
    <2>1. /\ DriverPayout(fare) \in Int
          /\ PlatformTotal(fare) \in Int
          /\ fare \in Amounts
        BY FeeSplit DEF Amounts
    <2>2. hold' \in [Rides -> [status : Statuses, amount : Amounts, settled : Amounts]]
        BY <1>6, <2>1 DEF Charge, TypeOK, Statuses
    <2>3. /\ balance' \in [Riders -> Int]
          /\ locked' \in [Riders -> Int]
          /\ funded' \in [Riders -> Int]
        BY <1>6, <2>1 DEF Charge, TypeOK, Amounts
    <2>4. /\ payouts' \in [Rides -> SUBSET Drivers]
          /\ stale' \in SUBSET Rides
        BY <1>6 DEF Charge, Marks, TypeOK
    <2>5. earned' \in [Drivers -> Int] /\ platform' \in Int
        BY <1>6, <2>1 DEF Charge, TypeOK
    <2>6. QED
        BY <2>2, <2>3, <2>4, <2>5 DEF TypeOK
<1>7. QED
    BY <1>1, <1>2, <1>3, <1>4, <1>5, <1>6, TransfersAreInt DEF Move

LEMMA NextTypeOK == TypeOK /\ [Next]_vars => TypeOK'
BY StepIsMove, TransactionsTyped, MoveTypeOK

(* The wallet and hold columns keep their types, whatever interleaves. *)
THEOREM TypeCorrect == Spec => []TypeOK
BY InitTypeOK, NextTypeOK, PTL DEF Spec

-----------------------------------------------------------------------------
(***************************************************************************)
(* The money invariants.  The four of them together are inductive: a       *)
(* charge keeps RiderMoneyConserved because PaidOncePerCharge says that an *)
(* ACTIVE hold was charged nothing yet.                                    *)
(***************************************************************************)
Money == LockedBacksHolds /\ RiderMoneyConserved /\ PaidOncePerCharge

IInv == TypeOK /\ Money

(* The columns of the sums are amounts. *)
LEMMA ColumnTypes ==
    ASSUME TypeOK
    PROVE  /\ \A rd \in Riders : ActiveHold(rd) \in [Rides -> 0..MaxAmount]
           /\ \A rd \in Riders : ChargedFare(rd) \in [Rides -> 0..MaxAmount]
<1>1. \A r \in Rides : hold[r].amount \in 0..MaxAmount /\ hold[r].settled \in 0..MaxAmount
    BY DEF TypeOK, Amounts
<1>2. 0 \in 0..MaxAmount
    BY RideHoldsAssumption
<1>3. QED
    BY <1>1, <1>2 DEF ActiveHold, ChargedFare

(* A fare charged is a fare of the deployment, so its split is an amount. *)
LEMMA ShareTypes ==
    ASSUME ChargedHasOnePayout
    PROVE  /\ \A d \in Drivers : PayoutOf(d) \in [Rides -> 0..MaxAmount]
           /\ PlatformTake \in [Rides -> 0..MaxAmount]
<1>1. 0 \in 0..MaxAmount
    BY RideHoldsAssumption
<1>2. ASSUME NEW d \in Drivers, NEW r \in Rides
      PROVE  (IF d \in payouts[r] THEN DriverPayout(hold[r].settled) ELSE 0) \in 0..MaxAmount
    BY <1>1, FeeSplit DEF ChargedHasOnePayout
<1>3. ASSUME NEW r \in Rides
      PROVE  (IF hold[r].status = "CHARGED" THEN PlatformTotal(hold[r].settled) ELSE 0)
                 \in 0..MaxAmount
    BY <1>1, FeeSplit DEF ChargedHasOnePayout
<1>4. QED
    BY <1>2, <1>3 DEF PayoutOf, PlatformTake

(* A step that leaves every other ride's hold row alone changes the sums   *)
(* of a rider by what it changes at that ride.                             *)
LEMMA OneHoldChanged ==
    ASSUME TypeOK, TypeOK', NEW r \in Rides, NEW rd \in Riders,
           \A q \in Rides : q # r => hold'[q] = hold[q]
    PROVE  /\ Tally(ActiveHold(rd)', Rides, MaxAmount)
                  = Tally(ActiveHold(rd), Rides, MaxAmount)
                        - ActiveHold(rd)[r] + ActiveHold(rd)'[r]
           /\ Tally(ChargedFare(rd)', Rides, MaxAmount)
                  = Tally(ChargedFare(rd), Rides, MaxAmount)
                        - ChargedFare(rd)[r] + ChargedFare(rd)'[r]
<1>1. /\ ActiveHold(rd) \in [Rides -> 0..MaxAmount]
      /\ ChargedFare(rd) \in [Rides -> 0..MaxAmount]
    BY ColumnTypes
<1>2. /\ ActiveHold(rd)' \in [Rides -> 0..MaxAmount]
      /\ ChargedFare(rd)' \in [Rides -> 0..MaxAmount]
    <2>1. \A q \in Rides : hold'[q].amount \in 0..MaxAmount /\ hold'[q].settled \in 0..MaxAmount
        BY DEF TypeOK, Amounts
    <2>2. 0 \in 0..MaxAmount
        BY RideHoldsAssumption
    <2>3. QED
        BY <2>1, <2>2 DEF ActiveHold, ChargedFare
<1>3. \A q \in Rides : q # r => /\ ActiveHold(rd)'[q] = ActiveHold(rd)[q]
                                /\ ChargedFare(rd)'[q] = ChargedFare(rd)[q]
    BY DEF ActiveHold, ChargedFare
<1>4. IsFiniteSet(Rides) /\ MaxAmount \in Nat
    BY RideHoldsAssumption
<1> DEFINE f == ActiveHold(rd)
           g == ActiveHold(rd)'
           h == ChargedFare(rd)
           k == ChargedFare(rd)'
<1>5. /\ f \in [Rides -> 0..MaxAmount] /\ g \in [Rides -> 0..MaxAmount]
      /\ h \in [Rides -> 0..MaxAmount] /\ k \in [Rides -> 0..MaxAmount]
      /\ \A q \in Rides : q # r => g[q] = f[q]
      /\ \A q \in Rides : q # r => k[q] = h[q]
    BY <1>1, <1>2, <1>3
<1> HIDE DEF f, g, h, k
<1>6. DiffersAt(f, g, r, Rides, MaxAmount)
    BY <1>4, <1>5, TallyAt
<1>7. DiffersAt(h, k, r, Rides, MaxAmount)
    BY <1>4, <1>5, TallyAt
<1>8. QED
    BY <1>6, <1>7, Zenon DEF DiffersAt, f, g, h, k

(* A step that changes one hold row changes the rider's locked funds by    *)
(* what it changes of the ACTIVE amount, unless the ride is marked stale.  *)
LEMMA LockedFollows ==
    ASSUME TypeOK, TypeOK', LockedBacksHolds, NEW r \in Rides, NEW n \in Int,
           stale \subseteq stale',
           \A q \in Rides : q # r => hold'[q] = hold[q],
           locked' = [locked EXCEPT ![RiderOf[r]] = @ + n],
           r \notin stale' =>
               ActiveHold(RiderOf[r])'[r] = ActiveHold(RiderOf[r])[r] + n
    PROVE  LockedBacksHolds'
<1> SUFFICES ASSUME NEW rd \in Riders, \A q \in stale' : RiderOf[q] # rd
             PROVE  locked'[rd] = Tally(ActiveHold(rd)', Rides, MaxAmount)
    BY DEF LockedBacksHolds
<1>1. locked[rd] = Tally(ActiveHold(rd), Rides, MaxAmount)
    BY DEF LockedBacksHolds
<1>2. Tally(ActiveHold(rd)', Rides, MaxAmount)
          = Tally(ActiveHold(rd), Rides, MaxAmount)
                - ActiveHold(rd)[r] + ActiveHold(rd)'[r]
    BY OneHoldChanged
<1>3. /\ ActiveHold(rd)[r] \in Int
      /\ locked[rd] \in Int
      /\ RiderOf[r] \in Riders
    BY ColumnTypes, RideHoldsAssumption DEF TypeOK
<1>4. CASE RiderOf[r] = rd
    <2>1. ActiveHold(rd)'[r] = ActiveHold(rd)[r] + n
        BY <1>4
    <2>2. locked'[rd] = locked[rd] + n
        BY <1>3, <1>4 DEF TypeOK
    <2>3. QED
        BY <1>1, <1>2, <1>3, <2>1, <2>2
<1>5. CASE RiderOf[r] # rd
    <2>1. ActiveHold(rd)[r] = 0 /\ ActiveHold(rd)'[r] = 0
        BY <1>5 DEF ActiveHold
    <2>2. locked'[rd] = locked[rd]
        BY <1>3, <1>5 DEF TypeOK
    <2>3. QED
        BY <1>1, <1>2, <1>3, <2>1, <2>2
<1>6. QED
    BY <1>4, <1>5

LEMMA LockedStep ==
    ASSUME TypeOK, TypeOK', LockedBacksHolds, Move
    PROVE  LockedBacksHolds'
<1>1. CASE Quiet
    BY <1>1 DEF Quiet, LockedBacksHolds, ActiveHold
<1>2. ASSUME NEW rd \in Riders, NEW n \in Int, Fund(rd, n)
      PROVE  LockedBacksHolds'
    BY <1>2 DEF Fund, LockedBacksHolds, ActiveHold
<1>3. ASSUME NEW r \in Rides, NEW n \in Amounts, Secure(r, n)
      PROVE  LockedBacksHolds'
    <2>1. n \in Int
        BY DEF Amounts
    <2>2. \A q \in Rides : q # r => hold'[q] = hold[q]
        BY <1>3 DEF Secure, TypeOK
    <2>3. ActiveHold(RiderOf[r])'[r] = ActiveHold(RiderOf[r])[r] + n
        BY <1>3, <2>1 DEF Secure, TypeOK, ActiveHold
    <2>4. /\ locked' = [locked EXCEPT ![RiderOf[r]] = @ + n]
          /\ stale \subseteq stale'
        BY <1>3 DEF Secure
    <2>5. QED
        BY <2>1, <2>2, <2>3, <2>4, LockedFollows
<1>4. ASSUME NEW r \in Rides, NEW seen \in Amounts, NEW n \in Amounts,
             Adjust(r, seen, n)
      PROVE  LockedBacksHolds'
    <2>1. n \in Int /\ seen \in Int /\ n - seen \in Int
        BY DEF Amounts
    <2>2. \A q \in Rides : q # r => hold'[q] = hold[q]
        BY <1>4 DEF Adjust, TypeOK
    <2>3. r \notin stale' =>
              ActiveHold(RiderOf[r])'[r] = ActiveHold(RiderOf[r])[r] + (n - seen)
        BY <1>4, <2>1 DEF Adjust, Marks, TypeOK, ActiveHold
    <2>4. /\ locked' = [locked EXCEPT ![RiderOf[r]] = @ + (n - seen)]
          /\ stale \subseteq stale'
        BY <1>4 DEF Adjust, Marks
    <2>5. QED
        BY <2>1, <2>2, <2>3, <2>4, LockedFollows
<1>5. ASSUME NEW r \in Rides, NEW seen \in Amounts, Marks(r, seen),
             hold[r].status = "ACTIVE",
             locked' = [locked EXCEPT ![RiderOf[r]] = @ - seen],
             hold'[r].status # "ACTIVE",
             \A q \in Rides : q # r => hold'[q] = hold[q]
      PROVE  LockedBacksHolds'
    <2>1. seen \in Int /\ -seen \in Int
        BY DEF Amounts
    <2>2. r \notin stale' =>
              ActiveHold(RiderOf[r])'[r] = ActiveHold(RiderOf[r])[r] + (-seen)
        BY <1>5, <2>1 DEF Marks, ActiveHold
    <2>3. locked[RiderOf[r]] \in Int
        BY RideHoldsAssumption DEF TypeOK
    <2>4. locked[RiderOf[r]] - seen = locked[RiderOf[r]] + (-seen)
        BY <2>1, <2>3
    <2>5. locked' = [locked EXCEPT ![RiderOf[r]] = @ + (-seen)]
        BY <1>5, <2>4, Zenon
    <2>6. stale \subseteq stale'
        BY <1>5 DEF Marks
    <2>7. QED
        BY <1>5, <2>1, <2>2, <2>5, <2>6, LockedFollows
<1>6. ASSUME NEW r \in Rides, NEW seen \in Amounts, Release(r, seen)
      PROVE  LockedBacksHolds'
    BY <1>5, <1>6 DEF Release, TypeOK
<1>7. ASSUME NEW r \in Rides, NEW seen \in Amounts, NEW fare \in Fares,
             NEW d \in Drivers, Charge(r, seen, fare, d)
      PROVE  LockedBacksHolds'
    <2>1. /\ hold'[r].status # "ACTIVE"
          /\ \A q \in Rides : q # r => hold'[q] = hold[q]
        BY <1>7 DEF Charge, TypeOK
    <2>2. QED
        BY <1>5, <1>7, <2>1 DEF Charge
<1>8. QED
    BY <1>1, <1>2, <1>3, <1>4, <1>6, <1>7, TransfersAreInt DEF Move

(* lockedNgn backs the ACTIVE holds of every rider whose rides moved no    *)
(* money on a hold row that had changed since it was read.                 *)
LEMMA InitLocked == Init => LockedBacksHolds
<1> SUFFICES ASSUME Init, NEW rd \in Riders
             PROVE  locked[rd] = Tally(ActiveHold(rd), Rides, MaxAmount)
    BY DEF LockedBacksHolds
<1>1. ActiveHold(rd) = [r \in Rides |-> 0]
    BY DEF Init, ActiveHold
<1>2. MaxAmount \in Nat
    BY RideHoldsAssumption
<1>3. Tally([r \in Rides |-> 0], Rides, MaxAmount) = 0
    BY <1>2, TallyZero
<1>4. QED
    BY <1>1, <1>3 DEF Init

(* The locked funds of a wallet are the sum of its open holds, however the *)
(* transactions of the workers interleave.                                 *)
THEOREM LockedIsBacked == Spec => []LockedBacksHolds
<1>1. Init => TypeOK /\ LockedBacksHolds
    BY InitTypeOK, InitLocked
<1>2. (TypeOK /\ LockedBacksHolds) /\ [Next]_vars => (TypeOK /\ LockedBacksHolds)'
    BY NextTypeOK, StepIsMove, LockedStep
<1>3. QED
    BY <1>1, <1>2, PTL DEF Spec

-----------------------------------------------------------------------------

(* A step that moves one ride's rider's money only inside the wallet, or   *)
(* takes out of the wallet what it charges the ride.                       *)
LEMMA MoneyFollows ==
    ASSUME TypeOK, TypeOK', RiderMoneyConserved, NEW r \in Rides, NEW c \in Int,
           \A q \in Rides : q # r => hold'[q] = hold[q],
           \A rd \in Riders :
               balance'[rd] + locked'[rd]
                   = balance[rd] + locked[rd] - (IF rd = RiderOf[r] THEN c ELSE 0),
           hold'[r].settled = hold[r].settled + c,
           funded' = funded
    PROVE  RiderMoneyConserved'
<1> SUFFICES ASSUME NEW rd \in Riders
             PROVE  balance'[rd] + locked'[rd] + Tally(ChargedFare(rd)', Rides, MaxAmount)
                        = funded'[rd]
    BY DEF RiderMoneyConserved
<1> DEFINE before == Tally(ChargedFare(rd), Rides, MaxAmount)
           after == Tally(ChargedFare(rd)', Rides, MaxAmount)
           spent == IF rd = RiderOf[r] THEN c ELSE 0
<1>1. balance[rd] + locked[rd] + before = funded[rd]
    BY DEF RiderMoneyConserved
<1>2. after = before - ChargedFare(rd)[r] + ChargedFare(rd)'[r]
    BY OneHoldChanged
<1>3. /\ balance[rd] \in Int /\ locked[rd] \in Int
      /\ balance'[rd] \in Int /\ locked'[rd] \in Int
      /\ hold[r].settled \in Int
    BY DEF TypeOK, Amounts
<1>4. before \in Int
    BY ColumnTypes, TallyType, RideHoldsAssumption
<1>5. spent \in Int /\ balance'[rd] + locked'[rd] = balance[rd] + locked[rd] - spent
    OBVIOUS
<1>6. /\ ChargedFare(rd)[r] \in Int
      /\ ChargedFare(rd)'[r] = ChargedFare(rd)[r] + spent
    BY <1>3 DEF ChargedFare
<1> HIDE DEF before, after, spent
<1>7. balance'[rd] + locked'[rd] + after = funded'[rd]
    BY <1>1, <1>2, <1>3, <1>4, <1>5, <1>6
<1>8. QED
    BY <1>7 DEF after

LEMMA MoneyStep ==
    ASSUME TypeOK, TypeOK', RiderMoneyConserved, PaidOncePerCharge, Move
    PROVE  RiderMoneyConserved'
<1>1. CASE Quiet
    BY <1>1 DEF Quiet, RiderMoneyConserved, ChargedFare
<1>2. ASSUME NEW rd \in Riders, NEW n \in Int, Fund(rd, n)
      PROVE  RiderMoneyConserved'
    <2> SUFFICES ASSUME NEW rx \in Riders
                 PROVE  balance'[rx] + locked'[rx] + Tally(ChargedFare(rx)', Rides, MaxAmount)
                            = funded'[rx]
        BY DEF RiderMoneyConserved
    <2> DEFINE total == Tally(ChargedFare(rx), Rides, MaxAmount)
    <2>1. ChargedFare(rx)' = ChargedFare(rx)
        BY <1>2 DEF Fund, ChargedFare
    <2>2. total \in Int
        BY ColumnTypes, TallyType, RideHoldsAssumption
    <2>3. balance[rx] + locked[rx] + total = funded[rx]
        BY DEF RiderMoneyConserved
    <2> HIDE DEF total
    <2>4. balance'[rx] + locked'[rx] + total = funded'[rx]
        BY <1>2, <2>2, <2>3 DEF Fund, TypeOK
    <2>5. QED
        BY <2>1, <2>4 DEF total
<1>3. ASSUME NEW r \in Rides, NEW n \in Amounts, Secure(r, n)
      PROVE  RiderMoneyConserved'
    <2>1. n \in Int /\ 0 \in Int
        BY DEF Amounts
    <2>2. \A rd \in Riders :
              balance'[rd] + locked'[rd]
                  = balance[rd] + locked[rd] - (IF rd = RiderOf[r] THEN 0 ELSE 0)
        BY <1>3, <2>1 DEF Secure, TypeOK
    <2>3. hold[r].settled = 0
        BY <1>3 DEF Secure, PaidOncePerCharge, ChargedHasOnePayout
    <2>4. /\ hold'[r].settled = hold[r].settled + 0
          /\ \A q \in Rides : q # r => hold'[q] = hold[q]
          /\ funded' = funded
        BY <1>3, <2>3 DEF Secure, TypeOK
    <2>5. QED
        BY <2>1, <2>2, <2>4, MoneyFollows
<1>4. ASSUME NEW r \in Rides, NEW seen \in Amounts, NEW n \in Amounts,
             Adjust(r, seen, n)
      PROVE  RiderMoneyConserved'
    <2>1. n \in Int /\ seen \in Int /\ 0 \in Int /\ hold[r].settled \in Int
        BY DEF Amounts, TypeOK
    <2>2. \A rd \in Riders :
              balance'[rd] + locked'[rd]
                  = balance[rd] + locked[rd] - (IF rd = RiderOf[r] THEN 0 ELSE 0)
        BY <1>4, <2>1 DEF Adjust, TypeOK
    <2>3. /\ hold'[r].settled = hold[r].settled + 0
          /\ \A q \in Rides : q # r => hold'[q] = hold[q]
          /\ funded' = funded
        BY <1>4, <2>1 DEF Adjust, TypeOK
    <2>4. QED
        BY <2>1, <2>2, <2>3, MoneyFollows
<1>5. ASSUME NEW r \in Rides, NEW seen \in Amounts, Release(r, seen)
      PROVE  RiderMoneyConserved'
    <2>1. seen \in Int /\ 0 \in Int /\ hold[r].settled \in Int
        BY DEF Amounts, TypeOK
    <2>2. \A rd \in Riders :
              balance'[rd] + locked'[rd]
                  = balance[rd] + locked[rd] - (IF rd = RiderOf[r] THEN 0 ELSE 0)
        BY <1>5, <2>1 DEF Release, TypeOK
    <2>3. /\ hold'[r].settled = hold[r].settled + 0
          /\ \A q \in Rides : q # r => hold'[q] = hold[q]
          /\ funded' = funded
        BY <1>5, <2>1 DEF Release, TypeOK
    <2>4. QED
        BY <2>1, <2>2, <2>3, MoneyFollows
<1>6. ASSUME NEW r \in Rides, NEW seen \in Amounts, NEW fare \in Fares,
             NEW d \in Drivers, Charge(r, seen, fare, d)
      PROVE  RiderMoneyConserved'
    <2>1. seen \in Int /\ fare \in Int
        BY RideHoldsAssumption DEF Amounts
    <2>2. \A rd \in Riders :
              balance'[rd] + locked'[rd]
                  = balance[rd] + locked[rd] - (IF rd = RiderOf[r] THEN fare ELSE 0)
        BY <1>6, <2>1 DEF Charge, TypeOK
    <2>3. hold[r].settled = 0
        BY <1>6 DEF Charge, PaidOncePerCharge, ChargedHasOnePayout
    <2>4. /\ hold'[r].settled = hold[r].settled + fare
          /\ \A q \in Rides : q # r => hold'[q] = hold[q]
          /\ funded' = funded
        BY <1>6, <2>1, <2>3 DEF Charge, TypeOK
    <2>5. QED
        BY <2>1, <2>2, <2>4, MoneyFollows
<1>7. QED
    BY <1>1, <1>2, <1>3, <1>4, <1>5, <1>6, TransfersAreInt DEF Move

-----------------------------------------------------------------------------

(* A step that charges nothing keeps every payout. *)
LEMMA NothingCharged ==
    ASSUME PaidOncePerCharge,
           UNCHANGED <<payouts, earned, platform>>,
           \A r \in Rides :
               /\ hold'[r].settled = hold[r].settled
               /\ hold'[r].status = "CHARGED" <=> hold[r].status = "CHARGED"
    PROVE  PaidOncePerCharge'
<1>1. ChargedHasOnePayout'
    BY DEF PaidOncePerCharge, ChargedHasOnePayout
<1>2. ASSUME NEW d \in Drivers
      PROVE  PayoutOf(d)' = PayoutOf(d)
    BY DEF PayoutOf, DriverPayout
<1>3. PlatformTake' = PlatformTake
    BY DEF PlatformTake, PlatformTotal
<1>4. QED
    BY <1>1, <1>2, <1>3 DEF PaidOncePerCharge

LEMMA ChargeStep ==
    ASSUME TypeOK, PaidOncePerCharge, NEW r \in Rides, NEW seen \in Amounts,
           NEW fare \in Fares, NEW d \in Drivers, Charge(r, seen, fare, d)
    PROVE  PaidOncePerCharge'
<1>1. hold[r].status = "ACTIVE" /\ payouts[r] = {}
    BY DEF Charge
<1>2. /\ hold'[r].status = "CHARGED" /\ hold'[r].settled = fare
      /\ \A q \in Rides : q # r => hold'[q] = hold[q]
      /\ payouts'[r] = {d}
      /\ \A q \in Rides : q # r => payouts'[q] = payouts[q]
    BY <1>1 DEF Charge, TypeOK
<1>3. ChargedHasOnePayout /\ ChargedHasOnePayout'
    BY <1>2 DEF PaidOncePerCharge, ChargedHasOnePayout
<1>4. IsFiniteSet(Rides) /\ MaxAmount \in Nat
    BY RideHoldsAssumption
<1>5. /\ PlatformTake \in [Rides -> 0..MaxAmount]
      /\ PlatformTake' \in [Rides -> 0..MaxAmount]
    <2>1. PlatformTake \in [Rides -> 0..MaxAmount]
        BY <1>3, ShareTypes
    <2>2. \A q \in Rides :
              (IF hold'[q].status = "CHARGED" THEN PlatformTotal(hold'[q].settled) ELSE 0)
                  \in 0..MaxAmount
        BY <1>3, <1>4, FeeSplit DEF ChargedHasOnePayout
    <2>3. QED
        BY <2>1, <2>2 DEF PlatformTake, PlatformTotal
<1>6. platform' = Tally(PlatformTake', Rides, MaxAmount)
    <2> DEFINE f == PlatformTake
               g == PlatformTake'
    <2>1. /\ f \in [Rides -> 0..MaxAmount] /\ g \in [Rides -> 0..MaxAmount]
          /\ \A q \in Rides : q # r => g[q] = f[q]
        BY <1>2, <1>5 DEF PlatformTake, PlatformTotal
    <2>2. f[r] = 0 /\ g[r] = PlatformTotal(fare)
        BY <1>1, <1>2 DEF PlatformTake, PlatformTotal
    <2>3. platform = Tally(f, Rides, MaxAmount) /\ platform' = platform + PlatformTotal(fare)
        BY DEF PaidOncePerCharge, Charge
    <2> HIDE DEF f, g
    <2>4. DiffersAt(f, g, r, Rides, MaxAmount)
        BY <1>4, <2>1, TallyAt
    <2>5. Tally(g, Rides, MaxAmount) = platform'
        BY <2>2, <2>3, <2>4, FeeSplit DEF DiffersAt, TypeOK
    <2>6. QED
        BY <2>5 DEF g
<1>7. ASSUME NEW e \in Drivers
      PROVE  earned'[e] = Tally(PayoutOf(e)', Rides, MaxAmount)
    <2> DEFINE f == PayoutOf(e)
               g == PayoutOf(e)'
    <2>1. f \in [Rides -> 0..MaxAmount]
        BY <1>3, ShareTypes
    <2>2. \A q \in Rides :
              (IF e \in payouts'[q] THEN DriverPayout(hold'[q].settled) ELSE 0)
                  \in 0..MaxAmount
        BY <1>3, <1>4, FeeSplit DEF ChargedHasOnePayout
    <2>3. g \in [Rides -> 0..MaxAmount]
        BY <2>2 DEF PayoutOf, DriverPayout
    <2>4. \A q \in Rides : q # r => g[q] = f[q]
        BY <1>2 DEF PayoutOf, DriverPayout
    <2>5. f[r] = 0 /\ g[r] = (IF e = d THEN DriverPayout(fare) ELSE 0)
        BY <1>1, <1>2 DEF PayoutOf, DriverPayout
    <2>6. /\ earned[e] = Tally(f, Rides, MaxAmount) /\ earned[e] \in Int
          /\ earned'[e] = IF e = d THEN earned[e] + DriverPayout(fare) ELSE earned[e]
        BY DEF PaidOncePerCharge, Charge, TypeOK
    <2> HIDE DEF f, g
    <2>7. DiffersAt(f, g, r, Rides, MaxAmount)
        BY <1>4, <2>1, <2>3, <2>4, TallyAt
    <2>8. Tally(g, Rides, MaxAmount) = earned'[e]
        BY <2>5, <2>6, <2>7, FeeSplit DEF DiffersAt
    <2>9. QED
        BY <2>8 DEF g
<1>8. QED
    BY <1>3, <1>6, <1>7 DEF PaidOncePerCharge

LEMMA PaidStep ==
    ASSUME TypeOK, PaidOncePerCharge, Move
    PROVE  PaidOncePerCharge'
<1>1. CASE Quiet
    BY <1>1, NothingCharged DEF Quiet
<1>2. ASSUME NEW rd \in Riders, NEW n \in Int, Fund(rd, n)
      PROVE  PaidOncePerCharge'
    BY <1>2, NothingCharged DEF Fund
<1>3. ASSUME NEW r \in Rides, NEW n \in Amounts, Secure(r, n)
      PROVE  PaidOncePerCharge'
    <2>1. hold[r].settled = 0
        BY <1>3 DEF Secure, PaidOncePerCharge, ChargedHasOnePayout
    <2>2. \A q \in Rides :
              /\ hold'[q].settled = hold[q].settled
              /\ hold'[q].status = "CHARGED" <=> hold[q].status = "CHARGED"
        BY <1>3, <2>1 DEF Secure, TypeOK
    <2>3. QED
        BY <1>3, <2>2, NothingCharged DEF Secure
<1>4. ASSUME NEW r \in Rides, NEW seen \in Amounts, NEW n \in Amounts,
             Adjust(r, seen, n)
      PROVE  PaidOncePerCharge'
    <2>1. \A q \in Rides :
              /\ hold'[q].settled = hold[q].settled
              /\ hold'[q].status = "CHARGED" <=> hold[q].status = "CHARGED"
        BY <1>4 DEF Adjust, TypeOK
    <2>2. QED
        BY <1>4, <2>1, NothingCharged DEF Adjust
<1>5. ASSUME NEW r \in Rides, NEW seen \in Amounts, Release(r, seen)
      PROVE  PaidOncePerCharge'
    <2>1. \A q \in Rides :
              /\ hold'[q].settled = hold[q].settled
              /\ hold'[q].status = "CHARGED" <=> hold[q].status = "CHARGED"
        BY <1>5 DEF Release, TypeOK
    <2>2. QED
        BY <1>5, <2>1, NothingCharged DEF Release
<1>6. ASSUME NEW r \in Rides, NEW seen \in Amounts, NEW fare \in Fares,
             NEW d \in Drivers, Charge(r, seen, fare, d)
      PROVE  PaidOncePerCharge'
    BY <1>6, ChargeStep
<1>7. QED
    BY <1>1, <1>2, <1>3, <1>4, <1>5, <1>6, TransfersAreInt DEF Move

-----------------------------------------------------------------------------

LEMMA InitMoney == Init => Money
<1> SUFFICES ASSUME Init PROVE Money
    OBVIOUS
<1>1. Tally([r \in Rides |-> 0], Rides, MaxAmount) = 0
    BY TallyZero, RideHoldsAssumption
<1>2. ASSUME NEW rd \in Riders
      PROVE  ActiveHold(rd) = [r \in Rides |-> 0] /\ ChargedFare(rd) = [r \in Rides |-> 0]
    BY DEF Init, ActiveHold, ChargedFare
<1>3. ASSUME NEW d \in Drivers
      PROVE  PayoutOf(d) = [r \in Rides |-> 0]
    BY DEF Init, PayoutOf
<1>4. PlatformTake = [r \in Rides |-> 0]
    BY DEF Init, PlatformTake
<1>5. ChargedHasOnePayout
    BY DEF Init, ChargedHasOnePayout
<1>6. LockedBacksHolds
    BY <1>1, <1>2 DEF Init, LockedBacksHolds
<1>7. RiderMoneyConserved
    BY <1>1, <1>2 DEF Init, RiderMoneyConserved
<1>8. PaidOncePerCharge
    BY <1>1, <1>3, <1>4, <1>5 DEF Init, PaidOncePerCharge
<1>9. QED
    BY <1>6, <1>7, <1>8 DEF Money

LEMMA NextMoney == IInv /\ [Next]_vars => IInv'
<1> SUFFICES ASSUME IInv, [Next]_vars PROVE IInv'
    OBVIOUS
<1>1. Move /\ TypeOK'
    BY StepIsMove, NextTypeOK DEF IInv
<1>2. QED
    BY <1>1, LockedStep, MoneyStep, PaidStep DEF IInv, Money

(* Whatever interleaves, the wallets, the holds and the payouts add up:    *)
(* the locked funds back the holds, riders neither gain nor lose money     *)
(* except by a fare, and every fare is paid out once.                      *)
THEOREM MoneyAddsUp == Spec => [](LockedBacksHolds /\ RiderMoneyConserved /\ PaidOncePerCharge)
<1>1. Init => IInv
    BY InitTypeOK, InitMoney DEF IInv
<1>2. IInv => LockedBacksHolds /\ RiderMoneyConserved /\ PaidOncePerCharge
    BY DEF IInv, Money
<1>3. QED
    BY <1>1, <1>2, NextMoney, PTL DEF Spec

(* Charging a rider and paying the driver are one event, however many      *)
(* settlements of a ride race: a fare charged is paid to one driver, once, *)
(* and drivers and platform have the fares charged and nothing else.       *)
THEOREM PayoutPerCharge == Spec => []PaidOncePerCharge
<1>1. LockedBacksHolds /\ RiderMoneyConserved /\ PaidOncePerCharge => PaidOncePerCharge
    OBVIOUS
<1>2. QED
    BY <1>1, MoneyAddsUp, PTL

-----------------------------------------------------------------------------

(* The contract's view of the wallets and holds. *)
MoneyOf == [rd \in Riders |-> balance[rd] + locked[rd]]
OutcomeOf == [r \in Rides |-> hold[r].status]
ChargedOf == [r \in Rides |-> hold[r].settled]

(* Every step is a step of the contract, or moves money only inside a      *)
(* wallet.                                                                 *)
LEMMA StepKeepsContract == IInv /\ [Next]_vars => [Settlement!Next]_(Settlement!vars)
<1> SUFFICES ASSUME IInv, Move
             PROVE  [Settlement!Next]_(Settlement!vars)
    BY StepIsMove DEF IInv
<1>1. TypeOK /\ ChargedHasOnePayout
    BY DEF IInv, Money, PaidOncePerCharge
<1>2. CASE Quiet
    BY <1>2 DEF Quiet, Settlement!vars
<1>3. ASSUME NEW rd \in Riders, NEW n \in Transfers, Fund(rd, n) \/ Fund(rd, -n)
      PROVE  Settlement!Next
    <2>1. n \in Int /\ -n \in Int
        BY TransfersAreInt
    <2>2. CASE Fund(rd, n)
        <3>1. \A rx \in Riders :
                  balance'[rx] + locked'[rx]
                      = IF rx = rd THEN balance[rx] + locked[rx] + n
                                   ELSE balance[rx] + locked[rx]
            BY <1>1, <2>1, <2>2 DEF Fund, TypeOK
        <3>2. MoneyOf' = [MoneyOf EXCEPT ![rd] = @ + n]
            BY <3>1 DEF MoneyOf
        <3>3. Settlement!Transfer(rd, n)
            BY <2>2, <3>2 DEF Fund, MoneyOf, Settlement!Transfer
        <3>4. QED
            BY <3>3 DEF Settlement!Next
    <2>3. CASE Fund(rd, -n)
        <3>1. \A rx \in Riders :
                  balance'[rx] + locked'[rx]
                      = IF rx = rd THEN (balance[rx] + locked[rx]) - n
                                   ELSE balance[rx] + locked[rx]
            BY <1>1, <2>1, <2>3 DEF Fund, TypeOK
        <3>2. MoneyOf' = [MoneyOf EXCEPT ![rd] = MoneyOf[rd] - n]
            BY <1>1, <2>1, <3>1 DEF MoneyOf, TypeOK
        <3>3. Settlement!Transfer(rd, n)
            BY <2>3, <3>2 DEF Fund, MoneyOf, Settlement!Transfer
        <3>4. QED
            BY <3>3 DEF Settlement!Next
    <2>4. QED
        BY <1>3, <2>2, <2>3
<1>4. ASSUME NEW r \in Rides, NEW n \in Amounts, Secure(r, n)
      PROVE  Settlement!Next
    <2>1. n \in Int
        BY DEF Amounts
    <2>2. MoneyOf' = MoneyOf
        BY <1>1, <1>4, <2>1 DEF Secure, MoneyOf, TypeOK
    <2>3. hold[r].status = "NONE" /\ hold[r].settled = 0
        BY <1>1, <1>4 DEF Secure, ChargedHasOnePayout
    <2>4. /\ OutcomeOf' = [OutcomeOf EXCEPT ![r] = "ACTIVE"]
          /\ ChargedOf' = ChargedOf
        BY <1>1, <1>4, <2>3 DEF Secure, OutcomeOf, ChargedOf, TypeOK
    <2>5. Settlement!Secure(r)
        BY <1>4, <2>2, <2>3, <2>4
        DEF Secure, MoneyOf, OutcomeOf, ChargedOf, Settlement!Secure
    <2>6. QED
        BY <2>5 DEF Settlement!Next
<1>5. ASSUME NEW r \in Rides, NEW seen \in Amounts, NEW n \in Amounts,
             Adjust(r, seen, n)
      PROVE  UNCHANGED Settlement!vars
    <2>1. n \in Int /\ seen \in Int
        BY DEF Amounts
    <2>2. MoneyOf' = MoneyOf
        BY <1>1, <1>5, <2>1 DEF Adjust, MoneyOf, TypeOK
    <2>3. OutcomeOf' = OutcomeOf /\ ChargedOf' = ChargedOf
        BY <1>1, <1>5 DEF Adjust, OutcomeOf, ChargedOf, TypeOK
    <2>4. QED
        BY <1>5, <2>2, <2>3
        DEF Adjust, MoneyOf, OutcomeOf, ChargedOf, Settlement!vars
<1>6. ASSUME NEW r \in Rides, NEW seen \in Amounts, Release(r, seen)
      PROVE  Settlement!Next
    <2>1. seen \in Int
        BY DEF Amounts
    <2>2. MoneyOf' = MoneyOf
        BY <1>1, <1>6, <2>1 DEF Release, MoneyOf, TypeOK
    <2>3. /\ OutcomeOf' = [OutcomeOf EXCEPT ![r] = "RELEASED"]
          /\ ChargedOf' = ChargedOf
        BY <1>1, <1>6 DEF Release, OutcomeOf, ChargedOf, TypeOK
    <2>4. Settlement!Release(r)
        BY <1>6, <2>2, <2>3
        DEF Release, MoneyOf, OutcomeOf, ChargedOf, Settlement!Release
    <2>5. QED
        BY <2>4 DEF Settlement!Next
<1>7. ASSUME NEW r \in Rides, NEW seen \in Amounts, NEW fare \in Fares,
             NEW d \in Drivers, Charge(r, seen, fare, d)
      PROVE  Settlement!Next
    <2>1. seen \in Int /\ fare \in Int /\ RiderOf[r] \in Riders
        BY RideHoldsAssumption DEF Amounts
    <2>2. MoneyOf' = [MoneyOf EXCEPT ![RiderOf[r]] = @ - fare]
        BY <1>1, <1>7, <2>1 DEF Charge, MoneyOf, TypeOK
    <2>3. /\ OutcomeOf' = [OutcomeOf EXCEPT ![r] = "CHARGED"]
          /\ ChargedOf' = [ChargedOf EXCEPT ![r] = fare]
        BY <1>1, <1>7 DEF Charge, OutcomeOf, ChargedOf, TypeOK
    <2>4. payouts' = [payouts EXCEPT ![r] = {d}]
        BY <1>7 DEF Charge
    <2>5. Settlement!Charge(r, fare, d)
        BY <1>7, <2>2, <2>3, <2>4
        DEF Charge, MoneyOf, OutcomeOf, ChargedOf, Settlement!Charge
    <2>6. QED
        BY <2>5 DEF Settlement!Next
<1>8. QED
    BY <1>2, <1>3, <1>4, <1>5, <1>6, <1>7 DEF Move

LEMMA InitKeepsContract == Init => Settlement!Init
<1>1. 0 + 0 = 0
    OBVIOUS
<1>2. QED
    BY <1>1 DEF Init, Settlement!Init

(* The wallet code keeps the settlement contract: a ride's money is        *)
(* secured once and then released in full or charged and paid out once,    *)
(* and no race between callers ever does both.                             *)
THEOREM HoldsImplementSettlement == Spec => KeepsSettlementContract
<1>1. Init => IInv
    BY InitTypeOK, InitMoney DEF IInv
<1>2. QED
    BY <1>1, NextMoney, InitKeepsContract, StepKeepsContract, PTL
    DEF Spec, Settlement!Spec, KeepsSettlementContract

-----------------------------------------------------------------------------
(***************************************************************************)
(* The fold that buildNearestRouteGroup is: what it returns for every list *)
(* of candidates.                                                          *)
(***************************************************************************)
FoldsTo(anchor, seq, n, iter) ==
    iter = [s \in SUBSET (1..n) |->
               IF s = {} THEN {anchor} ELSE Join(seq[Max(s)], iter[s \ {Max(s)}])]

LEMMA MaxIsTop ==
    ASSUME NEW n \in Nat, NEW s \in SUBSET (1..(n + 1)), n + 1 \in s
    PROVE  Max(s) = n + 1
<1>1. \A y \in s : n + 1 >= y
    OBVIOUS
<1>2. \A x \in s : (\A y \in s : x >= y) => x = n + 1
    OBVIOUS
<1>3. QED
    BY <1>1, <1>2, Zenon DEF Max

(* A fold exists over a list of any length: one candidate more decides the *)
(* subsets it is in.                                                       *)
LEMMA FoldExists ==
    ASSUME NEW anchor, NEW seq
    PROVE  \A n \in Nat : \E iter : FoldsTo(anchor, seq, n, iter)
<1> DEFINE S == {n \in Nat : \E iter : FoldsTo(anchor, seq, n, iter)}
<1>1. 0 \in S
    <2>1. 1..0 = {} /\ SUBSET (1..0) = {{}}
        OBVIOUS
    <2> DEFINE base == [s \in {{}} |-> {anchor}]
    <2>2. base = [s \in SUBSET (1..0) |->
                     IF s = {} THEN {anchor} ELSE Join(seq[Max(s)], base[s \ {Max(s)}])]
        BY <2>1
    <2>3. QED
        BY <2>2 DEF FoldsTo
<1>2. ASSUME NEW n \in Nat, n \in S
      PROVE  n + 1 \in S
    <2>1. PICK iter : FoldsTo(anchor, seq, n, iter)
        BY <1>2
    <2>2. PICK more : more = [s \in SUBSET (1..(n + 1)) |->
                                 IF n + 1 \in s THEN Join(seq[n + 1], iter[s \ {n + 1}])
                                 ELSE iter[s]]
        OBVIOUS
    <2>3. ASSUME NEW s \in SUBSET (1..(n + 1))
          PROVE  more[s] = IF s = {} THEN {anchor} ELSE Join(seq[Max(s)], more[s \ {Max(s)}])
        <3>1. CASE n + 1 \in s
            <4>1. Max(s) = n + 1
                BY <3>1, MaxIsTop
            <4>2. s \ {n + 1} \in SUBSET (1..(n + 1)) /\ n + 1 \notin s \ {n + 1} /\ s # {}
                BY <3>1
            <4>3. more[s \ {n + 1}] = iter[s \ {n + 1}]
                BY <2>2, <4>2
            <4>4. more[s] = Join(seq[n + 1], iter[s \ {n + 1}])
                BY <2>2, <3>1
            <4>5. QED
                BY <4>1, <4>2, <4>3, <4>4
        <3>2. CASE n + 1 \notin s
            <4>1. s \in SUBSET (1..n) /\ s \ {Max(s)} \in SUBSET (1..(n + 1))
                  /\ n + 1 \notin s \ {Max(s)}
                <5>1. \A x \in 1..(n + 1) : x = n + 1 \/ x \in 1..n
                    OBVIOUS
                <5>2. s \subseteq 1..(n + 1)
                    OBVIOUS
                <5>3. s \subseteq 1..n
                    BY <3>2, <5>1, <5>2
                <5>4. QED
                    BY <3>2, <5>2, <5>3, Zenon
            <4>2. \A r \in SUBSET (1..(n + 1)) : n + 1 \notin r => more[r] = iter[r]
                BY <2>2
            <4> HIDE DEF S
            <4>3. iter[s] = IF s = {} THEN {anchor} ELSE Join(seq[Max(s)], iter[s \ {Max(s)}])
                BY <2>1, <4>1, Zenon DEF FoldsTo
            <4>4. more[s] = iter[s] /\ more[s \ {Max(s)}] = iter[s \ {Max(s)}]
                BY <3>2, <4>1, <4>2, Zenon
            <4>5. QED
                BY <4>3, <4>4, Zenon
        <3>3. QED
            BY <3>1, <3>2
    <2>4. FoldsTo(anchor, seq, n + 1, more)
        <3>1. more = [s \in SUBSET (1..(n + 1)) |-> more[s]]
            BY <2>2
        <3>2. QED
            BY <2>3, <3>1, Zenon DEF FoldsTo
    <2>5. QED
        BY <2>4
<1>3. \A n \in Nat : n \in S
    <2> HIDE DEF S
    <2> QED BY <1>1, <1>2, SetInduction
<1>4. QED
    BY <1>3

(* Everyone in a group may share with everyone else.                       *)
Shareable(group) == \A a, b \in group : Compatible(a, b)

LEMMA CompatibleBothWays ==
    ASSUME NEW a \in Requests, NEW b \in Requests
    PROVE  Compatible(a, a) /\ (Compatible(a, b) => Compatible(b, a))
<1>1. /\ Pickup[a] \in Int /\ Pickup[b] \in Int /\ Dropoff[a] \in Int /\ Dropoff[b] \in Int
      /\ PickupRadius \in Nat /\ DestinationRadius \in Nat
    BY StopSequencerAssumption
<1>2. \A x, y \in Int : Gap(x, y) = Gap(y, x) /\ Gap(x, x) = 0
    BY DEF Gap
<1>3. /\ Gap(Pickup[a], Pickup[b]) = Gap(Pickup[b], Pickup[a]) /\ Gap(Pickup[a], Pickup[a]) = 0
      /\ Gap(Dropoff[a], Dropoff[b]) = Gap(Dropoff[b], Dropoff[a])
      /\ Gap(Dropoff[a], Dropoff[a]) = 0
    BY <1>1, <1>2
<1>4. 0 <= PickupRadius /\ 0 <= DestinationRadius
    BY <1>1
<1>5. QED
    BY <1>3, <1>4 DEF Compatible

(* What a group grown from an anchor out of a pool is at any point.        *)
Grown(anchor, pool, group) ==
    /\ anchor \in group /\ group \subseteq pool \cup {anchor}
    /\ Shareable(group)
    /\ IsFiniteSet(group) /\ (Cardinality(group) <= MaxSize \/ group = {anchor})

LEMMA AnchorIsGrown ==
    ASSUME NEW anchor \in Requests, NEW pool
    PROVE  Grown(anchor, pool, {anchor})
BY CompatibleBothWays, FS_Singleton DEF Grown, Shareable

LEMMA JoinGrows ==
    ASSUME NEW anchor \in Requests, NEW pool \in SUBSET Requests, NEW q \in pool,
           NEW group, Grown(anchor, pool, group)
    PROVE  Grown(anchor, pool, Join(q, group))
<1>1. CASE Cardinality(group) < MaxSize /\ \A m \in group : Compatible(m, q)
    <2>1. Join(q, group) = group \cup {q}
        BY <1>1 DEF Join
    <2>2. IsFiniteSet(group) /\ Cardinality(group) \in Nat /\ MaxSize \in Nat
        BY FS_CardinalityType, StopSequencerAssumption DEF Grown
    <2>3. /\ IsFiniteSet(group \cup {q})
          /\ Cardinality(group \cup {q}) = Cardinality(group)
             \/ Cardinality(group \cup {q}) = Cardinality(group) + 1
        BY <2>2, FS_AddElement
    <2>4. Cardinality(group \cup {q}) <= MaxSize
        BY <1>1, <2>2, <2>3
    <2>5. \A m \in group : Compatible(m, q) /\ Compatible(q, m)
        BY <1>1, CompatibleBothWays DEF Grown
    <2>6. Compatible(q, q)
        BY CompatibleBothWays
    <2>7. Shareable(group \cup {q})
        BY <2>5, <2>6 DEF Grown, Shareable
    <2>8. anchor \in group \cup {q} /\ group \cup {q} \subseteq pool \cup {anchor}
        BY DEF Grown
    <2>9. QED
        BY <2>1, <2>3, <2>4, <2>7, <2>8 DEF Grown
<1>2. CASE ~(Cardinality(group) < MaxSize /\ \A m \in group : Compatible(m, q))
    BY <1>2 DEF Join
<1>3. QED
    BY <1>1, <1>2

(* Whatever the list of candidates: the group holds the anchor, otherwise  *)
(* only candidates, every two of them can share, and it fits the car.      *)
LEMMA FoldGrows ==
    ASSUME NEW anchor \in Requests, NEW pool \in SUBSET Requests, NEW n \in Nat,
           NEW seq \in [1..n -> pool], NEW iter, FoldsTo(anchor, seq, n, iter)
    PROVE  Grown(anchor, pool, iter[1..n])
<1> DEFINE S == {m \in Nat : m <= n => \A s \in SUBSET (1..m) : Grown(anchor, pool, iter[s])}
<1>1. \A s \in SUBSET (1..n) :
          iter[s] = IF s = {} THEN {anchor} ELSE Join(seq[Max(s)], iter[s \ {Max(s)}])
    BY Zenon DEF FoldsTo
<1>2. 0 \in S
    <2>1. SUBSET (1..0) = {{}} /\ {} \in SUBSET (1..n)
        OBVIOUS
    <2>2. iter[{}] = {anchor}
        BY <1>1, <2>1, Zenon
    <2>3. Grown(anchor, pool, iter[{}])
        BY <2>2, AnchorIsGrown, Zenon
    <2>4. \A s \in SUBSET (1..0) : Grown(anchor, pool, iter[s])
        BY <2>1, <2>3, Zenon
    <2>5. QED
        BY <2>4
<1>3. ASSUME NEW m \in Nat, m \in S
      PROVE  m + 1 \in S
    <2>1. SUFFICES ASSUME m + 1 <= n, NEW s \in SUBSET (1..(m + 1))
                   PROVE  Grown(anchor, pool, iter[s])
        OBVIOUS
    <2>2. s \in SUBSET (1..n)
        BY <2>1
    <2>3. \A r \in SUBSET (1..m) : Grown(anchor, pool, iter[r])
        BY <1>3, <2>1
    <2>4. s \ {m + 1} \in SUBSET (1..m)
        <3>1. \A x \in 1..(m + 1) : x = m + 1 \/ x \in 1..m
            OBVIOUS
        <3>2. s \subseteq 1..(m + 1)
            OBVIOUS
        <3>3. QED
            BY <3>1, <3>2
    <2>5. CASE m + 1 \in s
        <3>1. Max(s) = m + 1
            BY <2>5, MaxIsTop
        <3>2. iter[s] = Join(seq[m + 1], iter[s \ {m + 1}])
            BY <1>1, <2>2, <2>5, <3>1, Zenon
        <3>3. seq[m + 1] \in pool
            BY <2>1
        <3>4. Grown(anchor, pool, iter[s \ {m + 1}])
            BY <2>3, <2>4, Zenon
        <3>5. QED
            BY <3>2, <3>3, <3>4, JoinGrows
    <2>6. CASE m + 1 \notin s
        <3>1. s \ {m + 1} = s
            BY <2>6
        <3>2. QED
            BY <2>3, <2>4, <3>1, Zenon
    <2>7. QED
        BY <2>5, <2>6
<1>4. n \in S
    <2> HIDE DEF S
    <2> QED BY <1>2, <1>3, SetInduction
<1>5. QED
    BY <1>4

LEMMA NearestGroupGrows ==
    ASSUME NEW anchor \in Requests, NEW pool \in SUBSET Requests, NEW n \in Nat,
           NEW seq \in [1..n -> pool]
    PROVE  Grown(anchor, pool, NearestGroup(anchor, seq))
<1>1. \E iter : FoldsTo(anchor, seq, n, iter)
    BY FoldExists
<1> DEFINE iter == CHOOSE iter : FoldsTo(anchor, seq, n, iter)
<1>2. FoldsTo(anchor, seq, n, iter)
    BY <1>1, Zenon
<1>3. DOMAIN seq = 1..n
    OBVIOUS
<1>4. NearestGroup(anchor, seq) = iter[1..n]
    BY <1>3, Zenon DEF NearestGroup, FoldLeft, MapThenFoldSet, FoldsTo
<1>5. QED
    <2> HIDE DEF iter
    <2> QED BY <1>2, <1>4, FoldGrows

LEMMA FirstOnes ==
    ASSUME NEW S, NEW s, NEW k \in Nat, \A i \in 1..k : s[i] \in S
    PROVE  SubSeq(s, 1, k) \in [1..k -> S]
<1>1. 1 \in Int /\ k \in Int
    OBVIOUS
<1>2. /\ SubSeq(s, 1, k) \in Seq(S)
      /\ Len(SubSeq(s, 1, k)) = IF 1 <= k THEN k - 1 + 1 ELSE 0
    BY <1>1, SubSeqProperties
<1>3. Len(SubSeq(s, 1, k)) = k
    BY <1>2
<1>4. \A t \in Seq(S) : Len(t) = k => t \in [1..k -> S]
    OBVIOUS
<1>5. QED
    BY <1>2, <1>3, <1>4, Zenon

LEMMA CandidatesWait ==
    ASSUME NEW q \in Requests, NEW pool \in SUBSET Requests,
           NEW candidates \in Candidates(q, pool)
    PROVE  \E n \in Nat : candidates \in [1..n -> pool]
<1> DEFINE near == {r \in pool \ {q} : Compatible(q, r)}
<1>1. PICK s \in SetToSeqs(near) : candidates = SubSeq(s, 1, Min({Len(s), MaxCandidates}))
    BY DEF Candidates
<1>2. near \subseteq pool /\ IsFiniteSet(near)
    BY StopSequencerAssumption, FS_Subset
<1>3. Cardinality(near) \in Nat
    BY <1>2, FS_CardinalityType
<1>4. s \in [1..Cardinality(near) -> near]
    BY <1>1 DEF SetToSeqs
<1> HIDE DEF near
<1>5. Len(s) = Cardinality(near)
    BY <1>3, <1>4
<1>6. PICK k \in Nat : k = Min({Len(s), MaxCandidates}) /\ k <= Len(s)
    <2>1. PICK l \in Nat : l = Len(s)
        BY <1>3, <1>5
    <2>2. MaxCandidates \in Nat
        BY StopSequencerAssumption
    <2>3. \E x \in {l, MaxCandidates} : \A y \in {l, MaxCandidates} : x <= y
        BY <2>1, <2>2
    <2>4. /\ Min({l, MaxCandidates}) \in {l, MaxCandidates}
          /\ \A y \in {l, MaxCandidates} : Min({l, MaxCandidates}) <= y
        BY <2>3, Zenon DEF Min
    <2>5. QED
        BY <2>1, <2>2, <2>4
<1>7. candidates = SubSeq(s, 1, k)
    BY <1>1, <1>6
<1>8. \A i \in 1..k : s[i] \in pool
    BY <1>2, <1>4, <1>5, <1>6
<1>9. QED
    BY <1>6, <1>7, <1>8, FirstOnes

-----------------------------------------------------------------------------
(***************************************************************************)
(* The planner puts nobody in two groups.                                  *)
(***************************************************************************)
Messages == [type : {"CANDIDATES", "PLANNED", "ROUTE_BUILT"}, riders : SUBSET Requests]

PlannerTyped ==
    /\ topic \in [Groups -> Seq(Messages)]
    /\ anchorOf \in [Groups -> Requests \cup {None}]
    /\ pending \subseteq Requests /\ assigned \subseteq Requests /\ seeds \subseteq Requests
    /\ busy \in [key : Requests \cup Groups \cup {None}, riders : SUBSET Requests]
    /\ seated \in [Requests -> SUBSET Groups]

(* A group's candidates are being put together: the plan is published, the *)
(* memory does not have it yet.                                            *)
Planning ==
    /\ busy.key \in Groups /\ topic[busy.key] # <<>>
    /\ Head(topic[busy.key]).type = "CANDIDATES"

(* Whoever has a seat is known to be taken, or is being put in a group by  *)
(* the message the planner is at; it is at none while it reads the rows.   *)
SeatsAreKnown ==
    /\ \A q \in Requests : seated[q] = {} \/ \E g \in Groups : seated[q] = {g}
    /\ \A q \in Requests : seated[q] # {} => q \in assigned \/ (Planning /\ q \in busy.riders)
    /\ seeds # {} => busy = Resting

(* What is on its way under a group's key came out of one proposal: a      *)
(* group that can share one car, and every plan of it keeps the anchor and *)
(* two riders at least.                                                    *)
FromOneProposal(g, proposal) ==
    /\ anchorOf[g] \in Requests
    /\ Grown(anchorOf[g], Requests, proposal)
    /\ \A i \in DOMAIN topic[g] :
          /\ topic[g][i].riders \subseteq proposal
          /\ topic[g][i].type # "CANDIDATES" =>
                anchorOf[g] \in topic[g][i].riders /\ Cardinality(topic[g][i].riders) >= 2

GroupsFromProposals ==
    \A g \in Groups :
        topic[g] # <<>> => \E proposal \in SUBSET Requests : FromOneProposal(g, proposal)

(* A group that was broadcast is remembered, and was broadcast once.       *)
BroadcastsRemembered ==
    /\ remembered \subseteq Groups /\ offered \in [Groups -> {0, 1}]
    /\ \A g \in Groups : offered[g] = 1 => g \in remembered

(* The planner is at a message that is still on the topic.                 *)
AtItsMessage == busy.key \in Groups => topic[busy.key] # <<>>

PlannerInv == PlannerTyped /\ SeatsAreKnown /\ GroupsFromProposals /\ AtItsMessage

LEMMA RestingIsAtNone == Resting.key \notin Groups /\ Resting.riders = {}
BY GroupRidesAssumption DEF Resting

LEMMA PlannerInit ==
    ASSUME GroupRidesInit
    PROVE  PlannerInv
<1>1. PlannerTyped
    BY GroupRidesAssumption DEF GroupRidesInit, PlannerTyped, Resting
<1>2. SeatsAreKnown
    BY DEF GroupRidesInit, SeatsAreKnown
<1>3. GroupsFromProposals
    BY DEF GroupRidesInit, GroupsFromProposals
<1>4. AtItsMessage
    BY RestingIsAtNone DEF GroupRidesInit, AtItsMessage
<1>5. QED
    BY <1>1, <1>2, <1>3, <1>4 DEF PlannerInv

(* A handler that ends takes its message off the group's key.              *)
LEMMA HandledKeeps ==
    ASSUME PlannerTyped, GroupsFromProposals, NEW g \in Groups, topic[g] # <<>>,
           topic' = Handled(g), UNCHANGED anchorOf
    PROVE  topic' \in [Groups -> Seq(Messages)] /\ GroupsFromProposals'
<1>1. topic[g] \in Seq(Messages) /\ topic \in [Groups -> Seq(Messages)]
    BY DEF PlannerTyped
<1>2. Tail(topic[g]) \in Seq(Messages)
    BY <1>1
<1>3. topic' \in [Groups -> Seq(Messages)] /\ topic'[g] = Tail(topic[g])
      /\ \A h \in Groups : h # g => topic'[h] = topic[h]
    BY <1>1, <1>2 DEF Handled
<1>4. ASSUME NEW h \in Groups, topic'[h] # <<>>
      PROVE  \E proposal \in SUBSET Requests : FromOneProposal(h, proposal)'
    <2>1. CASE h # g
        <3>1. topic'[h] = topic[h]
            BY <1>3, <2>1
        <3>2. PICK proposal \in SUBSET Requests : FromOneProposal(h, proposal)
            BY <1>4, <3>1 DEF GroupsFromProposals
        <3>3. FromOneProposal(h, proposal)'
            BY <3>1, <3>2 DEF FromOneProposal
        <3>4. QED
            BY <3>3
    <2>2. CASE h = g
        <3>1. PICK proposal \in SUBSET Requests : FromOneProposal(g, proposal)
            BY DEF GroupsFromProposals
        <3>2. \A i \in DOMAIN Tail(topic[g]) :
                  i + 1 \in DOMAIN topic[g] /\ Tail(topic[g])[i] = topic[g][i + 1]
            BY <1>1
        <3>3. FromOneProposal(g, proposal)'
            BY <1>3, <3>1, <3>2 DEF FromOneProposal
        <3>4. QED
            BY <2>2, <3>3
    <2>3. QED
        BY <2>1, <2>2
<1>5. QED
    BY <1>3, <1>4 DEF GroupsFromProposals

(* A plan or a route is published for riders of the message at the head.   *)
LEMMA PublishedKeeps ==
    ASSUME PlannerTyped, GroupsFromProposals, NEW g \in Groups, topic[g] # <<>>,
           NEW type \in {"PLANNED", "ROUTE_BUILT"}, NEW riders,
           riders \subseteq Head(topic[g]).riders,
           anchorOf[g] \in riders, Cardinality(riders) >= 2,
           topic' = Published(g, type, riders), UNCHANGED anchorOf
    PROVE  /\ topic' \in [Groups -> Seq(Messages)] /\ GroupsFromProposals'
           /\ topic'[g] # <<>> /\ Head(topic'[g]) = Head(topic[g])
           /\ \A h \in Groups : h # g => topic'[h] = topic[h]
<1> DEFINE m == [type |-> type, riders |-> riders]
<1>1. topic[g] \in Seq(Messages) /\ topic \in [Groups -> Seq(Messages)]
    BY DEF PlannerTyped
<1>2. 1 \in DOMAIN topic[g] /\ Head(topic[g]) = topic[g][1] /\ topic[g][1] \in Messages
    BY <1>1
<1>3. m \in Messages
    BY <1>2 DEF Messages
<1>4. /\ Append(topic[g], m) \in Seq(Messages)
      /\ Append(topic[g], m) # <<>> /\ Head(Append(topic[g], m)) = Head(topic[g])
      /\ \A i \in DOMAIN Append(topic[g], m) :
            Append(topic[g], m)[i] = m \/ (i \in DOMAIN topic[g]
                                            /\ Append(topic[g], m)[i] = topic[g][i])
    <2> HIDE DEF m
    <2> QED BY <1>1, <1>3
<1>5. topic' \in [Groups -> Seq(Messages)] /\ topic'[g] = Append(topic[g], m)
      /\ \A h \in Groups : h # g => topic'[h] = topic[h]
    BY <1>1, <1>4 DEF Published
<1>6. ASSUME NEW h \in Groups, topic'[h] # <<>>
      PROVE  \E proposal \in SUBSET Requests : FromOneProposal(h, proposal)'
    <2>1. CASE h # g
        <3>1. topic'[h] = topic[h]
            BY <1>5, <2>1
        <3>2. PICK proposal \in SUBSET Requests : FromOneProposal(h, proposal)
            BY <1>6, <3>1 DEF GroupsFromProposals
        <3>3. FromOneProposal(h, proposal)'
            BY <3>1, <3>2 DEF FromOneProposal
        <3>4. QED
            BY <3>3
    <2>2. CASE h = g
        <3>1. PICK proposal \in SUBSET Requests : FromOneProposal(g, proposal)
            BY DEF GroupsFromProposals
        <3>2. riders \subseteq proposal
            BY <1>2, <3>1 DEF FromOneProposal
        <3>3. m.riders = riders /\ m.type = type
            OBVIOUS
        <3>4. FromOneProposal(g, proposal)'
            <4> HIDE DEF m
            <4> QED BY <1>4, <1>5, <3>1, <3>2, <3>3 DEF FromOneProposal
        <3>5. QED
            BY <2>2, <3>4
    <2>3. QED
        BY <2>1, <2>2
<1>7. QED
    BY <1>4, <1>5, <1>6 DEF GroupsFromProposals

(* A group is proposed under a name not used before.                       *)
LEMMA EnqueueMatching ==
    ASSUME PlannerInv, NEW q \in Requests, Enqueue(q)
    PROVE  /\ topic' \in [Groups -> Seq(Messages)] /\ anchorOf' \in [Groups -> Requests \cup {None}]
           /\ GroupsFromProposals'
<1>1. topic \in [Groups -> Seq(Messages)] /\ anchorOf \in [Groups -> Requests \cup {None}]
      /\ GroupsFromProposals
    BY DEF PlannerInv, PlannerTyped
<1> DEFINE pool == (pending \ Expired) \cup {q}
<1>2. pool \in SUBSET Requests
    BY DEF PlannerInv, PlannerTyped
<1>3. PICK candidates \in Candidates(q, pool) :
          \/ UNCHANGED matching
          \/ \E g \in Unused :
                /\ anchorOf' = [anchorOf EXCEPT ![g] = q]
                /\ topic' = [topic EXCEPT ![g] =
                      <<[type |-> "CANDIDATES", riders |-> NearestGroup(q, candidates)]>>]
    BY DEF Enqueue
<1>4. Grown(q, pool, NearestGroup(q, candidates))
    <2> HIDE DEF pool
    <2> QED BY <1>2, CandidatesWait, NearestGroupGrows
<1> DEFINE group == NearestGroup(q, candidates)
           m == [type |-> "CANDIDATES", riders |-> group]
<1>5. group \in SUBSET Requests /\ Grown(q, Requests, group)
    <2> HIDE DEF group
    <2>1. group = NearestGroup(q, candidates)
        BY DEF group
    <2>2. Grown(q, pool, group)
        BY <1>4, <2>1
    <2> HIDE DEF pool
    <2> QED BY <1>2, <2>2 DEF Grown
<1>6. m \in Messages /\ m.riders = group /\ m.type = "CANDIDATES"
    <2> HIDE DEF group
    <2> QED BY <1>5 DEF Messages
<1>7. CASE UNCHANGED matching
    <2>1. topic' = topic /\ anchorOf' = anchorOf
        BY <1>7 DEF matching
    <2>2. QED
        BY <1>1, <2>1 DEF GroupsFromProposals, FromOneProposal
<1>8. CASE \E g \in Unused : anchorOf' = [anchorOf EXCEPT ![g] = q] /\ topic' = [topic EXCEPT ![g] = <<m>>]
    <2>1. PICK g \in Unused : anchorOf' = [anchorOf EXCEPT ![g] = q] /\ topic' = [topic EXCEPT ![g] = <<m>>]
        BY <1>8
    <2>2. g \in Groups
        BY DEF Unused
    <2> HIDE DEF m, group, pool
    <2>3. <<m>> \in Seq(Messages) /\ DOMAIN <<m>> = {1} /\ <<m>>[1] = m
        BY <1>6
    <2>4. /\ topic' \in [Groups -> Seq(Messages)] /\ topic'[g] = <<m>>
          /\ \A h \in Groups : h # g => topic'[h] = topic[h] /\ anchorOf'[h] = anchorOf[h]
          /\ anchorOf' \in [Groups -> Requests \cup {None}] /\ anchorOf'[g] = q
        BY <1>1, <2>1, <2>2, <2>3
    <2>5. ASSUME NEW h \in Groups, topic'[h] # <<>>
          PROVE  \E proposal \in SUBSET Requests : FromOneProposal(h, proposal)'
        <3>1. CASE h # g
            <4>1. topic'[h] = topic[h] /\ anchorOf'[h] = anchorOf[h]
                BY <2>4, <3>1
            <4>2. PICK proposal \in SUBSET Requests : FromOneProposal(h, proposal)
                BY <1>1, <2>5, <4>1 DEF GroupsFromProposals
            <4>3. FromOneProposal(h, proposal)'
                BY <4>1, <4>2 DEF FromOneProposal
            <4>4. QED
                BY <4>3
        <3>2. CASE h = g
            <4>1. FromOneProposal(g, group)'
                BY <1>5, <1>6, <2>3, <2>4 DEF FromOneProposal
            <4>2. QED
                BY <1>5, <3>2, <4>1
        <3>3. QED
            BY <3>1, <3>2
    <2>6. QED
        BY <2>4, <2>5 DEF GroupsFromProposals
<1>9. QED
    BY <1>3, <1>7, <1>8

(* The pool changes between messages: who has a seat stays known, and who  *)
(* is let go has none.                                                     *)
LEMMA PoolKeepsSeats ==
    ASSUME PlannerTyped, SeatsAreKnown, busy = Resting, NEW gone,
           assigned' = assigned \ gone,
           seated' = [r \in Requests |-> IF r \in gone THEN {} ELSE seated[r]],
           seeds' # {} => busy' = Resting
    PROVE  SeatsAreKnown' /\ seated' \in [Requests -> SUBSET Groups]
<1>1. busy.riders = {}
    BY DEF Resting
<1>2. \A q \in Requests : seated[q] # {} => q \in assigned
    BY <1>1 DEF SeatsAreKnown
<1>3. seated' \in [Requests -> SUBSET Groups]
    BY DEF PlannerTyped
<1>4. \A q \in Requests : seated'[q] = {} \/ (q \notin gone /\ seated'[q] = seated[q])
    OBVIOUS
<1>5. \A q \in Requests : seated'[q] # {} => q \in assigned'
    BY <1>2, <1>4
<1>6. \A q \in Requests : seated'[q] = {} \/ \E g \in Groups : seated'[q] = {g}
    BY <1>4 DEF SeatsAreKnown
<1>7. QED
    BY <1>3, <1>5, <1>6 DEF SeatsAreKnown

LEMMA PoolStep ==
    ASSUME PlannerInv, NEW q \in Requests, Enqueue(q) \/ PruneOnly, busy = Resting,
           seeds' \subseteq seeds, seeds' # {} => busy' = Resting,
           busy' \in [key : Requests \cup {None}, riders : SUBSET Requests]
    PROVE  PlannerInv'
<1>1. /\ topic' \in [Groups -> Seq(Messages)] /\ anchorOf' \in [Groups -> Requests \cup {None}]
      /\ GroupsFromProposals'
    <2>1. CASE Enqueue(q)
        BY <2>1, EnqueueMatching
    <2>2. CASE PruneOnly
        <3>1. topic' = topic /\ anchorOf' = anchorOf
            BY <2>2 DEF PruneOnly, matching
        <3>2. QED
            BY <3>1 DEF PlannerInv, PlannerTyped, GroupsFromProposals, FromOneProposal
    <2>3. QED
        BY <2>1, <2>2
<1>2. /\ assigned' = assigned \ Expired
      /\ seated' = [r \in Requests |-> IF r \in Expired THEN {} ELSE seated[r]]
      /\ pending' \subseteq pending \cup {q}
    BY DEF Enqueue, PruneOnly
<1>3. SeatsAreKnown' /\ seated' \in [Requests -> SUBSET Groups]
    BY <1>2, PoolKeepsSeats DEF PlannerInv
<1>4. PlannerTyped'
    BY <1>1, <1>2, <1>3 DEF PlannerInv, PlannerTyped
<1>5. AtItsMessage'
    BY GroupRidesAssumption DEF AtItsMessage
<1>6. QED
    BY <1>1, <1>3, <1>4, <1>5 DEF PlannerInv

LEMMA ReleaseStep ==
    ASSUME PlannerInv, NEW q \in Requests, ReleaseRide(q), Consuming,
           UNCHANGED <<matching, seeds>>,
           busy' \in [key : Requests \cup {None}, riders : SUBSET Requests]
    PROVE  PlannerInv'
<1>1. topic' = topic /\ anchorOf' = anchorOf /\ seeds' = {} /\ busy = Resting
    BY DEF matching, Consuming
<1>2. /\ assigned' = assigned \ {q} /\ pending' \subseteq pending
      /\ seated' = [r \in Requests |-> IF r \in {q} THEN {} ELSE seated[r]]
    BY DEF ReleaseRide, PlannerInv, PlannerTyped
<1>3. SeatsAreKnown' /\ seated' \in [Requests -> SUBSET Groups]
    BY <1>1, <1>2, PoolKeepsSeats DEF PlannerInv
<1>4. PlannerTyped' /\ GroupsFromProposals'
    BY <1>1, <1>2, <1>3 DEF PlannerInv, PlannerTyped, GroupsFromProposals, FromOneProposal
<1>5. AtItsMessage'
    BY GroupRidesAssumption DEF AtItsMessage
<1>6. QED
    BY <1>3, <1>4, <1>5 DEF PlannerInv

(* A plan is published for riders nobody has taken: none of them has a     *)
(* seat, and the message that seats them stays at the head of its key.     *)
LEMMA PlanStep ==
    ASSUME PlannerInv, NEW g \in Groups, PlanGroup(g)
    PROVE  PlannerInv'
<1>1. /\ topic[g] # <<>> /\ Head(topic[g]).type = "CANDIDATES" /\ seeds = {} /\ busy = Resting
      /\ Waiting(g) \subseteq Head(topic[g]).riders /\ Waiting(g) \subseteq pending
      /\ Waiting(g) \cap assigned = {}
      /\ Cardinality(Waiting(g)) >= 2 /\ anchorOf[g] \in Waiting(g)
      /\ topic' = Published(g, "PLANNED", Waiting(g)) /\ busy' = [key |-> g, riders |-> Waiting(g)]
      /\ UNCHANGED <<anchorOf, pending, assigned, seeds>>
    BY DEF PlanGroup, At, Consuming, Waiting
<1>2. /\ topic' \in [Groups -> Seq(Messages)] /\ GroupsFromProposals'
      /\ topic'[g] # <<>> /\ Head(topic'[g]) = Head(topic[g])
    BY <1>1, PublishedKeeps DEF PlannerInv
<1>3. /\ seated' = [q \in Requests |-> IF q \in Waiting(g) THEN seated[q] \cup {g} ELSE seated[q]]
      /\ seated \in [Requests -> SUBSET Groups]
    BY DEF PlanGroup, PlannerInv, PlannerTyped
<1>4. \A q \in Requests : seated[q] # {} => q \in assigned
    BY <1>1 DEF PlannerInv, SeatsAreKnown, Resting
<1>5. busy'.key = g /\ busy'.riders = Waiting(g) /\ Planning'
    BY <1>1, <1>2 DEF Planning
<1>6. SeatsAreKnown'
    <2>1. \A q \in Requests : q \in Waiting(g) => seated'[q] = {g}
        BY <1>1, <1>3, <1>4
    <2>2. \A q \in Requests : q \notin Waiting(g) => seated'[q] = seated[q]
        BY <1>3
    <2>3. \A q \in Requests : seated[q] = {} \/ \E h \in Groups : seated[q] = {h}
        BY DEF PlannerInv, SeatsAreKnown
    <2>4. \A q \in Requests : seated'[q] = {} \/ \E h \in Groups : seated'[q] = {h}
        BY <2>1, <2>2, <2>3
    <2>5. \A q \in Requests : seated'[q] # {} => q \in assigned' \/ (Planning' /\ q \in busy'.riders)
        BY <1>1, <1>4, <1>5, <2>2
    <2>6. seeds' = {}
        BY <1>1
    <2>7. QED
        BY <2>4, <2>5, <2>6 DEF SeatsAreKnown
<1>7. PlannerTyped'
    <2>1. Waiting(g) \subseteq Requests
        BY <1>1 DEF PlannerInv, PlannerTyped
    <2>2. seated' \in [Requests -> SUBSET Groups]
        BY <1>3
    <2>3. QED
        BY <1>1, <1>2, <2>1, <2>2 DEF PlannerInv, PlannerTyped
<1>8. AtItsMessage'
    BY <1>2, <1>5 DEF AtItsMessage
<1>9. QED
    BY <1>2, <1>6, <1>7, <1>8 DEF PlannerInv

(* The memory gets the riders of the plan, with or without the rows.       *)
LEMMA SeatStep ==
    ASSUME PlannerInv, NEW g \in Groups, FinishPlan(g) \/ FinishPlanUnsaved(g)
    PROVE  PlannerInv'
<1>1. /\ busy.key = g /\ Head(topic[g]).type = "CANDIDATES"
      /\ assigned' = assigned \cup busy.riders /\ pending' = pending \ busy.riders
      /\ topic' = Handled(g) /\ busy' = Resting
      /\ UNCHANGED <<anchorOf, seeds, seated>>
    BY DEF FinishPlan, FinishPlanUnsaved, SeatMembers
<1>2. topic[g] # <<>>
    BY <1>1 DEF PlannerInv, AtItsMessage
<1>3. topic' \in [Groups -> Seq(Messages)] /\ GroupsFromProposals'
    BY <1>1, <1>2, HandledKeeps DEF PlannerInv
<1>4. SeatsAreKnown'
    BY <1>1 DEF PlannerInv, SeatsAreKnown, Resting
<1>5. PlannerTyped'
    BY <1>1, <1>3 DEF PlannerInv, PlannerTyped, Resting
<1>6. AtItsMessage'
    BY <1>1, RestingIsAtNone DEF AtItsMessage
<1>7. QED
    BY <1>3, <1>4, <1>5, <1>6 DEF PlannerInv

(* A message is handed on or dropped whose riders have their seats.        *)
LEMMA HandOnStep ==
    ASSUME PlannerInv, NEW g \in Groups,
           \/ DropCandidates(g) \/ BuildRoute(g) \/ RouteRefused(g) \/ RequestDispatch(g)
    PROVE  PlannerInv'
<1>1. /\ topic[g] # <<>> /\ seeds = {} /\ busy = Resting
      /\ UNCHANGED <<anchorOf, pending, assigned, seeds, seated>>
    BY DEF DropCandidates, BuildRoute, RouteRefused, RequestDispatch, At, Consuming, memory,
           matching
<1>2. /\ topic' \in [Groups -> Seq(Messages)] /\ GroupsFromProposals'
      /\ UNCHANGED busy \/ topic'[g] # <<>>
    <2>1. CASE DropCandidates(g) \/ RouteRefused(g)
        <3>1. topic' = Handled(g) /\ UNCHANGED busy
            BY <2>1 DEF DropCandidates, RouteRefused, memory
        <3>2. QED
            BY <1>1, <3>1, HandledKeeps DEF PlannerInv
    <2>2. CASE BuildRoute(g)
        <3>1. Head(topic[g]).type = "PLANNED" /\ topic' = Published(g, "ROUTE_BUILT", Head(topic[g]).riders)
            BY <2>2 DEF BuildRoute, At
        <3>2. anchorOf[g] \in Head(topic[g]).riders /\ Cardinality(Head(topic[g]).riders) >= 2
            <4>1. PICK proposal \in SUBSET Requests : FromOneProposal(g, proposal)
                BY <1>1 DEF PlannerInv, GroupsFromProposals
            <4>2. topic[g] \in Seq(Messages)
                BY DEF PlannerInv, PlannerTyped
            <4>3. 1 \in DOMAIN topic[g] /\ Head(topic[g]) = topic[g][1]
                BY <1>1, <4>2
            <4>4. QED
                BY <3>1, <4>1, <4>3 DEF FromOneProposal
        <3>3. QED
            BY <1>1, <3>1, <3>2, PublishedKeeps DEF PlannerInv
    <2>3. CASE RequestDispatch(g)
        <3>1. topic' = topic
            BY <2>3 DEF RequestDispatch, matching
        <3>2. QED
            BY <1>1, <3>1 DEF PlannerInv, PlannerTyped, GroupsFromProposals, FromOneProposal
    <2>4. QED
        BY <2>1, <2>2, <2>3
<1>3. \A q \in Requests : seated[q] # {} => q \in assigned
    BY <1>1 DEF PlannerInv, SeatsAreKnown, Resting
<1>4. SeatsAreKnown'
    BY <1>1, <1>3 DEF PlannerInv, SeatsAreKnown
<1>5. busy' = busy \/ busy' = [key |-> g, riders |-> Head(topic[g]).riders]
    BY DEF DropCandidates, BuildRoute, RouteRefused, RequestDispatch, memory
<1>6. Head(topic[g]).riders \subseteq Requests
    <2>1. topic[g] \in Seq(Messages)
        BY DEF PlannerInv, PlannerTyped
    <2>2. Head(topic[g]) \in Messages
        BY <1>1, <2>1
    <2>3. QED
        BY <2>2 DEF Messages
<1>7. PlannerTyped'
    BY <1>1, <1>2, <1>5, <1>6 DEF PlannerInv, PlannerTyped
<1>8. AtItsMessage'
    <2>1. CASE UNCHANGED busy
        BY <1>1, <2>1, RestingIsAtNone DEF AtItsMessage
    <2>2. CASE busy' = [key |-> g, riders |-> Head(topic[g]).riders] /\ topic'[g] # <<>>
        BY <2>2 DEF AtItsMessage
    <2>3. QED
        BY <1>2, <1>5, <2>1, <2>2
<1>9. QED
    BY <1>2, <1>4, <1>7, <1>8 DEF PlannerInv

(* The handler of a plan that is saved, a route or a dispatch returns.     *)
LEMMA FinishStep ==
    ASSUME PlannerInv, NEW g \in Groups, FinishRoute(g) \/ FinishDispatch(g)
    PROVE  PlannerInv'
<1>1. /\ busy.key = g /\ Head(topic[g]).type # "CANDIDATES"
      /\ topic' = Handled(g) /\ busy' = Resting
      /\ UNCHANGED <<anchorOf, pending, assigned, seeds, seated>>
    BY DEF FinishRoute, FinishDispatch
<1>2. topic[g] # <<>>
    BY <1>1 DEF PlannerInv, AtItsMessage
<1>3. topic' \in [Groups -> Seq(Messages)] /\ GroupsFromProposals'
    BY <1>1, <1>2, HandledKeeps DEF PlannerInv
<1>4. SeatsAreKnown'
    BY <1>1 DEF PlannerInv, SeatsAreKnown, Planning
<1>5. PlannerTyped'
    BY <1>1, <1>3 DEF PlannerInv, PlannerTyped, Resting
<1>6. AtItsMessage'
    BY <1>1, RestingIsAtNone DEF AtItsMessage
<1>7. QED
    BY <1>3, <1>4, <1>5, <1>6 DEF PlannerInv

LEMMA FinishMailStep ==
    ASSUME PlannerInv, NEW q \in Requests, FinishMail(q)
    PROVE  PlannerInv'
<1>1. /\ busy.key \notin Groups /\ busy' = Resting
      /\ UNCHANGED <<topic, anchorOf, pending, assigned, seeds, seated>>
    BY GroupRidesAssumption DEF FinishMail, matching
<1>2. SeatsAreKnown'
    BY <1>1 DEF PlannerInv, SeatsAreKnown, Planning
<1>3. PlannerTyped' /\ GroupsFromProposals'
    BY <1>1 DEF PlannerInv, PlannerTyped, GroupsFromProposals, FromOneProposal, Resting
<1>4. AtItsMessage'
    BY <1>1, RestingIsAtNone DEF AtItsMessage
<1>5. QED
    BY <1>2, <1>3, <1>4 DEF PlannerInv

(* What gateway and ride-service do leaves the planner as it is.           *)
plannerVars == <<topic, anchorOf, pending, assigned, seeds, busy, seated>>

LEMMA PlannerUntouched ==
    ASSUME PlannerInv, UNCHANGED plannerVars
    PROVE  PlannerInv'
BY DEF plannerVars, PlannerInv, PlannerTyped, SeatsAreKnown, GroupsFromProposals,
       FromOneProposal, AtItsMessage, Planning

LEMMA OthersLeavePlanner ==
    ASSUME RiderSteps \/ RideSteps \/ UNCHANGED groupRidesVars
    PROVE  UNCHANGED plannerVars
<1>1. ASSUME NEW q \in Requests,
             \/ Create(q) \/ CreateVerified(q) \/ CreateUploadUrl(q) \/ StartCheck(q)
             \/ StartSelfie(q) \/ Accept(q) \/ Reject(q) \/ CancelFromApp(q)
             \/ CancelFromWhatsapp(q) \/ SelfieRefusedForGood(q) \/ TtlPasses(q)
      PROVE  UNCHANGED plannerVars
    BY <1>1 DEF Create, CreateVerified, CreateUploadUrl, StartCheck, StartSelfie, Accept, Reject,
       CancelFromApp, CancelFromWhatsapp, SelfieRefusedForGood, Withdraw, TtlPasses, memory,
       matching, plannerVars
<1>2. ASSUME NEW g \in Groups, Dispatch(g) \/ DispatchRedelivered(g) \/ DriverTaken(g)
      PROVE  UNCHANGED plannerVars
    BY <1>2 DEF Dispatch, DispatchRedelivered, DriverTaken, memory, matching, plannerVars
<1>3. ASSUME NEW q \in Requests, BidTimeout(q) \/ BidTimeoutRefused(q)
      PROVE  UNCHANGED plannerVars
    BY <1>3 DEF BidTimeout, BidTimeoutRefused, memory, matching, plannerVars
<1>4. QED
    BY <1>1, <1>2, <1>3 DEF RiderSteps, RideSteps, groupRidesVars, plannerVars

LEMMA RestartStep ==
    ASSUME PlannerInv, Restart
    PROVE  PlannerInv'
<1>1. /\ pending' = {} /\ assigned' = {} /\ busy' = Resting /\ seeds' \subseteq Requests
      /\ seated' = [q \in Requests |-> {}] /\ UNCHANGED <<topic, anchorOf>>
    BY DEF Restart, matching
<1>2. PlannerTyped' /\ GroupsFromProposals'
    BY <1>1 DEF PlannerInv, PlannerTyped, GroupsFromProposals, FromOneProposal, Resting
<1>3. SeatsAreKnown' /\ AtItsMessage'
    BY <1>1, RestingIsAtNone DEF SeatsAreKnown, AtItsMessage
<1>4. QED
    BY <1>2, <1>3 DEF PlannerInv

LEMMA RiderMessageStep ==
    ASSUME PlannerInv, NEW q \in Requests,
           Seed(q) \/ HandleReady(q) \/ HandleCancelled(q) \/ TripEnds(q)
    PROVE  PlannerInv'
<1>1. CASE Seed(q)
    <2>1. busy = Resting /\ busy' = busy /\ seeds' \subseteq seeds /\ (Enqueue(q) \/ PruneOnly)
        BY <1>1 DEF Seed, PlannerInv, SeatsAreKnown
    <2>2. QED
        BY <2>1, PoolStep DEF Resting
<1>2. CASE HandleReady(q)
    <2>1. /\ busy = Resting /\ busy' = [key |-> q, riders |-> {q}] /\ seeds' = seeds /\ seeds = {}
          /\ Enqueue(q) \/ PruneOnly
        BY <1>2 DEF HandleReady, Consuming
    <2>2. QED
        BY <2>1, PoolStep
<1>3. CASE HandleCancelled(q)
    <2>1. /\ Consuming /\ ReleaseRide(q) /\ busy' = [key |-> q, riders |-> {q}]
          /\ UNCHANGED <<matching, seeds>>
        BY <1>3 DEF HandleCancelled
    <2>2. QED
        BY <2>1, ReleaseStep
<1>4. CASE TripEnds(q)
    <2>1. Consuming /\ ReleaseRide(q) /\ busy' = Resting /\ UNCHANGED <<matching, seeds>>
        BY <1>4 DEF TripEnds, Consuming
    <2>2. QED
        BY <2>1, ReleaseStep DEF Resting
<1>5. QED
    BY <1>1, <1>2, <1>3, <1>4

LEMMA PlannerStep ==
    ASSUME PlannerInv, [GroupRidesNext]_groupRidesVars
    PROVE  PlannerInv'
<1>1. CASE RiderSteps \/ RideSteps \/ UNCHANGED groupRidesVars
    BY <1>1, OthersLeavePlanner, PlannerUntouched
<1>2. CASE Restart
    BY <1>2, RestartStep
<1>3. CASE PlannerSteps
    <2>1. ASSUME NEW q \in Requests,
                 \/ Seed(q) \/ HandleReady(q) \/ HandleCancelled(q) \/ FinishMail(q) \/ TripEnds(q)
          PROVE  PlannerInv'
        BY <2>1, RiderMessageStep, FinishMailStep
    <2>2. ASSUME NEW g \in Groups,
                 \/ DropCandidates(g) \/ PlanGroup(g) \/ FinishPlan(g) \/ FinishPlanUnsaved(g)
                 \/ BuildRoute(g) \/ FinishRoute(g) \/ RouteRefused(g) \/ RequestDispatch(g)
                 \/ FinishDispatch(g)
          PROVE  PlannerInv'
        BY <2>2, PlanStep, SeatStep, HandOnStep, FinishStep
    <2>3. QED
        BY <1>3, <2>1, <2>2 DEF PlannerSteps
<1>4. QED
    BY <1>1, <1>2, <1>3 DEF GroupRidesNext

(* What the planner remembers of a rider agrees with the plans it has made *)
(* and with the message it is publishing for.                              *)
THEOREM PlannerInvariant == GroupRidesSpec => []PlannerInv
BY PlannerInit, PlannerStep, PTL DEF GroupRidesSpec

(* One life of the planner puts a rider in one group only, for every pool, *)
(* limit and number of groups.                                             *)
THEOREM SeatedOnce == GroupRidesSpec => []OneGroupPerRider
<1>1. PlannerInv => OneGroupPerRider
    <2>1. ASSUME PlannerInv, NEW q \in Requests
          PROVE  Cardinality(seated[q]) <= 1
        <3>1. CASE seated[q] = {}
            BY <3>1, FS_EmptySet
        <3>2. CASE \E g \in Groups : seated[q] = {g}
            <4>1. PICK g \in Groups : seated[q] = {g}
                BY <3>2
            <4>2. Cardinality({g}) = 1
                BY FS_Singleton, Zenon
            <4>3. QED
                BY <4>1, <4>2
        <3>3. QED
            BY <2>1, <3>1, <3>2 DEF PlannerInv, SeatsAreKnown
    <2>2. QED
        BY <2>1 DEF OneGroupPerRider
<1>2. QED
    BY <1>1, PlannerInvariant, PTL

(* A group is remembered before it is broadcast, and for good: however     *)
(* often a dispatch is delivered, it is broadcast once.                    *)
LEMMA DispatchStep ==
    ASSUME BroadcastsRemembered, NEW g \in Groups, Dispatch(g)
    PROVE  BroadcastsRemembered'
<1>1. CASE UNCHANGED <<remembered, offered>>
    BY <1>1 DEF BroadcastsRemembered
<1>2. ASSUME NEW sent \in {0, 1}, g \notin remembered, remembered' = remembered \cup {g},
             offered' = [offered EXCEPT ![g] = @ + sent]
      PROVE  BroadcastsRemembered'
    <2>1. offered[g] = 0
        BY <1>2 DEF BroadcastsRemembered
    <2>2. offered' \in [Groups -> {0, 1}]
          /\ \A h \in Groups : h # g => offered'[h] = offered[h]
        BY <1>2, <2>1 DEF BroadcastsRemembered
    <2>3. QED
        BY <1>2, <2>2 DEF BroadcastsRemembered
<1>3. QED
    BY <1>1, <1>2 DEF Dispatch, Ignored, Remember

LEMMA BroadcastStep ==
    ASSUME BroadcastsRemembered, [GroupRidesNext]_groupRidesVars
    PROVE  BroadcastsRemembered'
<1>1. ASSUME NEW q \in Requests,
             \/ Create(q) \/ CreateVerified(q) \/ CreateUploadUrl(q) \/ StartCheck(q)
             \/ StartSelfie(q) \/ Accept(q) \/ Reject(q) \/ CancelFromApp(q)
             \/ CancelFromWhatsapp(q) \/ SelfieRefusedForGood(q) \/ TtlPasses(q)
      PROVE  UNCHANGED <<remembered, offered>>
    BY <1>1 DEF Create, CreateVerified, CreateUploadUrl, StartCheck, StartSelfie, Accept, Reject,
       CancelFromApp, CancelFromWhatsapp, SelfieRefusedForGood, Withdraw, TtlPasses, ride
<1>2. ASSUME NEW q \in Requests,
             \/ Seed(q) \/ HandleReady(q) \/ HandleCancelled(q) \/ FinishMail(q) \/ TripEnds(q)
      PROVE  UNCHANGED <<remembered, offered>>
    BY <1>2 DEF Seed, HandleReady, HandleCancelled, FinishMail, TripEnds, ride
<1>3. ASSUME NEW g \in Groups,
             \/ DropCandidates(g) \/ PlanGroup(g) \/ FinishPlan(g) \/ FinishPlanUnsaved(g)
             \/ BuildRoute(g) \/ FinishRoute(g) \/ RouteRefused(g) \/ RequestDispatch(g)
             \/ FinishDispatch(g) \/ DispatchRedelivered(g) \/ DriverTaken(g)
      PROVE  UNCHANGED <<remembered, offered>>
    BY <1>3 DEF DropCandidates, PlanGroup, FinishPlan, FinishPlanUnsaved, BuildRoute, FinishRoute,
       RouteRefused, RequestDispatch, FinishDispatch, DispatchRedelivered, DriverTaken, ride
<1>4. ASSUME NEW q \in Requests, BidTimeout(q) \/ BidTimeoutRefused(q)
      PROVE  UNCHANGED <<remembered, offered>>
    BY <1>4 DEF BidTimeout, BidTimeoutRefused
<1>5. Restart \/ UNCHANGED groupRidesVars => UNCHANGED <<remembered, offered>>
    BY DEF Restart, ride, groupRidesVars
<1>6. UNCHANGED <<remembered, offered>> \/ \E g \in Groups : Dispatch(g)
    BY <1>1, <1>2, <1>3, <1>4, <1>5 DEF GroupRidesNext, RiderSteps, PlannerSteps, RideSteps
<1>7. UNCHANGED <<remembered, offered>> => BroadcastsRemembered'
    BY DEF BroadcastsRemembered
<1>8. QED
    BY <1>6, <1>7, DispatchStep

(* A group is offered to the drivers once, for any number of groups, of    *)
(* deliveries and of faults.                                               *)
THEOREM BroadcastsOnce == GroupRidesSpec => []BroadcastOnce
<1>1. GroupRidesInit => BroadcastsRemembered
    BY DEF GroupRidesInit, BroadcastsRemembered
<1>2. BroadcastsRemembered => BroadcastOnce
    BY DEF BroadcastsRemembered, BroadcastOnce
<1>3. QED
    BY <1>1, <1>2, BroadcastStep, PTL DEF GroupRidesSpec

(* Whatever is planned under a group's key has an order of stops to be     *)
(* planned: its anchor is one of at least two riders, who fit one car.     *)
LEMMA PlannedIsPlannable ==
    ASSUME PlannerInv, NEW g \in Groups, Planned(g) # {}
    PROVE  <<anchorOf[g], Planned(g)>> \in Plannable
<1>1. topic[g] \in Seq(Messages)
    BY DEF PlannerInv, PlannerTyped
<1>2. PICK i \in DOMAIN topic[g] : topic[g][i].type # "CANDIDATES"
    BY DEF Planned, ToSet
<1>3. topic[g] # <<>>
    BY <1>1, <1>2
<1>4. PICK proposal \in SUBSET Requests : FromOneProposal(g, proposal)
    BY <1>3 DEF PlannerInv, GroupsFromProposals
<1>5. \A r \in Planned(g) : \E j \in DOMAIN topic[g] : r \in topic[g][j].riders
    BY DEF Planned, ToSet
<1>6. Planned(g) \subseteq proposal
    BY <1>4, <1>5 DEF FromOneProposal
<1>7. topic[g][i].riders \subseteq Planned(g)
    BY <1>2 DEF Planned, ToSet
<1>8. anchorOf[g] \in topic[g][i].riders /\ Cardinality(topic[g][i].riders) >= 2
    BY <1>2, <1>4 DEF FromOneProposal
<1>9. IsFiniteSet(proposal) /\ (Cardinality(proposal) <= MaxSize \/ proposal = {anchorOf[g]})
    BY <1>4 DEF FromOneProposal, Grown
<1>10. IsFiniteSet(Planned(g)) /\ Cardinality(Planned(g)) <= Cardinality(proposal)
    BY <1>6, <1>9, FS_Subset
<1>11. Cardinality(topic[g][i].riders) <= Cardinality(Planned(g))
    BY <1>7, <1>10, FS_Subset
<1>12. /\ Cardinality(proposal) \in Nat /\ Cardinality(Planned(g)) \in Nat /\ MaxSize \in Nat
       /\ Cardinality(topic[g][i].riders) \in Nat
    <2>1. IsFiniteSet(topic[g][i].riders)
        BY <1>7, <1>10, FS_Subset
    <2>2. QED
        BY <1>9, <1>10, <2>1, FS_CardinalityType, StopSequencerAssumption
<1>13. proposal # {anchorOf[g]}
    <2>1. Cardinality({anchorOf[g]}) = 1
        BY FS_Singleton, Zenon
    <2>2. QED
        BY <1>8, <1>10, <1>11, <1>12, <2>1
<1>14. Cardinality(Planned(g)) \in 2..MaxSize
    BY <1>8, <1>9, <1>10, <1>11, <1>12, <1>13
<1>15. anchorOf[g] \in Planned(g) /\ anchorOf[g] \in Requests /\ Planned(g) \in SUBSET Requests
    BY <1>4, <1>6, <1>7, <1>8 DEF FromOneProposal
<1>16. <<anchorOf[g], Planned(g)>> \in
           {<<anchor, group>> : anchor \in Requests, group \in SUBSET Requests}
    BY <1>15
<1>17. QED
    <2> DEFINE p == <<anchorOf[g], Planned(g)>>
    <2>1. p[1] = anchorOf[g] /\ p[2] = Planned(g)
        OBVIOUS
    <2>2. p[1] \in p[2] /\ Cardinality(p[2]) \in 2..MaxSize
        BY <1>14, <1>15, <2>1, Zenon
    <2> HIDE DEF p
    <2>3. p \in {<<anchor, group>> : anchor \in Requests, group \in SUBSET Requests}
        BY <1>16 DEF p
    <2>4. p \in Plannable
        BY <2>2, <2>3 DEF Plannable
    <2>5. QED
        BY <2>4 DEF p

-----------------------------------------------------------------------------
(* A request that was never made has no selfie, no message and no check    *)
(* under way; the rider's message the planner is at is still in the mail.  *)
RequestsTyped ==
    /\ status \in [Requests -> Open \cup {"NONE", "GROUPED", "BOOKED", "EXPIRED", "CANCELLED"}]
    /\ face \in [Requests -> {"none", "UPLOADING", "STORED", "FAILED"}]
    /\ checking \subseteq Requests /\ overdue \subseteq Requests
    /\ mail \in [Requests -> Seq({"READY", "CANCELLED"})]
    /\ \A q \in Requests : Len(mail[q]) <= MaxMail
    /\ \A q \in Requests :
          status[q] = "NONE" => mail[q] = <<>> /\ face[q] = "none" /\ q \notin checking
    /\ busy.key \in Requests => mail[busy.key] # <<>>

DriversTyped ==
    /\ prints \subseteq SUBSET Requests /\ driven \cup timers \subseteq Requests
    /\ calledOff \cup refused \subseteq Groups
    /\ \A g \in Groups : offered[g] > 0 => anchorOf[g] \in Requests

GroupsInv == PlannerInv /\ BroadcastsRemembered /\ RequestsTyped /\ DriversTyped

RequestStatuses == Open \cup {"NONE", "GROUPED", "BOOKED", "EXPIRED", "CANCELLED"}

(* One more message waits for a request that exists.                       *)
LEMMA PostKeeps ==
    ASSUME RequestsTyped, NEW q \in Requests, CanPost(q), NEW message \in {"READY", "CANCELLED"},
           mail' = Posted(q, message)
    PROVE  /\ mail' \in [Requests -> Seq({"READY", "CANCELLED"})]
           /\ \A r \in Requests : Len(mail'[r]) <= MaxMail
           /\ \A r \in Requests : r # q => mail'[r] = mail[r]
           /\ mail'[q] # <<>>
<1>1. mail[q] \in Seq({"READY", "CANCELLED"}) /\ Len(mail[q]) < MaxMail /\ MaxMail \in Nat
    BY GroupRidesAssumption DEF RequestsTyped, CanPost
<1>2. /\ Append(mail[q], message) \in Seq({"READY", "CANCELLED"})
      /\ Len(Append(mail[q], message)) = Len(mail[q]) + 1
      /\ Append(mail[q], message) # <<>>
    BY <1>1
<1>3. Len(Append(mail[q], message)) <= MaxMail
    <2>1. Len(mail[q]) \in Nat
        BY <1>1
    <2>2. QED
        BY <1>1, <1>2, <2>1
<1>4. mail' = [mail EXCEPT ![q] = Append(mail[q], message)]
    BY DEF Posted
<1>5. QED
    BY <1>2, <1>3, <1>4 DEF RequestsTyped

LEMMA RiderTypes ==
    ASSUME RequestsTyped, NEW q \in Requests,
           \/ Create(q) \/ CreateVerified(q) \/ CreateUploadUrl(q) \/ StartCheck(q)
           \/ StartSelfie(q) \/ Accept(q) \/ Reject(q) \/ CancelFromApp(q)
           \/ CancelFromWhatsapp(q) \/ SelfieRefusedForGood(q) \/ TtlPasses(q)
    PROVE  RequestsTyped'
<1>1. CASE Create(q)
    BY <1>1 DEF Create, RequestsTyped, Open, memory
<1>2. CASE CreateVerified(q)
    <2>1. CanPost(q)
        BY <1>2, GroupRidesAssumption DEF CreateVerified, CanPost, RequestsTyped
    <2>2. mail' = Posted(q, "READY")
        BY <1>2 DEF CreateVerified
    <2>3. QED
        BY <1>2, <2>1, <2>2, PostKeeps DEF CreateVerified, RequestsTyped, Open, memory
<1>3. CASE CreateUploadUrl(q)
    BY <1>3 DEF CreateUploadUrl, RequestsTyped, Open, memory
<1>4. CASE StartCheck(q) \/ StartSelfie(q)
    BY <1>4 DEF StartCheck, StartSelfie, RequestsTyped, Open, memory
<1>5. CASE Accept(q)
    <2>1. mail' = Posted(q, "READY") /\ CanPost(q)
        BY <1>5 DEF Accept
    <2>2. QED
        BY <1>5, <2>1, PostKeeps DEF Accept, RequestsTyped, Open, memory
<1>6. CASE Reject(q)
    BY <1>6 DEF Reject, RequestsTyped, Open, memory
<1>7. CASE CancelFromApp(q) \/ CancelFromWhatsapp(q) \/ SelfieRefusedForGood(q)
    <2>1. /\ mail' = Posted(q, "CANCELLED") /\ CanPost(q)
          /\ status' = IF status[q] \in Open THEN [status EXCEPT ![q] = "CANCELLED"] ELSE status
          /\ checking' \subseteq checking
          /\ UNCHANGED <<face, overdue, busy>>
        BY <1>7 DEF CancelFromApp, CancelFromWhatsapp, SelfieRefusedForGood, Withdraw, memory
    <2>2. status[q] # "NONE"
        BY <1>7 DEF CancelFromApp, CancelFromWhatsapp, SelfieRefusedForGood, Open, RequestsTyped
    <2>3. QED
        BY <2>1, <2>2, PostKeeps DEF RequestsTyped, Open
<1>8. CASE TtlPasses(q)
    BY <1>8 DEF TtlPasses, RequestsTyped, memory
<1>9. QED
    BY <1>1, <1>2, <1>3, <1>4, <1>5, <1>6, <1>7, <1>8

(* The planner's rows: what is not there stays that way.                   *)
LEMMA PlannerTypes ==
    ASSUME RequestsTyped, PlannerTyped, NEW q \in Requests,
           \/ Seed(q) \/ HandleReady(q) \/ HandleCancelled(q) \/ FinishMail(q) \/ TripEnds(q)
    PROVE  RequestsTyped'
<1>1. CASE Seed(q) \/ HandleReady(q)
    <2>1. PICK fresh : /\ fresh \in {{}, {q}}
                       /\ status' = [r \in Requests |-> IF r \in fresh THEN "MATCHING"
                                          ELSE IF r \in Expired THEN "EXPIRED" ELSE status[r]]
        <3>1. Enqueue(q) \/ PruneOnly
            BY <1>1 DEF Seed, HandleReady
        <3>2. CASE Enqueue(q)
            BY <3>2 DEF Enqueue
        <3>3. CASE PruneOnly
            BY <3>3 DEF PruneOnly
        <3>4. QED
            BY <3>1, <3>2, <3>3
    <2>2. UNCHANGED <<face, checking, overdue, mail>>
        BY <1>1 DEF Seed, HandleReady
    <2>3. busy' = busy \/ (busy'.key = q /\ mail[q] # <<>>)
        BY <1>1 DEF Seed, HandleReady
    <2>4. busy'.key \in Requests => mail'[busy'.key] # <<>>
        BY <2>2, <2>3 DEF RequestsTyped
    <2>5. status' \in [Requests -> RequestStatuses]
        BY <2>1 DEF RequestStatuses, Open, RequestsTyped
    <2>6. \A r \in Requests : status'[r] = "NONE" => status[r] = "NONE"
        BY <2>1
    <2>7. QED
        BY <2>2, <2>4, <2>5, <2>6 DEF RequestsTyped, RequestStatuses
<1>2. CASE HandleCancelled(q)
    BY <1>2 DEF HandleCancelled, RequestsTyped, rows
<1>3. CASE FinishMail(q)
    <2>1. mail[q] # <<>> /\ mail[q] \in Seq({"READY", "CANCELLED"})
        BY <1>3 DEF FinishMail, RequestsTyped
    <2>2. /\ Tail(mail[q]) \in Seq({"READY", "CANCELLED"})
          /\ Len(Tail(mail[q])) = Len(mail[q]) - 1 /\ Len(mail[q]) \in Nat
        BY <2>1
    <2>3. Len(Tail(mail[q])) <= MaxMail
        BY <2>2, GroupRidesAssumption DEF RequestsTyped
    <2>4. /\ mail' = [mail EXCEPT ![q] = Tail(mail[q])] /\ busy'.key \notin Requests
          /\ UNCHANGED <<status, face, checking, overdue>>
        BY <1>3, GroupRidesAssumption DEF FinishMail, rows, Resting
    <2>5. status[q] # "NONE"
        BY <2>1 DEF RequestsTyped
    <2>6. QED
        BY <2>2, <2>3, <2>4, <2>5 DEF RequestsTyped
<1>4. CASE TripEnds(q)
    BY <1>4 DEF TripEnds, RequestsTyped, rows
<1>5. QED
    BY <1>1, <1>2, <1>3, <1>4

LEMMA GroupTypes ==
    ASSUME RequestsTyped, NEW g \in Groups,
           \/ DropCandidates(g) \/ PlanGroup(g) \/ FinishPlan(g) \/ FinishPlanUnsaved(g)
           \/ BuildRoute(g) \/ FinishRoute(g) \/ RouteRefused(g) \/ RequestDispatch(g)
           \/ FinishDispatch(g)
    PROVE  RequestsTyped'
<1>1. UNCHANGED <<face, checking, overdue, mail>>
    BY DEF DropCandidates, PlanGroup, FinishPlan, FinishPlanUnsaved, BuildRoute, FinishRoute,
       RouteRefused, RequestDispatch, FinishDispatch, rows
<1>2. busy' = busy \/ busy'.key \notin Requests
    BY GroupRidesAssumption DEF DropCandidates, PlanGroup, FinishPlan, FinishPlanUnsaved,
       BuildRoute, FinishRoute, RouteRefused, RequestDispatch, FinishDispatch, memory, Resting
<1>3. PICK to \in {"GROUPED", "BOOKED"} : status' = status \/ status' = Booked(busy.riders, to)
    BY DEF DropCandidates, PlanGroup, FinishPlan, FinishPlanUnsaved, BuildRoute, FinishRoute,
       RouteRefused, RequestDispatch, FinishDispatch, rows
<1>4. /\ status' \in [Requests -> RequestStatuses]
      /\ \A r \in Requests : status'[r] = "NONE" => status[r] = "NONE"
    BY <1>3 DEF RequestStatuses, Booked, RequestsTyped
<1>5. QED
    BY <1>1, <1>2, <1>4 DEF RequestsTyped, RequestStatuses

LEMMA RequestTypesStep ==
    ASSUME RequestsTyped, PlannerTyped, [GroupRidesNext]_groupRidesVars
    PROVE  RequestsTyped'
<1>1. CASE RiderSteps
    BY <1>1, RiderTypes DEF RiderSteps
<1>2. CASE PlannerSteps
    BY <1>2, PlannerTypes, GroupTypes DEF PlannerSteps
<1>3. CASE Restart
    BY <1>3, GroupRidesAssumption DEF Restart, rows, Resting, RequestsTyped
<1>4. CASE RideSteps \/ UNCHANGED groupRidesVars
    <2>1. UNCHANGED <<status, face, checking, overdue, mail, busy>>
        BY <1>4 DEF RideSteps, Dispatch, DispatchRedelivered, DriverTaken, BidTimeout,
           BidTimeoutRefused, rows, memory, groupRidesVars
    <2>2. QED
        BY <2>1 DEF RequestsTyped
<1>5. QED
    BY <1>1, <1>2, <1>3, <1>4 DEF GroupRidesNext

LEMMA PrintsStep ==
    ASSUME PlannerInv, prints \subseteq SUBSET Requests, [GroupRidesNext]_groupRidesVars
    PROVE  prints' \subseteq SUBSET Requests
<1>1. \A gone : Forgotten(gone) \subseteq prints
    BY DEF Forgotten
<1>2. ASSUME NEW q \in Requests, Enqueue(q)
      PROVE  prints' \subseteq SUBSET Requests
    <2> DEFINE pool == (pending \ Expired) \cup {q}
    <2>1. pool \in SUBSET Requests
        BY DEF PlannerInv, PlannerTyped
    <2>2. PICK candidates \in Candidates(q, pool) :
              prints' \subseteq prints \cup {NearestGroup(q, candidates)}
        BY <1>1, <1>2 DEF Enqueue
    <2>3. Grown(q, pool, NearestGroup(q, candidates))
        <3> HIDE DEF pool
        <3> QED BY <2>1, CandidatesWait, NearestGroupGrows
    <2>4. NearestGroup(q, candidates) \subseteq Requests
        <3> HIDE DEF pool
        <3> QED BY <2>1, <2>3 DEF Grown
    <2>5. QED
        BY <2>2, <2>4
<1>3. PruneOnly => prints' \subseteq prints
    BY <1>1 DEF PruneOnly
<1>4. ASSUME NEW q \in Requests, Seed(q) \/ HandleReady(q)
      PROVE  prints' \subseteq SUBSET Requests
    BY <1>2, <1>3, <1>4 DEF Seed, HandleReady
<1>5. ASSUME NEW q \in Requests, HandleCancelled(q) \/ FinishMail(q) \/ TripEnds(q)
      PROVE  prints' \subseteq prints
    BY <1>1, <1>5 DEF HandleCancelled, FinishMail, TripEnds, ReleaseRide
<1>6. ASSUME NEW q \in Requests,
             \/ Create(q) \/ CreateVerified(q) \/ CreateUploadUrl(q) \/ StartCheck(q)
             \/ StartSelfie(q) \/ Accept(q) \/ Reject(q) \/ CancelFromApp(q)
             \/ CancelFromWhatsapp(q) \/ SelfieRefusedForGood(q) \/ TtlPasses(q)
      PROVE  prints' = prints
    BY <1>6 DEF Create, CreateVerified, CreateUploadUrl, StartCheck, StartSelfie, Accept, Reject,
       CancelFromApp, CancelFromWhatsapp, SelfieRefusedForGood, Withdraw, TtlPasses, memory
<1>7. ASSUME NEW g \in Groups,
             \/ DropCandidates(g) \/ PlanGroup(g) \/ FinishPlan(g) \/ FinishPlanUnsaved(g)
             \/ BuildRoute(g) \/ FinishRoute(g) \/ RouteRefused(g) \/ RequestDispatch(g)
             \/ FinishDispatch(g) \/ Dispatch(g) \/ DispatchRedelivered(g) \/ DriverTaken(g)
      PROVE  prints' = prints
    BY <1>7 DEF DropCandidates, PlanGroup, FinishPlan, FinishPlanUnsaved, BuildRoute, FinishRoute,
       RouteRefused, RequestDispatch, FinishDispatch, Dispatch, DispatchRedelivered, DriverTaken,
       memory
<1>8. ASSUME NEW q \in Requests, BidTimeout(q) \/ BidTimeoutRefused(q)
      PROVE  prints' = prints
    BY <1>8 DEF BidTimeout, BidTimeoutRefused, memory
<1>9. Restart \/ UNCHANGED groupRidesVars => prints' \subseteq prints
    BY DEF Restart, groupRidesVars
<1>10. QED
    BY <1>4, <1>5, <1>6, <1>7, <1>8, <1>9 DEF GroupRidesNext, RiderSteps, PlannerSteps, RideSteps

(* A name once given to a group stays the anchor's; a group is broadcast   *)
(* only under such a name.                                                 *)
LEMMA AnchorsStay ==
    ASSUME PlannerInv, [GroupRidesNext]_groupRidesVars
    PROVE  \A g \in Groups : anchorOf[g] \in Requests => anchorOf'[g] = anchorOf[g]
<1>1. anchorOf \in [Groups -> Requests \cup {None}] /\ None \notin Requests
    BY GroupRidesAssumption DEF PlannerInv, PlannerTyped
<1>2. ASSUME NEW q \in Requests, Seed(q) \/ HandleReady(q)
      PROVE  \A g \in Groups : anchorOf[g] \in Requests => anchorOf'[g] = anchorOf[g]
    <2>1. UNCHANGED anchorOf \/ \E g \in Unused : anchorOf' = [anchorOf EXCEPT ![g] = q]
        BY <1>2 DEF Seed, HandleReady, Enqueue, PruneOnly, matching
    <2>2. QED
        BY <1>1, <2>1 DEF Unused
<1>3. ASSUME NEW q \in Requests, HandleCancelled(q) \/ FinishMail(q) \/ TripEnds(q)
      PROVE  UNCHANGED anchorOf
    BY <1>3 DEF HandleCancelled, FinishMail, TripEnds, matching
<1>4. ASSUME NEW g \in Groups,
             \/ DropCandidates(g) \/ PlanGroup(g) \/ FinishPlan(g) \/ FinishPlanUnsaved(g)
             \/ BuildRoute(g) \/ FinishRoute(g) \/ RouteRefused(g) \/ RequestDispatch(g)
             \/ FinishDispatch(g)
      PROVE  UNCHANGED anchorOf
    BY <1>4 DEF DropCandidates, PlanGroup, FinishPlan, FinishPlanUnsaved, BuildRoute, FinishRoute,
       RouteRefused, RequestDispatch, FinishDispatch, matching
<1>5. Restart => UNCHANGED anchorOf
    BY DEF Restart, matching
<1>6. RiderSteps \/ RideSteps \/ UNCHANGED groupRidesVars => UNCHANGED anchorOf
    BY OthersLeavePlanner DEF plannerVars
<1>7. QED
    BY <1>2, <1>3, <1>4, <1>5, <1>6 DEF GroupRidesNext, PlannerSteps

LEMMA DriversStep ==
    ASSUME PlannerInv, BroadcastsRemembered, DriversTyped, [GroupRidesNext]_groupRidesVars
    PROVE  DriversTyped'
<1>1. prints' \subseteq SUBSET Requests
    BY PrintsStep DEF DriversTyped
<1>2. \A g \in Groups : anchorOf[g] \in Requests => anchorOf'[g] \in Requests
    BY AnchorsStay
<1>3. ASSUME NEW g \in Groups, Dispatch(g)
      PROVE  /\ driven' \cup timers' \subseteq Requests
             /\ \A h \in Groups : offered'[h] > 0 => anchorOf[h] \in Requests
             /\ UNCHANGED <<calledOff, refused>>
    <2>1. UNCHANGED <<driven, calledOff, refused>>
        BY <1>3 DEF Dispatch
    <2>2. CASE UNCHANGED <<offered, timers>>
        BY <2>1, <2>2 DEF DriversTyped
    <2>3. ASSUME NEW sent \in {0, 1}, <<anchorOf[g], Head(dispatch[g]).riders>> \in Plannable,
                 offered' = [offered EXCEPT ![g] = @ + sent],
                 timers' = timers \cup {anchorOf[g]}
          PROVE  /\ driven' \cup timers' \subseteq Requests
                 /\ \A h \in Groups : offered'[h] > 0 => anchorOf[h] \in Requests
        <3>1. anchorOf[g] \in Requests
            BY <2>3 DEF Plannable
        <3>2. \A h \in Groups : h # g => offered'[h] = offered[h]
            BY <2>3 DEF BroadcastsRemembered
        <3>3. QED
            BY <2>1, <2>3, <3>1, <3>2 DEF DriversTyped
    <2>4. \/ UNCHANGED <<offered, timers>>
          \/ /\ <<anchorOf[g], Head(dispatch[g]).riders>> \in UsablePlans
             /\ \E sent \in {0, 1} : offered' = [offered EXCEPT ![g] = @ + sent]
             /\ timers' = timers \cup {anchorOf[g]}
        BY <1>3 DEF Dispatch, Ignored
    <2>5. UsablePlans \subseteq Plannable
        BY DEF UsablePlans
    <2>6. QED
        BY <2>1, <2>2, <2>3, <2>4, <2>5
<1>4. ASSUME NEW g \in Groups, DriverTaken(g)
      PROVE  driven' \cup timers' \subseteq Requests /\ UNCHANGED <<offered, calledOff, refused>>
    BY <1>4 DEF DriverTaken, DriversTyped
<1>5. ASSUME NEW g \in Groups, DispatchRedelivered(g)
      PROVE  UNCHANGED <<driven, offered, search>>
    BY <1>5 DEF DispatchRedelivered, search
<1>6. ASSUME NEW q \in Requests, BidTimeout(q) \/ BidTimeoutRefused(q)
      PROVE  /\ timers' \subseteq timers /\ UNCHANGED <<driven, offered>>
             /\ calledOff' \cup refused' \subseteq calledOff \cup refused \cup remembered
    BY <1>6 DEF BidTimeout, BidTimeoutRefused, SearchedUnder
<1>7. ASSUME NEW q \in Requests,
             \/ Create(q) \/ CreateVerified(q) \/ CreateUploadUrl(q) \/ StartCheck(q)
             \/ StartSelfie(q) \/ Accept(q) \/ Reject(q) \/ CancelFromApp(q)
             \/ CancelFromWhatsapp(q) \/ SelfieRefusedForGood(q) \/ TtlPasses(q)
             \/ Seed(q) \/ HandleReady(q) \/ HandleCancelled(q) \/ FinishMail(q) \/ TripEnds(q)
      PROVE  UNCHANGED <<driven, offered, search>>
    BY <1>7 DEF Create, CreateVerified, CreateUploadUrl, StartCheck, StartSelfie, Accept, Reject,
       CancelFromApp, CancelFromWhatsapp, SelfieRefusedForGood, Withdraw, TtlPasses, ride,
       Seed, HandleReady, HandleCancelled, FinishMail, TripEnds
<1>8. ASSUME NEW g \in Groups,
             \/ DropCandidates(g) \/ PlanGroup(g) \/ FinishPlan(g) \/ FinishPlanUnsaved(g)
             \/ BuildRoute(g) \/ FinishRoute(g) \/ RequestDispatch(g) \/ FinishDispatch(g)
      PROVE  UNCHANGED <<driven, offered, search>>
    BY <1>8 DEF DropCandidates, PlanGroup, FinishPlan, FinishPlanUnsaved, BuildRoute, FinishRoute,
       RequestDispatch, FinishDispatch, ride
<1>9. ASSUME NEW g \in Groups, RouteRefused(g)
      PROVE  UNCHANGED <<driven, offered, timers, calledOff>> /\ refused' = refused \cup {g}
    BY <1>9 DEF RouteRefused
<1>10. Restart \/ UNCHANGED groupRidesVars => UNCHANGED <<driven, offered, search>>
    BY DEF Restart, ride, groupRidesVars
<1>11. /\ driven' \cup timers' \subseteq Requests /\ calledOff' \cup refused' \subseteq Groups
       /\ \A h \in Groups : offered'[h] > 0 => anchorOf[h] \in Requests
    <2>1. \/ UNCHANGED <<driven, offered, search>>
          \/ \E g \in Groups : Dispatch(g) \/ DriverTaken(g) \/ RouteRefused(g)
          \/ \E q \in Requests : BidTimeout(q) \/ BidTimeoutRefused(q)
        BY <1>5, <1>7, <1>8, <1>10 DEF GroupRidesNext, RiderSteps, PlannerSteps, RideSteps
    <2>2. CASE UNCHANGED <<driven, offered, search>>
        BY <2>2 DEF DriversTyped, search
    <2>3. CASE \E g \in Groups : Dispatch(g) \/ DriverTaken(g) \/ RouteRefused(g)
        BY <2>3, <1>3, <1>4, <1>9 DEF DriversTyped
    <2>4. CASE \E q \in Requests : BidTimeout(q) \/ BidTimeoutRefused(q)
        BY <2>4, <1>6 DEF DriversTyped, BroadcastsRemembered
    <2>5. QED
        BY <2>1, <2>2, <2>3, <2>4
<1>12. QED
    BY <1>1, <1>2, <1>11 DEF DriversTyped

(* The rows, messages, memories and offers of the group rides together.    *)
THEOREM GroupsInvariant == GroupRidesSpec => []GroupsInv
<1>1. GroupRidesInit => GroupsInv
    <2>1. ASSUME GroupRidesInit
          PROVE  BroadcastsRemembered /\ RequestsTyped /\ DriversTyped
        <3>1. BroadcastsRemembered /\ DriversTyped
            BY <2>1 DEF GroupRidesInit, BroadcastsRemembered, DriversTyped
        <3>2. RequestsTyped
            BY <2>1, GroupRidesAssumption DEF GroupRidesInit, RequestsTyped, Resting
        <3>3. QED
            BY <3>1, <3>2
    <2>2. QED
        BY <2>1, PlannerInit DEF GroupsInv
<1>2. GroupsInv /\ [GroupRidesNext]_groupRidesVars => GroupsInv'
    BY PlannerStep, BroadcastStep, RequestTypesStep, DriversStep DEF GroupsInv, PlannerInv
<1>3. QED
    BY <1>1, <1>2, PTL DEF GroupRidesSpec

(* Every reachable state of the group rides is well typed, whatever the    *)
(* riders, places, limits and groups.                                      *)
THEOREM GroupRidesTypeCorrect == GroupRidesSpec => []GroupRidesTypeOK
<1>1. ASSUME GroupsInv
      PROVE  GroupRidesTypeOK
    <2>1. \A s \in Seq({"READY", "CANCELLED"}) :
              Len(s) <= MaxMail => s \in BoundedSeq({"READY", "CANCELLED"}, MaxMail)
        <3>1. ASSUME NEW s \in Seq({"READY", "CANCELLED"}), Len(s) <= MaxMail
              PROVE  s \in BoundedSeq({"READY", "CANCELLED"}, MaxMail)
            <4>1. Len(s) \in 0..MaxMail /\ s \in [1..Len(s) -> {"READY", "CANCELLED"}]
                BY <3>1, GroupRidesAssumption
            <4>2. QED
                BY <4>1 DEF BoundedSeq, SeqOf
        <3>2. QED
            BY <3>1
    <2>2. mail \in [Requests -> BoundedSeq({"READY", "CANCELLED"}, MaxMail)]
        BY <1>1, <2>1 DEF GroupsInv, RequestsTyped
    <2>3. offered \in [Groups -> 0..2] /\ remembered \subseteq Groups
        BY <1>1 DEF GroupsInv, BroadcastsRemembered
    <2>4. /\ busy.key \in Requests \cup Groups \cup {None} /\ busy.riders \subseteq Requests
          /\ pending \cup assigned \cup seeds \subseteq Requests
          /\ anchorOf \in [Groups -> Requests \cup {None}]
          /\ seated \in [Requests -> SUBSET Groups]
        BY <1>1 DEF GroupsInv, PlannerInv, PlannerTyped
    <2>5. QED
        BY <1>1, <2>2, <2>3, <2>4 DEF GroupsInv, RequestsTyped, DriversTyped, GroupRidesTypeOK
<1>2. QED
    BY <1>1, GroupsInvariant, PTL

-----------------------------------------------------------------------------
(***************************************************************************)
(* The order of the stops.  Both solvers recur on one function of what was *)
(* visited and where the car is; it exists because each value looks only   *)
(* at those with one stop fewer left.  By induction on the stops left, a   *)
(* solver's path is a way: every stop left, once, no dropoff before its    *)
(* pickup, at the cost it says; and the exact one is not dearer than any   *)
(* way.  A way is a reachable stop and a way on from there (WayOn,         *)
(* WayBack), which is where the induction gets its other ways from.        *)
(***************************************************************************)
Left(group, visited) == Cardinality(Nodes(group) \ visited)

(* A way on from the stops visited: to every stop that is left, once, and  *)
(* to no dropoff before its pickup.                                        *)
IsWay(group, visited, way) ==
    /\ way \in Seq(Nodes(group))
    /\ \A i, j \in DOMAIN way : i # j => way[i] # way[j]
    /\ \A n : n \in Nodes(group) \ visited <=> \E i \in DOMAIN way : way[i] = n
    /\ \A i \in DOMAIN way : way[i][2] = "dropoff" =>
          \/ <<way[i][1], "pickup">> \in visited
          \/ \E j \in DOMAIN way : j < i /\ way[j] = <<way[i][1], "pickup">>

LEMMA LegIsLength ==
    ASSUME NEW group \in SUBSET Requests, NEW a \in Nodes(group), NEW b \in Nodes(group)
    PROVE  Leg(a, b) \in Nat
<1>1. Place(a) \in Int /\ Place(b) \in Int
    BY StopSequencerAssumption DEF Nodes, Place
<1>2. QED
    BY <1>1 DEF Leg, Gap

LEMMA NodesFinite ==
    ASSUME NEW group \in SUBSET Requests
    PROVE  IsFiniteSet(Nodes(group)) /\ Cardinality(Nodes(group)) \in Nat
<1>1. IsFiniteSet(group)
    BY StopSequencerAssumption, FS_Subset
<1>2. IsFiniteSet({"pickup"} \cup {"dropoff"})
    BY FS_Singleton, FS_AddElement
<1>3. {"pickup"} \cup {"dropoff"} = {"pickup", "dropoff"}
    OBVIOUS
<1>4. IsFiniteSet(Nodes(group))
    BY <1>1, <1>2, <1>3, FS_Product, Zenon DEF Nodes
<1>5. QED
    BY <1>4, FS_CardinalityType

LEMMA LeftIsNatural ==
    ASSUME NEW group \in SUBSET Requests, NEW visited
    PROVE  Left(group, visited) \in Nat /\ Left(group, visited) <= Cardinality(Nodes(group))
<1>1. Nodes(group) \ visited \in SUBSET Nodes(group)
    OBVIOUS
<1>2. IsFiniteSet(Nodes(group) \ visited) /\ Cardinality(Nodes(group) \ visited) <= Cardinality(Nodes(group))
    BY <1>1, NodesFinite, FS_Subset
<1>3. QED
    BY <1>2, FS_CardinalityType DEF Left

(* One stop more leaves one less. *)
LEMMA LeftFalls ==
    ASSUME NEW group \in SUBSET Requests, NEW visited, NEW n \in Nodes(group) \ visited
    PROVE  Left(group, visited \cup {n}) = Left(group, visited) - 1
<1>1. IsFiniteSet(Nodes(group) \ visited)
    BY NodesFinite, FS_Difference
<1>2. Nodes(group) \ (visited \cup {n}) = (Nodes(group) \ visited) \ {n}
    OBVIOUS
<1>3. n \in Nodes(group) \ visited
    OBVIOUS
<1>4. Cardinality((Nodes(group) \ visited) \ {n}) = Cardinality(Nodes(group) \ visited) - 1
    BY <1>1, <1>3, FS_RemoveElement, Zenon
<1>5. QED
    BY <1>2, <1>4 DEF Left

LEMMA NothingLeft ==
    ASSUME NEW group \in SUBSET Requests, NEW visited \in SUBSET Nodes(group)
    PROVE  Left(group, visited) = 0 <=> visited = Nodes(group)
<1>1. IsFiniteSet(Nodes(group) \ visited)
    BY NodesFinite, FS_Difference
<1>2. Left(group, visited) = 0 <=> Nodes(group) \ visited = {}
    BY <1>1, FS_EmptySet DEF Left
<1>3. Nodes(group) \ visited = {} <=> visited = Nodes(group)
    OBVIOUS
<1>4. QED
    BY <1>2, <1>3

(* While a stop is left there is one to go to: a pickup, or the dropoff of *)
(* someone who has been picked up.                                         *)
LEMMA SomewhereToGo ==
    ASSUME NEW group, NEW visited \in SUBSET Nodes(group), visited # Nodes(group)
    PROVE  Reachable(group, visited) # {}
<1>1. PICK n \in Nodes(group) : n \notin visited
    OBVIOUS
<1>2. CASE n[2] = "pickup"
    BY <1>1, <1>2 DEF Reachable
<1>3. CASE n[2] = "dropoff"
    <2>1. PICK p : p = <<n[1], "pickup">>
        OBVIOUS
    <2>2. p \in Nodes(group) /\ p[2] = "pickup"
        BY <2>1, <1>1 DEF Nodes
    <2>3. CASE p \in visited
        BY <1>1, <2>1, <2>3 DEF Reachable
    <2>4. CASE p \notin visited
        BY <2>2, <2>4 DEF Reachable
    <2>5. QED
        BY <2>3, <2>4
<1>4. QED
    BY <1>1, <1>2, <1>3 DEF Nodes

LEMMA Ahead ==
    ASSUME NEW S, NEW n \in S, NEW rest \in Seq(S)
    PROVE  /\ <<n>> \o rest \in Seq(S)
           /\ Len(<<n>> \o rest) = Len(rest) + 1
           /\ (<<n>> \o rest)[1] = n
           /\ \A i \in 1..Len(rest) : (<<n>> \o rest)[i + 1] = rest[i]
OBVIOUS

(* A way is a reachable stop and a way on from there. *)
LEMMA WayOn ==
    ASSUME NEW group, NEW visited, NEW n \in Reachable(group, visited), NEW rest,
           IsWay(group, visited \cup {n}, rest)
    PROVE  IsWay(group, visited, <<n>> \o rest)
<1>1. n \in Nodes(group) \ visited /\ (n[2] = "dropoff" => <<n[1], "pickup">> \in visited)
    BY DEF Reachable
<1>2. rest \in Seq(Nodes(group))
    BY DEF IsWay
<1>3. PICK len \in Nat : len = Len(rest) /\ DOMAIN rest = 1..len
    BY <1>2
<1>4. PICK way : way = <<n>> \o rest
    OBVIOUS
<1>5. /\ way \in Seq(Nodes(group)) /\ DOMAIN way = 1..(len + 1) /\ way[1] = n
      /\ \A i \in 1..len : way[i + 1] = rest[i]
    BY <1>1, <1>2, <1>3, <1>4, Ahead
<1>6. \A i \in 2..(len + 1) : i - 1 \in 1..len /\ way[i] = rest[i - 1]
    BY <1>5
<1>7. \A i \in 1..len : rest[i] # n /\ rest[i] \in Nodes(group) \ visited
    BY <1>3 DEF IsWay
<1>8. ASSUME NEW i \in DOMAIN way, NEW j \in DOMAIN way, i # j
      PROVE  way[i] # way[j]
    <2>1. CASE i = 1
        BY <1>5, <1>6, <1>7, <1>8, <2>1
    <2>2. CASE j = 1
        BY <1>5, <1>6, <1>7, <1>8, <2>2
    <2>3. CASE i # 1 /\ j # 1
        <3>1. i - 1 \in 1..len /\ j - 1 \in 1..len /\ i - 1 # j - 1
            BY <1>5, <1>8, <2>3
        <3>2. rest[i - 1] # rest[j - 1]
            BY <1>3, <3>1 DEF IsWay
        <3>3. QED
            BY <1>5, <1>6, <2>3, <3>2
    <2>4. QED
        BY <2>1, <2>2, <2>3
<1>9. ASSUME NEW m
      PROVE  m \in Nodes(group) \ visited <=> \E i \in DOMAIN way : way[i] = m
    <2>1. m \in Nodes(group) \ (visited \cup {n}) <=> \E i \in 1..len : rest[i] = m
        BY <1>3 DEF IsWay
    <2>2. (\E i \in DOMAIN way : way[i] = m) => m = n \/ \E i \in 1..len : rest[i] = m
        BY <1>5, <1>6
    <2>3. (m = n \/ \E i \in 1..len : rest[i] = m) => \E i \in DOMAIN way : way[i] = m
        <3>1. \A i \in 1..len : i + 1 \in 1..(len + 1)
            OBVIOUS
        <3>2. 1 \in 1..(len + 1)
            OBVIOUS
        <3>3. QED
            BY <1>5, <3>1, <3>2
    <2>4. QED
        BY <1>1, <2>1, <2>2, <2>3
<1>10. ASSUME NEW i \in DOMAIN way, way[i][2] = "dropoff"
       PROVE  \/ <<way[i][1], "pickup">> \in visited
              \/ \E j \in DOMAIN way : j < i /\ way[j] = <<way[i][1], "pickup">>
    <2>1. CASE i = 1
        BY <1>1, <1>5, <1>10, <2>1
    <2>2. CASE i # 1
        <3>1. PICK k \in 1..len : i = k + 1 /\ way[i] = rest[k]
            BY <1>5, <1>6, <2>2
        <3>2. \/ <<rest[k][1], "pickup">> \in visited \cup {n}
              \/ \E j \in 1..len : j < k /\ rest[j] = <<rest[k][1], "pickup">>
            BY <1>3, <1>10, <3>1 DEF IsWay
        <3>3. CASE <<rest[k][1], "pickup">> \in visited
            BY <3>1, <3>3
        <3>4. CASE <<rest[k][1], "pickup">> = n
            <4>1. 1 \in DOMAIN way /\ 1 < i
                BY <1>5, <3>1
            <4>2. QED
                BY <1>5, <3>1, <3>4, <4>1
        <3>5. CASE \E j \in 1..len : j < k /\ rest[j] = <<rest[k][1], "pickup">>
            <4>1. PICK j \in 1..len : j < k /\ rest[j] = <<rest[k][1], "pickup">>
                BY <3>5
            <4>2. j + 1 \in DOMAIN way /\ j + 1 < i /\ way[j + 1] = rest[j]
                BY <1>5, <3>1, <4>1
            <4>3. QED
                BY <3>1, <4>1, <4>2
        <3>6. QED
            BY <3>2, <3>3, <3>4, <3>5
    <2>3. QED
        BY <2>1, <2>2
<1>11. IsWay(group, visited, way)
    BY <1>5, <1>8, <1>9, <1>10 DEF IsWay
<1>12. QED
    BY <1>4, <1>11

LEMMA WayBack ==
    ASSUME NEW group, NEW visited, NEW way,
           IsWay(group, visited, way), Nodes(group) \ visited # {}
    PROVE  \E n \in Reachable(group, visited), rest \in Seq(Nodes(group)) :
              way = <<n>> \o rest /\ IsWay(group, visited \cup {n}, rest)
<1>1. way \in Seq(Nodes(group)) /\ way # <<>>
    <2>1. PICK i : i \in DOMAIN way
        BY DEF IsWay
    <2>2. QED
        BY <2>1 DEF IsWay
<1>2. PICK len \in Nat : Len(way) = len + 1 /\ DOMAIN way = 1..(len + 1)
    BY <1>1
<1>3. PICK n, rest : n = way[1] /\ rest = Tail(way)
    OBVIOUS
<1>4. /\ rest \in Seq(Nodes(group)) /\ DOMAIN rest = 1..len /\ way = <<n>> \o rest
      /\ \A i \in 1..len : rest[i] = way[i + 1]
      /\ n \in Nodes(group)
    <2>1. rest \in Seq(Nodes(group)) /\ Len(rest) = len
        BY <1>1, <1>2, <1>3
    <2>2. n \in Nodes(group)
        BY <1>1, <1>3
    <2>3. \A i \in 1..len : rest[i] = way[i + 1]
        BY <1>1, <1>2, <1>3
    <2>4. way = <<n>> \o rest
        BY <1>1, <1>3
    <2>5. QED
        BY <2>1, <2>2, <2>3, <2>4
<1>5. 1 \in DOMAIN way /\ n \in Nodes(group) \ visited
    BY <1>2, <1>3 DEF IsWay
<1>6. n \in Reachable(group, visited)
    <2>1. \A j \in DOMAIN way : ~ (j < 1)
        BY <1>2
    <2>2. n[2] = "dropoff" => <<n[1], "pickup">> \in visited
        BY <1>3, <1>5, <2>1 DEF IsWay
    <2>3. QED
        BY <1>5, <2>2 DEF Reachable
<1>7. \A i \in 1..len : i + 1 \in DOMAIN way /\ i + 1 # 1
    BY <1>2
<1>8. ASSUME NEW i \in DOMAIN rest, NEW j \in DOMAIN rest, i # j
      PROVE  rest[i] # rest[j]
    <2>1. i + 1 \in DOMAIN way /\ j + 1 \in DOMAIN way /\ i + 1 # j + 1
        BY <1>2, <1>4, <1>8
    <2>2. way[i + 1] # way[j + 1]
        BY <2>1 DEF IsWay
    <2>3. QED
        BY <1>4, <2>2
<1>9. ASSUME NEW m
      PROVE  m \in Nodes(group) \ (visited \cup {n}) <=> \E i \in DOMAIN rest : rest[i] = m
    <2>1. ASSUME NEW i \in DOMAIN rest, rest[i] = m
          PROVE  m \in Nodes(group) \ (visited \cup {n})
        <3>1. i + 1 \in DOMAIN way /\ way[i + 1] = m /\ i + 1 # 1
            BY <1>2, <1>4, <2>1
        <3>2. m \in Nodes(group) \ visited /\ m # way[1]
            BY <1>5, <3>1 DEF IsWay
        <3>3. QED
            BY <1>3, <3>2
    <2>2. ASSUME m \in Nodes(group) \ (visited \cup {n})
          PROVE  \E i \in DOMAIN rest : rest[i] = m
        <3>1. PICK k \in DOMAIN way : way[k] = m
            BY <2>2 DEF IsWay
        <3>2. k # 1
            BY <1>3, <2>2, <3>1
        <3>3. k - 1 \in DOMAIN rest /\ rest[k - 1] = m
            BY <1>2, <1>4, <3>1, <3>2
        <3>4. QED
            BY <3>3
    <2>3. QED
        BY <2>1, <2>2
<1>10. ASSUME NEW i \in DOMAIN rest, rest[i][2] = "dropoff"
       PROVE  \/ <<rest[i][1], "pickup">> \in visited \cup {n}
              \/ \E j \in DOMAIN rest : j < i /\ rest[j] = <<rest[i][1], "pickup">>
    <2>1. i + 1 \in DOMAIN way /\ way[i + 1] = rest[i]
        BY <1>2, <1>4
    <2>2. \/ <<way[i + 1][1], "pickup">> \in visited
          \/ \E j \in DOMAIN way : j < i + 1 /\ way[j] = <<way[i + 1][1], "pickup">>
        BY <1>10, <2>1 DEF IsWay
    <2>3. CASE <<way[i + 1][1], "pickup">> \in visited
        BY <2>1, <2>3
    <2>4. CASE \E j \in DOMAIN way : j < i + 1 /\ way[j] = <<way[i + 1][1], "pickup">>
        <3>1. PICK j \in DOMAIN way : j < i + 1 /\ way[j] = <<way[i + 1][1], "pickup">>
            BY <2>4
        <3>2. CASE j = 1
            BY <1>3, <2>1, <3>1, <3>2
        <3>3. CASE j # 1
            <4>1. j - 1 \in DOMAIN rest /\ j - 1 < i /\ rest[j - 1] = way[j]
                BY <1>2, <1>4, <3>1, <3>3
            <4>2. QED
                BY <2>1, <3>1, <4>1
        <3>4. QED
            BY <3>2, <3>3
    <2>5. QED
        BY <2>2, <2>3, <2>4
<1>11. IsWay(group, visited \cup {n}, rest)
    BY <1>4, <1>8, <1>9, <1>10 DEF IsWay
<1>12. QED
    BY <1>4, <1>6, <1>11

-----------------------------------------------------------------------------
(* What Length recurs on: the legs still to drive from each stop on. *)
LegsFrom(stops, f) ==
    f = [i \in DOMAIN stops |->
           IF i = Len(stops) THEN 0 ELSE Leg(stops[i], stops[i + 1]) + f[i + 1]]

(* The legs of a first stop and a way on are the first leg and the rest. *)
LEMMA OneLegMore ==
    ASSUME NEW group \in SUBSET Requests, NEW a \in Nodes(group), NEW rest \in Seq(Nodes(group)),
           NEW f, LegsFrom(rest, f), NEW g,
           g = [i \in 1..(Len(rest) + 1) |->
                  IF i # 1 THEN f[i - 1]
                  ELSE IF rest = <<>> THEN 0 ELSE Leg(a, rest[1]) + f[1]]
    PROVE  LegsFrom(<<a>> \o rest, g)
<1>1. PICK len \in Nat : len = Len(rest)
    OBVIOUS
<1> PICK stops : stops = <<a>> \o rest
    OBVIOUS
<1>2. /\ stops \in Seq(Nodes(group)) /\ DOMAIN stops = 1..(len + 1) /\ Len(stops) = len + 1
      /\ stops[1] = a /\ \A i \in 1..len : stops[i + 1] = rest[i]
    BY <1>1, Ahead
<1>3. ASSUME NEW i \in 1..(len + 1)
      PROVE  g[i] = IF i = len + 1 THEN 0 ELSE Leg(stops[i], stops[i + 1]) + g[i + 1]
    <2>1. CASE i = 1 /\ len = 0
        <3>1. rest = <<>>
            <4>1. Len(rest) = 0
                BY <1>1, <2>1
            <4>2. QED
                BY <4>1, EmptySeq
        <3>2. 1 \in 1..(Len(rest) + 1)
            BY <1>1
        <3>3. g[1] = IF 1 # 1 THEN f[1 - 1]
                     ELSE IF rest = <<>> THEN 0 ELSE Leg(a, rest[1]) + f[1]
            BY <3>2, Zenon
        <3>4. QED
            BY <2>1, <3>1, <3>3
    <2>2. CASE i = 1 /\ len # 0
        <3>1. rest # <<>> /\ 1 \in 1..len /\ 2 \in 1..(len + 1) /\ 1 \in 1..(len + 1)
            BY <1>1, <2>2
        <3>2. g[1] = Leg(a, rest[1]) + f[1]
            BY <1>1, <3>1
        <3>3. g[2] = f[2 - 1] /\ 2 - 1 = 1
            BY <1>1, <3>1
        <3>4. stops[1 + 1] = rest[1] /\ 1 + 1 = 2 /\ 1 # len + 1
            BY <1>2, <3>1, <2>2
        <3>5. QED
            BY <1>2, <2>2, <3>2, <3>3, <3>4
    <2>3. CASE i # 1
        <3>1. PICK k \in 1..len : i = k + 1 /\ i - 1 = k
            BY <2>3
        <3>2. g[i] = f[k]
            BY <1>1, <2>3, <3>1
        <3>3. f[k] = IF k = len THEN 0 ELSE Leg(rest[k], rest[k + 1]) + f[k + 1]
            <4>1. k \in DOMAIN rest
                BY <1>1
            <4>2. QED
                BY <1>1, <4>1, Zenon DEF LegsFrom
        <3>4. CASE k = len
            BY <3>1, <3>2, <3>3, <3>4
        <3>5. CASE k # len
            <4>1. k + 1 \in 1..len /\ i + 1 \in 1..(len + 1) /\ i + 1 # 1 /\ (i + 1) - 1 = k + 1
                BY <3>1, <3>5
            <4>2. g[i + 1] = f[k + 1]
                BY <1>1, <4>1
            <4>3. stops[i] = rest[k] /\ stops[i + 1] = rest[k + 1]
                BY <1>2, <3>1, <4>1
            <4>4. i # len + 1
                BY <3>1, <3>5
            <4>5. QED
                BY <3>2, <3>3, <3>5, <4>2, <4>3, <4>4
        <3>6. QED
            BY <3>4, <3>5
    <2>4. QED
        BY <2>1, <2>2, <2>3
<1>4. g = [i \in DOMAIN stops |-> g[i]]
    BY <1>1, <1>2
<1>5. LegsFrom(stops, g)
    BY <1>2, <1>3, <1>4 DEF LegsFrom
<1>6. QED
    BY <1>1, <1>5

LEMMA LegsExist ==
    ASSUME NEW group \in SUBSET Requests
    PROVE  \A len \in Nat : \A stops \in Seq(Nodes(group)) :
              Len(stops) = len => \E f : LegsFrom(stops, f)
<1> DEFINE S == {len \in Nat : \A stops \in Seq(Nodes(group)) :
                    Len(stops) = len => \E f : LegsFrom(stops, f)}
<1>1. 0 \in S
    <2>1. ASSUME NEW stops \in Seq(Nodes(group)), Len(stops) = 0
          PROVE  \E f : LegsFrom(stops, f)
        <3>1. DOMAIN stops = {}
            BY <2>1
        <3>2. PICK f : f = [i \in {} |-> 0]
            OBVIOUS
        <3>3. LegsFrom(stops, f)
            BY <3>1, <3>2 DEF LegsFrom
        <3>4. QED
            BY <3>3
    <2>2. QED
        BY <2>1
<1>2. ASSUME NEW len \in Nat, len \in S  PROVE len + 1 \in S
    <2>1. ASSUME NEW stops \in Seq(Nodes(group)), Len(stops) = len + 1
          PROVE  \E f : LegsFrom(stops, f)
        <3>1. PICK a, rest : a = stops[1] /\ rest = Tail(stops)
            OBVIOUS
        <3>2. a \in Nodes(group) /\ rest \in Seq(Nodes(group)) /\ Len(rest) = len
            BY <2>1, <3>1
        <3>3. stops = <<a>> \o rest
            BY <2>1, <3>1
        <3>4. PICK f : LegsFrom(rest, f)
            BY <1>2, <3>2
        <3>5. PICK g : g = [i \in 1..(Len(rest) + 1) |->
                              IF i # 1 THEN f[i - 1]
                              ELSE IF rest = <<>> THEN 0 ELSE Leg(a, rest[1]) + f[1]]
            OBVIOUS
        <3>6. LegsFrom(<<a>> \o rest, g)
            BY <3>2, <3>4, <3>5, OneLegMore
        <3>7. QED
            BY <3>3, <3>6
    <2>2. QED
        BY <2>1
<1> HIDE DEF S
<1>3. \A len \in Nat : len \in S
    BY <1>1, <1>2, SetInduction
<1>4. QED
    BY <1>3 DEF S

(* Two such functions of the same stops agree, from the last stop back. *)
LEMMA LegsUnique ==
    ASSUME NEW group \in SUBSET Requests, NEW stops \in Seq(Nodes(group)),
           NEW f, LegsFrom(stops, f), NEW g, LegsFrom(stops, g)
    PROVE  \A i \in DOMAIN stops : f[i] = g[i] /\ f[i] \in Nat
<1>1. PICK len \in Nat : len = Len(stops) /\ DOMAIN stops = 1..len
    OBVIOUS
<1> DEFINE S == {k \in Nat : \A i \in 1..len : i + k = len => f[i] = g[i] /\ f[i] \in Nat}
<1>2. \A i \in 1..len : /\ f[i] = IF i = len THEN 0 ELSE Leg(stops[i], stops[i + 1]) + f[i + 1]
                        /\ g[i] = IF i = len THEN 0 ELSE Leg(stops[i], stops[i + 1]) + g[i + 1]
    BY <1>1, Zenon DEF LegsFrom
<1>3. 0 \in S
    BY <1>2
<1>4. ASSUME NEW k \in Nat, k \in S  PROVE k + 1 \in S
    <2>1. ASSUME NEW i \in 1..len, i + (k + 1) = len
          PROVE  f[i] = g[i] /\ f[i] \in Nat
        <3>1. i + 1 \in 1..len /\ (i + 1) + k = len /\ i # len
            BY <1>4, <2>1
        <3>2. f[i + 1] = g[i + 1] /\ f[i + 1] \in Nat
            BY <1>4, <3>1
        <3>3. stops[i] \in Nodes(group) /\ stops[i + 1] \in Nodes(group)
            BY <1>1, <3>1
        <3>4. Leg(stops[i], stops[i + 1]) \in Nat
            BY <3>3, LegIsLength
        <3>5. QED
            BY <1>2, <3>1, <3>2, <3>4
    <2>2. QED
        BY <2>1
<1> HIDE DEF S
<1>5. \A k \in Nat : k \in S
    BY <1>3, <1>4, SetInduction
<1>6. ASSUME NEW i \in 1..len
      PROVE  f[i] = g[i] /\ f[i] \in Nat
    <2>1. len - i \in Nat /\ i + (len - i) = len
        OBVIOUS
    <2>2. len - i \in S
        BY <1>5, <2>1
    <2>3. QED
        BY <2>1, <2>2 DEF S
<1>7. QED
    BY <1>1, <1>6

LEMMA LengthLegs ==
    ASSUME NEW group \in SUBSET Requests, NEW stops \in Seq(Nodes(group))
    PROVE  \E f : LegsFrom(stops, f) /\ Length(stops) = f[1]
<1>1. Len(stops) \in Nat
    OBVIOUS
<1>2. \E f : LegsFrom(stops, f)
    BY <1>1, LegsExist
<1>3. PICK f : f = CHOOSE g : LegsFrom(stops, g)
    OBVIOUS
<1>4. LegsFrom(stops, f)
    BY <1>2, <1>3, Zenon
<1>5. Length(stops) = f[1]
    BY <1>3, Zenon DEF Length, LegsFrom
<1>6. QED
    BY <1>4, <1>5

(* The length of one stop, and of a stop and the stops after it. *)
LEMMA LengthOfOne ==
    ASSUME NEW group \in SUBSET Requests, NEW a \in Nodes(group)
    PROVE  Length(<<a>>) = 0
<1>1. PICK stops : stops = <<a>>
    OBVIOUS
<1>2. stops \in Seq(Nodes(group)) /\ Len(stops) = 1 /\ DOMAIN stops = 1..1 /\ 1 \in 1..1
    BY <1>1
<1>3. PICK f : LegsFrom(stops, f) /\ Length(stops) = f[1]
    BY <1>2, LengthLegs
<1>4. f[1] = IF 1 = Len(stops) THEN 0 ELSE Leg(stops[1], stops[1 + 1]) + f[1 + 1]
    BY <1>2, <1>3, Zenon DEF LegsFrom
<1>5. QED
    BY <1>1, <1>2, <1>3, <1>4

LEMMA LengthOn ==
    ASSUME NEW group \in SUBSET Requests, NEW a \in Nodes(group), NEW b \in Nodes(group),
           NEW rest \in Seq(Nodes(group))
    PROVE  /\ Length(<<b>> \o rest) \in Nat
           /\ Length(<<a>> \o (<<b>> \o rest)) = Leg(a, b) + Length(<<b>> \o rest)
<1>1. PICK onward : onward = <<b>> \o rest
    OBVIOUS
<1> PICK len \in Nat : len = Len(rest)
    OBVIOUS
<1>2. /\ onward \in Seq(Nodes(group)) /\ Len(onward) = len + 1 /\ onward[1] = b
      /\ onward # <<>> /\ 1 \in DOMAIN onward
    BY <1>1, Ahead
<1>3. PICK f : LegsFrom(onward, f) /\ Length(onward) = f[1]
    BY <1>2, LengthLegs
<1>4. PICK g : g = [i \in 1..(Len(onward) + 1) |->
                      IF i # 1 THEN f[i - 1]
                      ELSE IF onward = <<>> THEN 0 ELSE Leg(a, onward[1]) + f[1]]
    OBVIOUS
<1>5. LegsFrom(<<a>> \o onward, g)
    BY <1>2, <1>3, <1>4, OneLegMore
<1>6. PICK stops : stops = <<a>> \o onward
    OBVIOUS
<1>7. stops \in Seq(Nodes(group)) /\ 1 \in DOMAIN stops
    BY <1>2, <1>6, Ahead
<1>8. PICK h : LegsFrom(stops, h) /\ Length(stops) = h[1]
    BY <1>7, LengthLegs
<1>9. LegsFrom(stops, g)
    BY <1>5, <1>6
<1>10. h[1] = g[1]
    BY <1>7, <1>8, <1>9, LegsUnique
<1>11. f[1] \in Nat
    BY <1>2, <1>3, LegsUnique
<1>12. 1 \in 1..(Len(onward) + 1)
    BY <1>2
<1>13. g[1] = Leg(a, b) + f[1]
    BY <1>2, <1>4, <1>12
<1>14. QED
    BY <1>1, <1>3, <1>6, <1>8, <1>10, <1>11, <1>13

-----------------------------------------------------------------------------
LEMMA CheapestIsLeast ==
    ASSUME NEW ways, ways # {}, \A w \in ways : w.cost \in Nat
    PROVE  Cheapest(ways) \in ways /\ \A v \in ways : Cheapest(ways).cost <= v.cost
<1>1. PICK T : T = {w.cost : w \in ways}
    OBVIOUS
<1>2. PICK x \in T : \A y \in T : x <= y
    <2>1. T \subseteq Nat /\ T # {}
        BY <1>1
    <2>2. QED
        BY <2>1, LeastNatural
<1>3. PICK w \in ways : w.cost = x
    BY <1>1
<1>4. \A v \in ways : w.cost <= v.cost
    BY <1>1, <1>2, <1>3
<1>5. \E u \in ways : \A v \in ways : u.cost <= v.cost
    BY <1>4
<1>6. QED
    BY <1>5, Zenon DEF Cheapest

LEMMA NearestIsOpen ==
    ASSUME NEW group \in SUBSET Requests, NEW current \in Nodes(group),
           NEW open \in SUBSET Nodes(group), open # {}
    PROVE  Nearest(current, open) \in open
<1>1. \A n \in open : Leg(current, n) \in Nat
    BY LegIsLength
<1>2. PICK T : T = {Leg(current, n) : n \in open}
    OBVIOUS
<1>3. PICK x \in T : \A y \in T : x <= y
    <2>1. T \subseteq Nat /\ T # {}
        BY <1>1, <1>2
    <2>2. QED
        BY <2>1, LeastNatural
<1>4. PICK n \in open : Leg(current, n) = x
    BY <1>2
<1>5. \A m \in open : Leg(current, n) <= Leg(current, m)
    BY <1>2, <1>3, <1>4
<1>6. \E k \in open : \A m \in open : Leg(current, k) <= Leg(current, m)
    BY <1>5
<1>7. QED
    BY <1>6, Zenon DEF Nearest

-----------------------------------------------------------------------------
(* The ways on from a stop, and the one a solver takes, by what it makes   *)
(* of the stops after it: both solvers recur on the same function.         *)
WaysOn(group, f, visited, current) ==
    {Onward(current, n, f[visited \cup {n}][n]) : n \in Reachable(group, visited)}

Greedily(group, f, visited, current) ==
    LET n == Nearest(current, Reachable(group, visited))
    IN  Onward(current, n, f[visited \cup {n}][n])

Solution(group, kind, f, visited, current) ==
    IF visited = Nodes(group) THEN Arrived
    ELSE IF kind = "exact" THEN Cheapest(WaysOn(group, f, visited, current))
    ELSE Greedily(group, f, visited, current)

Solves(group, kind, f) ==
    f = [visited \in SUBSET Nodes(group) |->
           [current \in Nodes(group) |-> Solution(group, kind, f, visited, current)]]

LEMMA ReachableIsLeft ==
    ASSUME NEW group \in SUBSET Requests, NEW visited \in SUBSET Nodes(group),
           NEW n \in Reachable(group, visited)
    PROVE  /\ n \in Nodes(group) /\ n \notin visited
           /\ visited \cup {n} \in SUBSET Nodes(group)
           /\ Left(group, visited \cup {n}) = Left(group, visited) - 1
<1>1. n \in Nodes(group) \ visited
    BY DEF Reachable
<1>2. QED
    BY <1>1, LeftFalls

(* A solution depends on the stops after it only. *)
LEMMA SolutionLooksAhead ==
    ASSUME NEW group \in SUBSET Requests, NEW visited \in SUBSET Nodes(group),
           NEW current \in Nodes(group), NEW kind, NEW f, NEW g,
           \A n \in Reachable(group, visited) : f[visited \cup {n}][n] = g[visited \cup {n}][n]
    PROVE  Solution(group, kind, f, visited, current) = Solution(group, kind, g, visited, current)
<1>1. CASE visited = Nodes(group)
    BY <1>1 DEF Solution
<1>2. CASE visited # Nodes(group) /\ kind = "exact"
    <2>1. WaysOn(group, f, visited, current) = WaysOn(group, g, visited, current)
        BY DEF WaysOn
    <2>2. QED
        BY <1>2, <2>1 DEF Solution
<1>3. CASE visited # Nodes(group) /\ kind # "exact"
    <2>1. PICK n : n = Nearest(current, Reachable(group, visited))
        OBVIOUS
    <2>2. Reachable(group, visited) \in SUBSET Nodes(group) /\ Reachable(group, visited) # {}
        BY <1>3, SomewhereToGo DEF Reachable
    <2>3. n \in Reachable(group, visited)
        BY <2>1, <2>2, NearestIsOpen
    <2>4. f[visited \cup {n}][n] = g[visited \cup {n}][n]
        BY <2>3
    <2>5. Greedily(group, f, visited, current) = Greedily(group, g, visited, current)
        BY <2>1, <2>4 DEF Greedily
    <2>6. QED
        BY <1>3, <2>5 DEF Solution
<1>4. QED
    BY <1>1, <1>2, <1>3

(* The function a solver recurs on exists: what it is where k stops are    *)
(* left follows from what it is where fewer are.                           *)
LEMMA SolverExists ==
    ASSUME NEW group \in SUBSET Requests, NEW kind
    PROVE  \E f : Solves(group, kind, f)
<1> DEFINE Body(f, v) == [current \in Nodes(group) |-> Solution(group, kind, f, v, current)]
           SolvedTo(k, f) ==
              /\ f = [v \in SUBSET Nodes(group) |-> f[v]]
              /\ \A v \in SUBSET Nodes(group) : Left(group, v) <= k => f[v] = Body(f, v)
           S == {k \in Nat : \E f : SolvedTo(k, f)}
<1>1. 0 \in S
    <2>1. PICK f : f = [v \in SUBSET Nodes(group) |-> [current \in Nodes(group) |-> Arrived]]
        OBVIOUS
    <2>2. ASSUME NEW v \in SUBSET Nodes(group), Left(group, v) <= 0
          PROVE  f[v] = Body(f, v)
        <3>1. v = Nodes(group)
            BY <2>2, LeftIsNatural, NothingLeft
        <3>2. \A current \in Nodes(group) : Solution(group, kind, f, v, current) = Arrived
            BY <3>1 DEF Solution
        <3>3. Body(f, v) = [current \in Nodes(group) |-> Arrived]
            BY <3>2
        <3>4. QED
            BY <2>1, <3>3
    <2>3. f = [v \in SUBSET Nodes(group) |-> f[v]]
        BY <2>1
    <2>4. QED
        BY <2>2, <2>3
<1>2. ASSUME NEW k \in Nat, k \in S  PROVE k + 1 \in S
    <2>1. PICK f : SolvedTo(k, f)
        BY <1>2
    <2>2. PICK g : g = [v \in SUBSET Nodes(group) |-> Body(f, v)]
        OBVIOUS
    <2>3. ASSUME NEW v \in SUBSET Nodes(group), Left(group, v) <= k + 1
          PROVE  g[v] = Body(g, v)
        <3>1. ASSUME NEW n \in Reachable(group, v)
              PROVE  f[v \cup {n}][n] = g[v \cup {n}][n]
            <4>1. /\ v \cup {n} \in SUBSET Nodes(group)
                  /\ Left(group, v \cup {n}) = Left(group, v) - 1
                BY <3>1, ReachableIsLeft
            <4>2. Left(group, v) \in Nat
                BY LeftIsNatural
            <4>3. Left(group, v \cup {n}) <= k
                BY <2>3, <4>1, <4>2
            <4>4. f[v \cup {n}] = Body(f, v \cup {n})
                BY <2>1, <4>1, <4>3
            <4>5. g[v \cup {n}] = Body(f, v \cup {n})
                BY <2>2, <4>1
            <4>6. QED
                BY <4>4, <4>5
        <3>2. ASSUME NEW current \in Nodes(group)
              PROVE  Solution(group, kind, f, v, current) = Solution(group, kind, g, v, current)
            <4>1. \A n \in Reachable(group, v) : f[v \cup {n}][n] = g[v \cup {n}][n]
                BY <3>1
            <4>2. QED
                BY <4>1, SolutionLooksAhead
        <3>3. Body(f, v) = Body(g, v)
            BY <3>2
        <3>4. QED
            BY <2>2, <3>3
    <2>4. g = [v \in SUBSET Nodes(group) |-> g[v]]
        BY <2>2
    <2>5. SolvedTo(k + 1, g)
        BY <2>3, <2>4
    <2> HIDE DEF SolvedTo
    <2>6. k + 1 \in Nat /\ \E h : SolvedTo(k + 1, h)
        BY <2>5
    <2>7. QED
        BY <2>6
<1> HIDE DEF S
<1>3. \A k \in Nat : k \in S
    BY <1>1, <1>2, SetInduction
<1>4. Cardinality(Nodes(group)) \in S
    BY <1>3, NodesFinite
<1>5. PICK f : SolvedTo(Cardinality(Nodes(group)), f)
    BY <1>4 DEF S
<1>6. \A v \in SUBSET Nodes(group) : f[v] = Body(f, v)
    BY <1>5, LeftIsNatural
<1>7. Solves(group, kind, f)
    BY <1>5, <1>6 DEF Solves
<1>8. QED
    BY <1>7

-----------------------------------------------------------------------------
(* What a solver owes from a stop on: a way over all the stops left, what  *)
(* it costs, and if it is the exact one that no way costs less.            *)
Good(group, kind, visited, current, solved) ==
    /\ solved.cost \in Nat /\ solved.cost = Length(<<current>> \o solved.path)
    /\ IsWay(group, visited, solved.path)
    /\ kind = "exact" =>
          \A way : IsWay(group, visited, way) => solved.cost <= Length(<<current>> \o way)

LEMMA ArrivedIsGood ==
    ASSUME NEW group \in SUBSET Requests, NEW kind, NEW current \in Nodes(group)
    PROVE  Good(group, kind, Nodes(group), current, Arrived)
<1>1. Arrived.cost = 0 /\ Arrived.path = <<>>
    BY DEF Arrived
<1>2. <<current>> \o <<>> = <<current>>
    OBVIOUS
<1>3. Length(<<current>> \o <<>>) = 0
    BY <1>2, LengthOfOne
<1>4. IsWay(group, Nodes(group), <<>>)
    BY DEF IsWay
<1>5. ASSUME NEW way, IsWay(group, Nodes(group), way)
      PROVE  0 <= Length(<<current>> \o way)
    <2>1. way \in Seq(Nodes(group)) /\ ~ \E i \in DOMAIN way : TRUE
        BY <1>5 DEF IsWay
    <2>2. way = <<>>
        BY <2>1
    <2>3. QED
        BY <1>3, <2>2
<1>6. QED
    BY <1>1, <1>3, <1>4, <1>5 DEF Good

LEMMA OnwardIsWay ==
    ASSUME NEW group \in SUBSET Requests, NEW kind, NEW visited \in SUBSET Nodes(group),
           NEW current \in Nodes(group), NEW n \in Reachable(group, visited), NEW solved,
           Good(group, kind, visited \cup {n}, n, solved)
    PROVE  /\ Onward(current, n, solved).cost \in Nat
           /\ Onward(current, n, solved).cost = Leg(current, n) + solved.cost
           /\ Onward(current, n, solved).cost
                  = Length(<<current>> \o Onward(current, n, solved).path)
           /\ IsWay(group, visited, Onward(current, n, solved).path)
<1>1. PICK next : next = Onward(current, n, solved)
    OBVIOUS
<1> next.cost = Leg(current, n) + solved.cost /\ next.path = <<n>> \o solved.path
    BY <1>1 DEF Onward
<1>2. n \in Nodes(group)
    BY DEF Reachable
<1>3. Leg(current, n) \in Nat
    BY <1>2, LegIsLength
<1>4. IsWay(group, visited \cup {n}, solved.path)
    BY DEF Good
<1>5. solved.path \in Seq(Nodes(group))
    BY <1>4 DEF IsWay
<1>6. solved.cost \in Nat /\ solved.cost = Length(<<n>> \o solved.path)
    BY DEF Good
<1>7. Length(<<current>> \o (<<n>> \o solved.path)) = Leg(current, n) + Length(<<n>> \o solved.path)
    BY <1>2, <1>5, LengthOn
<1>8. IsWay(group, visited, <<n>> \o solved.path)
    BY <1>4, WayOn
<1>9. next.cost \in Nat
    BY <1>3, <1>6
<1>10. next.cost = Length(<<current>> \o next.path)
    BY <1>6, <1>7
<1>11. IsWay(group, visited, next.path)
    BY <1>8
<1>12. QED
    BY <1>1, <1>9, <1>10, <1>11

(* A solution is good where all the solutions after it are. *)
LEMMA SolutionIsGood ==
    ASSUME NEW group \in SUBSET Requests, NEW kind, NEW visited \in SUBSET Nodes(group),
           visited # Nodes(group), NEW current \in Nodes(group), NEW f,
           \A n \in Reachable(group, visited) :
              Good(group, kind, visited \cup {n}, n, f[visited \cup {n}][n])
    PROVE  Good(group, kind, visited, current, Solution(group, kind, f, visited, current))
<1>1. Reachable(group, visited) \in SUBSET Nodes(group) /\ Reachable(group, visited) # {}
    BY SomewhereToGo DEF Reachable
<1>2. ASSUME NEW n \in Reachable(group, visited), NEW w, w = Onward(current, n, f[visited \cup {n}][n])
      PROVE  /\ w.cost \in Nat
             /\ w.cost = Leg(current, n) + f[visited \cup {n}][n].cost
             /\ w.cost = Length(<<current>> \o w.path)
             /\ IsWay(group, visited, w.path)
    BY <1>2, OnwardIsWay
<1>3. CASE kind = "exact"
    <2>1. PICK ways : ways = WaysOn(group, f, visited, current)
        OBVIOUS
    <2>2. ways # {}
        BY <1>1, <2>1 DEF WaysOn
    <2>3. \A w \in ways : \E n \in Reachable(group, visited) :
              w = Onward(current, n, f[visited \cup {n}][n])
        BY <2>1 DEF WaysOn
    <2>4. \A w \in ways : w.cost \in Nat
        BY <1>2, <2>3
    <2>5. PICK best : best = Cheapest(ways)
        OBVIOUS
    <2>6. best \in ways /\ \A w \in ways : best.cost <= w.cost
        BY <2>2, <2>4, <2>5, CheapestIsLeast
    <2>7. PICK n \in Reachable(group, visited) : best = Onward(current, n, f[visited \cup {n}][n])
        BY <2>3, <2>6
    <2>8. /\ best.cost \in Nat /\ best.cost = Length(<<current>> \o best.path)
          /\ IsWay(group, visited, best.path)
        BY <1>2, <2>7
    <2>9. ASSUME NEW way, IsWay(group, visited, way)
          PROVE  best.cost <= Length(<<current>> \o way)
        <3>1. Nodes(group) \ visited # {}
            BY <1>1 DEF Reachable
        <3>2. PICK m \in Reachable(group, visited), rest \in Seq(Nodes(group)) :
                  way = <<m>> \o rest /\ IsWay(group, visited \cup {m}, rest)
            BY <2>9, <3>1, WayBack
        <3>3. PICK other : other = Onward(current, m, f[visited \cup {m}][m])
            OBVIOUS
        <3>4. other \in ways
            BY <2>1, <3>3 DEF WaysOn
        <3>5. PICK ahead : ahead = f[visited \cup {m}][m]
            OBVIOUS
        <3>6. Good(group, kind, visited \cup {m}, m, ahead)
            BY <3>5
        <3>7. ahead.cost \in Nat /\ ahead.cost <= Length(<<m>> \o rest)
            BY <1>3, <3>2, <3>6 DEF Good
        <3>8. other.cost \in Nat /\ other.cost = Leg(current, m) + ahead.cost
            BY <1>2, <3>3, <3>5
        <3>9. m \in Nodes(group)
            BY <1>1
        <3>10. Leg(current, m) \in Nat
            BY <3>9, LegIsLength
        <3>11. /\ Length(<<m>> \o rest) \in Nat
               /\ Length(<<current>> \o (<<m>> \o rest)) = Leg(current, m) + Length(<<m>> \o rest)
            BY <3>9, LengthOn
        <3>12. best.cost <= other.cost
            BY <2>6, <3>4
        <3>13. QED
            BY <2>8, <3>2, <3>7, <3>8, <3>10, <3>11, <3>12
    <2>10. Solution(group, kind, f, visited, current) = best
        BY <1>3, <2>1, <2>5 DEF Solution
    <2>11. QED
        BY <2>8, <2>9, <2>10 DEF Good
<1>4. CASE kind # "exact"
    <2>1. PICK n : n = Nearest(current, Reachable(group, visited))
        OBVIOUS
    <2>2. n \in Reachable(group, visited)
        BY <1>1, <2>1, NearestIsOpen
    <2>3. PICK next : next = Onward(current, n, f[visited \cup {n}][n])
        OBVIOUS
    <2>4. Solution(group, kind, f, visited, current) = next
        BY <1>4, <2>1, <2>3 DEF Solution, Greedily
    <2>5. /\ next.cost \in Nat /\ next.cost = Length(<<current>> \o next.path)
          /\ IsWay(group, visited, next.path)
        BY <1>2, <2>2, <2>3
    <2>6. QED
        BY <1>4, <2>4, <2>5 DEF Good
<1>5. QED
    BY <1>3, <1>4

(* From every stop, whatever was visited, by the number of stops left. *)
LEMMA SolverIsGood ==
    ASSUME NEW group \in SUBSET Requests, NEW kind, NEW f, Solves(group, kind, f)
    PROVE  \A visited \in SUBSET Nodes(group), current \in Nodes(group) :
              Good(group, kind, visited, current, f[visited][current])
<1> DEFINE GoodFrom(v) == \A current \in Nodes(group) : Good(group, kind, v, current, f[v][current])
           S == {k \in Nat : \A v \in SUBSET Nodes(group) : Left(group, v) = k => GoodFrom(v)}
<1>1. ASSUME NEW v \in SUBSET Nodes(group), NEW current \in Nodes(group)
      PROVE  f[v][current] = Solution(group, kind, f, v, current)
    <2>1. f[v] = [c \in Nodes(group) |-> Solution(group, kind, f, v, c)]
        BY Zenon DEF Solves
    <2>2. QED
        BY <2>1
<1>2. 0 \in S
    <2>1. ASSUME NEW v \in SUBSET Nodes(group), Left(group, v) = 0, NEW current \in Nodes(group)
          PROVE  Good(group, kind, v, current, f[v][current])
        <3>1. v = Nodes(group)
            BY <2>1, NothingLeft
        <3>2. f[v][current] = Arrived
            BY <1>1, <3>1 DEF Solution
        <3>3. QED
            BY <3>1, <3>2, ArrivedIsGood
    <2>2. QED
        BY <2>1
<1>3. ASSUME NEW k \in Nat, k \in S  PROVE k + 1 \in S
    <2>1. ASSUME NEW v \in SUBSET Nodes(group), Left(group, v) = k + 1, NEW current \in Nodes(group)
          PROVE  Good(group, kind, v, current, f[v][current])
        <3>1. v # Nodes(group)
            BY <2>1, NothingLeft
        <3>2. ASSUME NEW n \in Reachable(group, v)
              PROVE  Good(group, kind, v \cup {n}, n, f[v \cup {n}][n])
            <4>1. /\ n \in Nodes(group) /\ v \cup {n} \in SUBSET Nodes(group)
                  /\ Left(group, v \cup {n}) = Left(group, v) - 1
                BY <3>2, ReachableIsLeft
            <4>2. Left(group, v \cup {n}) = k
                BY <2>1, <4>1
            <4>3. QED
                BY <1>3, <4>1, <4>2
        <3>3. Good(group, kind, v, current, Solution(group, kind, f, v, current))
            BY <3>1, <3>2, SolutionIsGood
        <3>4. QED
            BY <1>1, <3>3
    <2>2. QED
        BY <2>1
<1> HIDE DEF S
<1>4. \A k \in Nat : k \in S
    BY <1>2, <1>3, SetInduction
<1>5. ASSUME NEW v \in SUBSET Nodes(group)
      PROVE  GoodFrom(v)
    <2>1. Left(group, v) \in S
        BY <1>4, LeftIsNatural
    <2>2. QED
        BY <2>1 DEF S
<1>6. QED
    BY <1>5

-----------------------------------------------------------------------------
(* A way over all the stops, from the anchor's pickup on, serves the group. *)
LEMMA WayServes ==
    ASSUME NEW group \in SUBSET Requests, NEW anchor \in group, NEW stops,
           IsWay(group, {}, stops), stops[1] = <<anchor, "pickup">>
    PROVE  Serves(stops, anchor, group)
<1>1. PICK len \in Nat : len = Len(stops) /\ DOMAIN stops = 1..len /\ stops \in [1..len -> Nodes(group)]
    BY DEF IsWay
<1>2. \A n : n \in Nodes(group) <=> \E i \in 1..len : stops[i] = n
    BY <1>1 DEF IsWay
<1>3. ToSet(stops) = Nodes(group)
    BY <1>1, <1>2 DEF ToSet
<1>4. len = Cardinality(Nodes(group))
    <2>1. \A i, j \in 1..len : stops[i] = stops[j] => i = j
        BY <1>1 DEF IsWay
    <2>2. stops \in Injection(1..len, Nodes(group))
        BY <1>1, <2>1 DEF Injection, IsInjective
    <2>3. stops \in Surjection(1..len, Nodes(group))
        BY <1>1, <1>2 DEF Surjection
    <2>4. ExistsBijection(1..len, Nodes(group))
        BY <2>2, <2>3 DEF Bijection, ExistsBijection
    <2>5. IsFiniteSet(1..len) /\ Cardinality(1..len) = len
        BY FS_Interval
    <2>6. QED
        BY <2>4, <2>5, FS_Bijection
<1>5. ASSUME NEW q \in group
      PROVE  Before(stops, <<q, "pickup">>, <<q, "dropoff">>)
    <2>1. PICK n : n = <<q, "dropoff">>
        OBVIOUS
    <2>2. n \in Nodes(group) /\ n[1] = q /\ n[2] = "dropoff"
        BY <2>1 DEF Nodes
    <2>3. PICK i \in 1..len : stops[i] = n
        BY <1>2, <2>2
    <2>4. PICK j \in 1..len : j < i /\ stops[j] = <<stops[i][1], "pickup">>
        BY <1>1, <2>2, <2>3 DEF IsWay
    <2>5. stops[j] = <<q, "pickup">> /\ stops[i] = <<q, "dropoff">>
        BY <2>1, <2>2, <2>3, <2>4
    <2>6. QED
        BY <1>1, <2>4, <2>5 DEF Before
<1>6. QED
    BY <1>1, <1>3, <1>4, <1>5 DEF Serves

(* Whatever order serves the group is such a way. *)
LEMMA ServesIsWay ==
    ASSUME NEW group \in SUBSET Requests, NEW anchor \in group,
           NEW stops \in SetToSeqs(Nodes(group)), Serves(stops, anchor, group)
    PROVE  IsWay(group, {}, stops) /\ stops[1] = <<anchor, "pickup">>
<1>1. PICK len \in Nat : len = Cardinality(Nodes(group))
    BY NodesFinite
<1>2. /\ stops \in [1..len -> Nodes(group)] /\ DOMAIN stops = 1..len
      /\ \A i, j \in 1..len : i # j => stops[i] # stops[j]
    BY <1>1 DEF SetToSeqs
<1>3. stops \in Seq(Nodes(group))
    BY <1>2
<1>4. \A n : n \in Nodes(group) <=> \E i \in DOMAIN stops : stops[i] = n
    BY <1>2 DEF Serves, ToSet
<1>5. ASSUME NEW i \in DOMAIN stops, stops[i][2] = "dropoff"
      PROVE  \E j \in DOMAIN stops : j < i /\ stops[j] = <<stops[i][1], "pickup">>
    <2>1. PICK q \in group : q = stops[i][1] /\ stops[i] = <<q, "dropoff">>
        BY <1>2, <1>5 DEF Nodes
    <2>2. PICK j \in DOMAIN stops, k \in DOMAIN stops :
              j < k /\ stops[j] = <<q, "pickup">> /\ stops[k] = <<q, "dropoff">>
        BY DEF Serves, Before
    <2>3. k = i
        BY <1>2, <2>1, <2>2
    <2>4. QED
        BY <2>1, <2>2, <2>3
<1>6. QED
    BY <1>2, <1>3, <1>4, <1>5 DEF IsWay, Serves

LEMMA SolverServes ==
    ASSUME NEW group \in SUBSET Requests, NEW anchor \in group,
           NEW kind, NEW f, Solves(group, kind, f)
    PROVE  /\ Serves(StopsBy(f, anchor), anchor, group)
           /\ kind = "exact" => Shortest(StopsBy(f, anchor), anchor, group)
<1>1. PICK first : first = <<anchor, "pickup">>
    OBVIOUS
<1>2. /\ first \in Nodes(group) /\ {first} \in SUBSET Nodes(group) /\ {} \cup {first} = {first}
      /\ first \in Reachable(group, {})
    BY <1>1 DEF Nodes, Reachable
<1>3. PICK solved : solved = f[{first}][first]
    OBVIOUS
<1>4. Good(group, kind, {first}, first, solved)
    BY <1>2, <1>3, SolverIsGood
<1>5. PICK stops : stops = <<first>> \o solved.path
    OBVIOUS
<1>6. StopsBy(f, anchor) = stops
    BY <1>1, <1>3, <1>5 DEF StopsBy
<1>7. IsWay(group, {first}, solved.path)
    BY <1>4 DEF Good
<1>8. solved.path \in Seq(Nodes(group))
    BY <1>7 DEF IsWay
<1>9. IsWay(group, {}, stops)
    BY <1>2, <1>5, <1>7, WayOn
<1>10. stops[1] = first
    BY <1>2, <1>5, <1>8, Ahead
<1>11. Serves(stops, anchor, group)
    BY <1>1, <1>9, <1>10, WayServes
<1>12. ASSUME kind = "exact", NEW other \in SetToSeqs(Nodes(group)), Serves(other, anchor, group)
       PROVE  Length(stops) <= Length(other)
    <2>1. IsWay(group, {}, other) /\ other[1] = first
        BY <1>1, <1>12, ServesIsWay
    <2>2. Nodes(group) \ {} # {}
        BY <1>2
    <2>3. PICK n \in Reachable(group, {}), rest \in Seq(Nodes(group)) :
              other = <<n>> \o rest /\ IsWay(group, {} \cup {n}, rest)
        BY <2>1, <2>2, WayBack
    <2>4. n = first
        <3>1. n \in Nodes(group)
            BY DEF Reachable
        <3>2. (<<n>> \o rest)[1] = n
            BY <3>1, Ahead
        <3>3. QED
            BY <2>1, <2>3, <3>2
    <2>5. IsWay(group, {first}, rest)
        BY <1>2, <2>3, <2>4
    <2>6. solved.cost <= Length(<<first>> \o rest)
        BY <1>4, <1>12, <2>5 DEF Good
    <2>7. solved.cost = Length(stops)
        BY <1>4, <1>5 DEF Good
    <2>8. QED
        BY <2>3, <2>4, <2>6, <2>7
<1>13. kind = "exact" => Shortest(stops, anchor, group)
    BY <1>12 DEF Shortest
<1>14. QED
    BY <1>6, <1>11, <1>13

LEMMA ExactServes ==
    ASSUME NEW group \in SUBSET Requests, NEW anchor \in group
    PROVE  /\ Serves(StopsBy(SolveExact(group), anchor), anchor, group)
           /\ Shortest(StopsBy(SolveExact(group), anchor), anchor, group)
<1> DEFINE Exact(solve) ==
              solve = [visited \in SUBSET Nodes(group) |->
                 [current \in Nodes(group) |->
                    IF visited = Nodes(group) THEN Arrived
                    ELSE Cheapest({Onward(current, n, solve[visited \cup {n}][n])
                                     : n \in Reachable(group, visited)})]]
<1>1. \A f : Exact(f) <=> Solves(group, "exact", f)
    BY DEF Solves, Solution, WaysOn
<1>2. PICK f : Exact(f)
    <2>1. PICK h : Solves(group, "exact", h)
        BY SolverExists
    <2> HIDE DEF Exact
    <2>2. Exact(h)
        BY <1>1, <2>1, Zenon
    <2>3. QED
        BY <2>2
<1>3. PICK g : g = CHOOSE solve : Exact(solve)
    OBVIOUS
<1>4. Exact(g)
    <2> HIDE DEF Exact
    <2>1. QED
        BY <1>2, <1>3, Zenon
<1>5. SolveExact(group) = g
    BY <1>3, Zenon DEF SolveExact
<1>6. Solves(group, "exact", g)
    BY <1>1, <1>4
<1>7. QED
    BY <1>5, <1>6, SolverServes

LEMMA GreedyServes ==
    ASSUME NEW group \in SUBSET Requests, NEW anchor \in group
    PROVE  Serves(StopsBy(SolveGreedy(group), anchor), anchor, group)
<1> DEFINE Greedy(solve) ==
              solve = [visited \in SUBSET Nodes(group) |->
                 [current \in Nodes(group) |->
                    IF visited = Nodes(group) THEN Arrived
                    ELSE LET n == Nearest(current, Reachable(group, visited))
                         IN  Onward(current, n, solve[visited \cup {n}][n])]]
<1>1. \A f : Greedy(f) <=> Solves(group, "greedy", f)
    BY DEF Solves, Solution, Greedily
<1>2. PICK f : Greedy(f)
    <2>1. PICK h : Solves(group, "greedy", h)
        BY SolverExists
    <2> HIDE DEF Greedy
    <2>2. Greedy(h)
        BY <1>1, <2>1, Zenon
    <2>3. QED
        BY <2>2
<1>3. PICK g : g = CHOOSE solve : Greedy(solve)
    OBVIOUS
<1>4. Greedy(g)
    <2> HIDE DEF Greedy
    <2>1. QED
        BY <1>2, <1>3, Zenon
<1>5. SolveGreedy(group) = g
    BY <1>3, Zenon DEF SolveGreedy
<1>6. Solves(group, "greedy", g)
    BY <1>1, <1>4
<1>7. QED
    BY <1>5, <1>6, SolverServes

(* However a group that can be planned is ordered, the order is right. *)
LEMMA PlannableIsRight == Plannable \subseteq RightlyOrdered
<1>1. SUFFICES ASSUME NEW p \in Plannable PROVE p \in RightlyOrdered
    OBVIOUS
<1>2. p[2] \in SUBSET Requests /\ p[1] \in p[2]
    BY DEF Plannable
<1>3. PICK anchor, group : anchor = p[1] /\ group = p[2]
    OBVIOUS
<1>4. group \in SUBSET Requests /\ anchor \in group
    BY <1>2, <1>3
<1>5. /\ Serves(StopsBy(SolveExact(group), anchor), anchor, group)
      /\ Shortest(StopsBy(SolveExact(group), anchor), anchor, group)
      /\ Serves(StopsBy(SolveGreedy(group), anchor), anchor, group)
    BY <1>4, ExactServes, GreedyServes
<1>6. QED
    BY <1>3, <1>5 DEF RightlyOrdered

(* Whatever is planned under a group's key, by the exact solver or the     *)
(* greedy one, collects every rider once before bringing the rider home,   *)
(* starts at the anchor's pickup and, by the exact solver, could not be    *)
(* shorter: for groups of any size and any places on the line.             *)
THEOREM StopsServe == GroupRidesSpec => []StopsServeTheGroup
<1>1. ASSUME PlannerInv
      PROVE  StopsServeTheGroup
    BY <1>1, PlannedIsPlannable, PlannableIsRight DEF StopsServeTheGroup
<1>2. QED
    BY <1>1, PlannerInvariant, PTL
=============================================================================

------------------------ MODULE ScheduledRides_proofs ------------------------
(***************************************************************************)
(* Two ways to a ride.  A booked one: for every set of bookings, job       *)
(* runners and scanners, and any number of attempts and faults, the types  *)
(* of the rows, one live ride per booking, and the cashback that goes with *)
(* it.  One asked for in a WhatsApp conversation (the second half): for    *)
(* any number of webhooks, messages, rides, drivers and group requests,    *)
(* what the rider is committed to is what the rider was shown.             *)
(***************************************************************************)
EXTENDS ScheduledRides, WhatsAppGroups, FiniteSetTheorems, SequenceTheorems, TLAPS

(* p has the booking in hand, and has claimed it. *)
HasInHand(p, b) ==
    dispatcher[p].at \in {"taken", "claimed", "read"} /\ dispatcher[p].booking = b
Held(p, b) ==
    dispatcher[p].at \in {"claimed", "read"} /\ dispatcher[p].booking = b

(***************************************************************************)
(* Jobs.  A job that runs is in the hands of one runner, and one that will *)
(* run has an attempt left.                                                *)
(***************************************************************************)
JobsInHand ==
    \A p \in JobRunners, b \in Bookings : HasInHand(p, b) =>
        /\ job[b] = "active"
        /\ \A q \in JobRunners : HasInHand(q, b) => q = p

AttemptsLeft ==
    \A b \in Bookings : job[b] \in {"none", "waiting", "active"} => tries[b] < Attempts

(* A job runner has a booking in hand, or nothing. *)
RunnersRun ==
    \A p \in JobRunners : dispatcher[p].at \in {"idle", "taken", "claimed", "read"}

(* A job is queued when its row is there. *)
RowIsFirst == \A b \in Bookings : status[b] = "NONE" => job[b] = "none"

JobInv == JobsInHand /\ AttemptsLeft /\ RunnersRun

TypeInv == TypeOK /\ JobInv /\ RowIsFirst

(***************************************************************************)
(* Claims.  For a booking whose claim was not taken back, a claim is one   *)
(* dispatcher's, only its rider changes the row meanwhile, and an event in *)
(* the outbox closes the row for good.                                     *)
(***************************************************************************)
EventsOf(b) == {i \in 1..Len(outbox) : outbox[i].booking = b}

ClaimIsOnes(b) == \A p, q \in Dispatchers : Held(p, b) /\ Held(q, b) => p = q

ClaimShows(b) ==
    \A p \in Dispatchers : Held(p, b) =>
        \/ status[b] = "DISPATCHING"
        \/ status[b] = "CANCELLED" /\ b \in recalled

EventCloses(b) ==
    /\ EventsOf(b) # {} => status[b] = "DISPATCHED"
    /\ \A i, j \in EventsOf(b) : i = j

ClaimSafe(b) == ClaimIsOnes(b) /\ ClaimShows(b) /\ EventCloses(b)

ClaimInv == \A b \in Bookings \ overtaken : ClaimSafe(b)

(***************************************************************************)
(* Cashback.  It stays with the scheduled ride until its row is closed,    *)
(* and is released for a cancelled one only.                               *)
(***************************************************************************)
CashbackStays(b) ==
    /\ status[b] \in {"NONE", "SCHEDULED", "DISPATCHING"} =>
           cashback[b].ride = 0 /\ cashback[b].status # "RELEASED"
    /\ b \in cancelling => status[b] = "CANCELLED"

CashbackFollows(b) ==
    cashback[b].status # "NONE" =>
        /\ status[b] = "DISPATCHED" =>
              cashback[b] = [status |-> "RESERVED", ride |-> requested[b]]
        /\ status[b] \in {"CANCELLED", "EXPIRED"} => cashback[b].ride = 0

CashSafe(b) == CashbackStays(b) /\ CashbackFollows(b)

CashInv == \A b \in Bookings \ (overtaken \cup recalled \cup unanswered) : CashSafe(b)

IInv == TypeInv /\ ClaimInv /\ CashInv
-----------------------------------------------------------------------------
(***************************************************************************)
(* Types                                                                   *)
(***************************************************************************)
Hands == [at : {"idle", "released", "expired", "list"}, due : SUBSET Bookings]
             \cup [at : {"taken", "claimed", "read"}, booking : Bookings,
                   due : SUBSET Bookings]

Events == [booking : Bookings, published : BOOLEAN]

LEMMA HandFields ==
    ASSUME TypeOK, NEW p \in Dispatchers
    PROVE  /\ dispatcher[p] \in Hands
           /\ dispatcher[p].due \in SUBSET Bookings
           /\ dispatcher[p].at \in {"idle", "released", "expired", "list", "taken",
                                    "claimed", "read"}
           /\ dispatcher[p].at \in {"taken", "claimed", "read"} =>
                  dispatcher[p].booking \in Bookings
           /\ dispatcher[p] = Idle => dispatcher[p].at = "idle"
BY DEF TypeOK, Hands, Idle

LEMMA IdleHand ==
    /\ Idle \in Hands /\ Idle.at = "idle" /\ Idle.due = {}
    /\ \A b, p : Idle # Working("taken", b, p)
BY DEF Idle, Hands, Working

LEMMA WorkingHand ==
    ASSUME NEW b \in Bookings, NEW due \in SUBSET Bookings
    PROVE  /\ Working("taken", b, due) \in Hands
           /\ Working("taken", b, due).at = "taken"
           /\ Working("taken", b, due).booking = b
BY DEF Working, Hands

(* The outbox only grows, so that what points into it stays in it. *)
LEMMA OutboxGrows ==
    ASSUME TypeOK, NEW b \in Bookings
    PROVE  /\ Len(outbox) \in Nat /\ Len(outbox) + 1 \in Nat
           /\ Append(outbox, [booking |-> b, published |-> FALSE]) \in Seq(Events)
           /\ Len(Append(outbox, [booking |-> b, published |-> FALSE])) = Len(outbox) + 1
           /\ 0..Len(outbox) \subseteq 0..(Len(outbox) + 1)
           /\ 1..Len(outbox) \subseteq 1..(Len(outbox) + 1)
           /\ Len(outbox) + 1 \in 0..(Len(outbox) + 1)
<1>1. outbox \in Seq(Events)
    BY DEF TypeOK, Events
<1>2. [booking |-> b, published |-> FALSE] \in Events
    BY DEF Events
<1>3. QED
    BY <1>1, <1>2

(* A dispatcher that is done: to its list, or to rest. *)
LEMMA OnwardTyped ==
    ASSUME TypeOK, NEW p \in Dispatchers, NEW failed \in BOOLEAN, Onward(p, failed)
    PROVE  /\ dispatcher' \in [Dispatchers -> Hands]
           /\ dispatcher'[p].at \in {"idle", "list"}
           /\ \A q \in Dispatchers : q # p => dispatcher'[q] = dispatcher[q]
<1>1. /\ dispatcher \in [Dispatchers -> Hands]
      /\ dispatcher[p].due \in SUBSET Bookings
    BY HandFields DEF TypeOK, Hands
<1>2. [at |-> "list", due |-> dispatcher[p].due] \in Hands
    BY <1>1 DEF Hands
<1>3. QED
    BY <1>1, <1>2, IdleHand DEF Onward

(* Its job: over, waiting for another attempt, or failed. *)
LEMMA AttemptedTyped ==
    ASSUME TypeInv, NEW p \in Dispatchers, NEW b \in Bookings, NEW failed \in BOOLEAN,
           Attempted(p, b, failed), p \in JobRunners => job[b] = "active"
    PROVE  /\ job' \in [Bookings -> Jobs] /\ tries' \in [Bookings -> 0..Attempts]
           /\ \A c \in Bookings : c # b => job'[c] = job[c] /\ tries'[c] = tries[c]
           /\ p \notin JobRunners => job'[b] = job[b]
           /\ AttemptsLeft'
<1> USE DEF TypeInv, JobInv
<1>1. CASE p \notin JobRunners
    BY <1>1 DEF Attempted, AttemptsLeft, TypeOK, jobs
<1>2. CASE p \in JobRunners
    <2>1. tries[b] < Attempts /\ tries[b] \in Nat /\ Attempts \in Nat
        BY <1>2, ScheduledRidesAssumption DEF AttemptsLeft, TypeOK
    <2>2. /\ tries'[b] = tries[b] + 1
          /\ tries' \in [Bookings -> 0..Attempts]
          /\ \A c \in Bookings : c # b => tries'[c] = tries[c]
        <3>1. tries' = [tries EXCEPT ![b] = tries[b] + 1] /\ tries \in [Bookings -> 0..Attempts]
            BY <1>2 DEF Attempted, TypeOK
        <3>2. tries[b] + 1 \in 0..Attempts
            BY <2>1
        <3>3. QED  BY <3>1, <3>2
    <2>3. /\ job'[b] \in {"done", "waiting", "failed"}
          /\ job'[b] = "waiting" => tries[b] + 1 < Attempts
          /\ job' \in [Bookings -> Jobs]
          /\ \A c \in Bookings : c # b => job'[c] = job[c]
        <3>1. job' = [job EXCEPT ![b] = CASE ~failed -> "done"
                                        [] failed /\ tries[b] + 1 < Attempts -> "waiting"
                                        [] OTHER -> "failed"]
            BY <1>2 DEF Attempted
        <3>2. QED
            BY <3>1 DEF TypeOK, Jobs
    <2>4. AttemptsLeft'
        BY <2>2, <2>3 DEF AttemptsLeft
    <2>5. QED
        BY <1>2, <2>2, <2>3, <2>4
<1>3. QED
    BY <1>1, <1>2

(* A dispatcher that takes nothing new in hand, and touches the job of     *)
(* what it lays down only.                                                 *)
LaysDown(p) ==
    /\ \A q \in Dispatchers : q # p => dispatcher'[q] = dispatcher[q]
    /\ \A b \in Bookings : HasInHand(p, b)' => HasInHand(p, b)
    /\ \A b \in Bookings :
           job'[b] = job[b] \/ (p \in JobRunners /\ HasInHand(p, b) /\ ~HasInHand(p, b)')

LEMMA LaysDownKeeps ==
    ASSUME JobsInHand, NEW p \in Dispatchers, LaysDown(p)
    PROVE  JobsInHand'
<1>1. ASSUME NEW q \in JobRunners, NEW b \in Bookings, HasInHand(q, b)'
      PROVE  HasInHand(q, b)
    <2>1. q \in Dispatchers
        BY DEF Dispatchers
    <2>2. QED
        BY <1>1, <2>1 DEF LaysDown, HasInHand
<1>2. ASSUME NEW q \in JobRunners, NEW b \in Bookings, HasInHand(q, b)'
      PROVE  job'[b] = "active"
    <2>1. HasInHand(q, b) /\ job[b] = "active"
        BY <1>1, <1>2 DEF JobsInHand
    <2>2. CASE job'[b] = job[b]
        BY <2>1, <2>2
    <2>3. CASE p \in JobRunners /\ HasInHand(p, b) /\ ~HasInHand(p, b)'
        BY <1>2, <2>1, <2>3 DEF JobsInHand
    <2>4. QED
        BY <2>2, <2>3 DEF LaysDown
<1>3. ASSUME NEW q \in JobRunners, NEW b \in Bookings, HasInHand(q, b)',
             NEW u \in JobRunners, HasInHand(u, b)'
      PROVE  u = q
    BY <1>1, <1>3 DEF JobsInHand
<1>4. QED
    BY <1>2, <1>3 DEF JobsInHand

(* What has nothing to do with the dispatchers and their jobs. *)
RowsTyped ==
    /\ status \in [Bookings -> Statuses]
    /\ requested \in [Bookings -> 0..Len(outbox)]
    /\ phase \in [Bookings -> {"early", "due", "missed"}]
    /\ quiet \in SUBSET Bookings
    /\ cashback \in [Bookings -> [status : Cashbacks, ride : 0..Len(outbox)]]
    /\ outbox \in Seq(Events)
    /\ topic \in SUBSET (1..Len(outbox))
    /\ publisher \in [at : {"idle", "sending", "broken"},
                      batch : SUBSET (1..Len(outbox)), sent : SUBSET (1..Len(outbox))]
    /\ cancelling \in SUBSET Bookings
    /\ faults \in 0..MaxFaults
    /\ overtaken \in SUBSET Bookings
    /\ recalled \in SUBSET Bookings
    /\ unanswered \in SUBSET Bookings

HandsTyped ==
    /\ dispatcher \in [Dispatchers -> Hands]
    /\ job \in [Bookings -> Jobs]
    /\ tries \in [Bookings -> 0..Attempts]

LEMMA TypeParts == TypeOK <=> RowsTyped /\ HandsTyped
BY DEF TypeOK, RowsTyped, HandsTyped, Hands, Events

LEMMA FaultCounts ==
    ASSUME faults \in 0..MaxFaults, Fault
    PROVE  faults' \in 0..MaxFaults
BY ScheduledRidesAssumption DEF Fault

LEMMA NextHands ==
    ASSUME TypeInv, [Next]_vars
    PROVE  HandsTyped' /\ JobInv'
<1> USE DEF TypeInv, JobInv
<1>1. HandsTyped
    BY TypeParts
<1>2. ASSUME UNCHANGED <<dispatcher, job, tries>>
      PROVE  HandsTyped' /\ JobInv'
    BY <1>1, <1>2 DEF HandsTyped, JobsInHand, HasInHand, AttemptsLeft, RunnersRun
<1>3. ASSUME NEW p \in Dispatchers, NEW b \in Bookings, HasInHand(p, b),
             NEW failed \in BOOLEAN, Onward(p, failed), Attempted(p, b, failed)
      PROVE  HandsTyped' /\ JobInv'
    <2>1. p \in JobRunners => job[b] = "active"
        BY <1>3 DEF JobsInHand
    <2>2. HandsTyped' /\ AttemptsLeft'
        BY <1>3, <2>1, OnwardTyped, AttemptedTyped DEF HandsTyped
    <2>3. \A c \in Bookings : ~HasInHand(p, c)'
        BY <1>3, OnwardTyped DEF HasInHand
    <2>4. LaysDown(p)
        <3>1. job'[b] = job[b] \/ p \in JobRunners
            BY <1>3, <2>1, AttemptedTyped
        <3>2. QED
            BY <1>3, <2>1, <2>3, <3>1, OnwardTyped, AttemptedTyped DEF LaysDown
    <2>5. RunnersRun'
        <3>1. p \in JobRunners => dispatcher'[p].at = "idle"
            BY <1>1, <1>3, IdleHand DEF Onward, HandsTyped
        <3>2. QED
            BY <1>3, <3>1, OnwardTyped DEF RunnersRun, Dispatchers
    <2>6. QED
        BY <2>2, <2>4, <2>5, LaysDownKeeps
<1>4. ASSUME NEW p \in Dispatchers, UNCHANGED jobs, NEW hand \in Hands,
             dispatcher' = [dispatcher EXCEPT ![p] = hand],
             \A b \in Bookings : HasInHand(p, b)' => HasInHand(p, b),
             p \in JobRunners => hand.at \in {"idle", "taken", "claimed", "read"}
      PROVE  HandsTyped' /\ JobInv'
    <2>1. HandsTyped' /\ AttemptsLeft' /\ RunnersRun'
        BY <1>1, <1>4 DEF HandsTyped, AttemptsLeft, RunnersRun, jobs, Dispatchers
    <2>2. LaysDown(p)
        BY <1>1, <1>4 DEF LaysDown, HandsTyped, jobs
    <2>3. QED
        BY <2>1, <2>2, LaysDownKeeps
<1>5. ASSUME NEW p \in Dispatchers, NEW b \in Bookings, JobStarts(p, b)
      PROVE  HandsTyped' /\ JobInv'
    <2>1. Working("taken", b, {}) \in Hands
        BY WorkingHand
    <2>2. HandsTyped' /\ AttemptsLeft'
        BY <1>1, <1>5, <2>1 DEF JobStarts, HandsTyped, AttemptsLeft, Jobs
    <2>3. /\ p \in JobRunners /\ job[b] = "waiting" /\ job'[b] = "active"
          /\ dispatcher'[p] = Working("taken", b, {})
          /\ \A c \in Bookings : c # b => job'[c] = job[c]
          /\ \A q \in Dispatchers : q # p => dispatcher'[q] = dispatcher[q]
        BY <1>1, <1>5 DEF JobStarts, HandsTyped
    <2>4. \A q \in JobRunners : ~HasInHand(q, b)
        BY <2>3 DEF JobsInHand
    <2>5. \A c \in Bookings : HasInHand(p, c)' => c = b
        BY <2>3, WorkingHand DEF HasInHand
    <2>6. \A q \in JobRunners, c \in Bookings : q # p => HasInHand(q, c)' = HasInHand(q, c)
        BY <2>3 DEF HasInHand, Dispatchers
    <2>7. JobsInHand'
        BY <2>3, <2>4, <2>5, <2>6 DEF JobsInHand
    <2>8. RunnersRun'
        BY <2>3, WorkingHand DEF RunnersRun, Dispatchers
    <2>9. QED
        BY <2>2, <2>7, <2>8
<1>6. ASSUME NEW p \in Dispatchers, NEW b \in Bookings, ScanTakes(p, b)
      PROVE  HandsTyped' /\ JobInv'
    <2>1. Working("taken", b, dispatcher[p].due \ {b}) \in Hands
        BY HandFields, WorkingHand
    <2>2. HandsTyped' /\ AttemptsLeft'
        BY <1>1, <1>6, <2>1 DEF ScanTakes, HandsTyped, AttemptsLeft, jobs
    <2>3. p \notin JobRunners
        BY <1>6 DEF ScanTakes, RunnersRun
    <2>4. /\ \A q \in JobRunners : dispatcher'[q] = dispatcher[q]
          /\ job' = job
        BY <1>1, <1>6, <2>3 DEF ScanTakes, HandsTyped, Dispatchers, jobs
    <2>5. JobsInHand' /\ RunnersRun'
        BY <2>4 DEF JobsInHand, RunnersRun, HasInHand
    <2>6. QED
        BY <2>2, <2>5
<1>7. ASSUME NEW p \in Dispatchers, Claim(p)
      PROVE  HandsTyped' /\ JobInv'
    <2>1. PICK b \in Bookings : b = dispatcher[p].booking
        BY <1>7, HandFields DEF Claim
    <2>2. HasInHand(p, b)
        BY <1>7, <2>1 DEF Claim, HasInHand
    <2>3. CASE Claimable(b)
        <3> DEFINE hand == [dispatcher[p] EXCEPT !.at = "claimed"]
        <3>1. dispatcher' = [dispatcher EXCEPT ![p] = hand] /\ UNCHANGED jobs
            BY <1>7, <2>1, <2>3 DEF Claim
        <3>2. hand \in Hands /\ hand.at = "claimed" /\ hand.booking = b
            BY <1>7, <2>1, HandFields DEF Claim, Hands
        <3>3. \A c \in Bookings : HasInHand(p, c)' => HasInHand(p, c)
            BY <1>1, <2>1, <2>2, <3>1, <3>2 DEF HasInHand, HandsTyped
        <3> HIDE DEF hand
        <3>4. QED
            BY <1>4, <3>1, <3>2, <3>3
    <2>4. CASE ~Claimable(b)
        BY <1>3, <1>7, <2>1, <2>2, <2>4 DEF Claim
    <2>5. QED
        BY <2>3, <2>4
<1>8. ASSUME NEW p \in Dispatchers, ReadBack(p)
      PROVE  HandsTyped' /\ JobInv'
    <2>1. PICK b \in Bookings : b = dispatcher[p].booking
        BY <1>8, HandFields DEF ReadBack
    <2>2. HasInHand(p, b)
        BY <1>8, <2>1 DEF ReadBack, HasInHand
    <2>3. CASE status[b] = "DISPATCHING"
        <3> DEFINE hand == [dispatcher[p] EXCEPT !.at = "read"]
        <3>1. dispatcher' = [dispatcher EXCEPT ![p] = hand] /\ UNCHANGED jobs
            BY <1>8, <2>1, <2>3 DEF ReadBack
        <3>2. hand \in Hands /\ hand.at = "read" /\ hand.booking = b
            BY <1>8, <2>1, HandFields DEF ReadBack, Hands
        <3>3. \A c \in Bookings : HasInHand(p, c)' => HasInHand(p, c)
            BY <1>1, <2>1, <2>2, <3>1, <3>2 DEF HasInHand, HandsTyped
        <3> HIDE DEF hand
        <3>4. QED
            BY <1>4, <3>1, <3>2, <3>3
    <2>4. CASE status[b] # "DISPATCHING"
        BY <1>3, <1>8, <2>1, <2>2, <2>4 DEF ReadBack
    <2>5. QED
        BY <2>3, <2>4
<1>9. ASSUME NEW p \in Dispatchers, MarkDispatched(p) \/ DispatchFails(p)
      PROVE  HandsTyped' /\ JobInv'
    <2>1. PICK b \in Bookings : b = dispatcher[p].booking
        BY <1>9, HandFields DEF MarkDispatched, DispatchFails
    <2>2. HasInHand(p, b)
        BY <1>9, <2>1 DEF MarkDispatched, DispatchFails, HasInHand
    <2>3. PICK failed \in BOOLEAN : Onward(p, failed) /\ Attempted(p, b, failed)
        BY <1>9, <2>1 DEF MarkDispatched, DispatchFails
    <2>4. QED
        BY <1>3, <2>2, <2>3
<1>10. ASSUME NEW p \in Dispatchers, ScanReleases(p) \/ ScanExpires(p)
       PROVE  HandsTyped' /\ JobInv'
    <2>1. PICK step \in {"released", "expired"} :
              dispatcher' = [dispatcher EXCEPT ![p].at = step]
        BY <1>10 DEF ScanReleases, ScanExpires
    <2>2. dispatcher[p].at \in {"idle", "released"} /\ p \notin JobRunners /\ UNCHANGED jobs
        BY <1>10, IdleHand, ScheduledRidesAssumption DEF ScanReleases, ScanExpires, RunnersRun
    <2> DEFINE hand == [dispatcher[p] EXCEPT !.at = step]
    <2>3. hand \in Hands /\ hand.at = step
        BY <2>2, HandFields DEF Hands
    <2>4. \A c \in Bookings : ~HasInHand(p, c)'
        BY <1>1, <2>1, <2>2, <2>3 DEF HasInHand, HandsTyped
    <2>5. dispatcher' = [dispatcher EXCEPT ![p] = hand]
        BY <2>1
    <2> HIDE DEF hand
    <2>6. QED
        BY <1>4, <2>2, <2>3, <2>4, <2>5
<1>11. ASSUME NEW p \in Dispatchers, ScanFinds(p)
       PROVE  HandsTyped' /\ JobInv'
    <2> DEFINE due == {b \in Bookings : Due(b)}
               hand == IF due = {} THEN Idle ELSE [at |-> "list", due |-> due]
    <2>1. dispatcher' = [dispatcher EXCEPT ![p] = hand] /\ UNCHANGED jobs
        BY <1>11 DEF ScanFinds
    <2>2. hand \in Hands /\ hand.at \in {"idle", "list"} /\ p \notin JobRunners
        BY <1>11, IdleHand DEF ScanFinds, RunnersRun, Hands
    <2>3. \A c \in Bookings : ~HasInHand(p, c)'
        BY <1>1, <2>1, <2>2 DEF HasInHand, HandsTyped
    <2> HIDE DEF hand
    <2>4. QED
        BY <1>4, <2>1, <2>2, <2>3
<1>12. CASE RideServiceDies
    <2>1. dispatcher' = [p \in Dispatchers |-> Idle] /\ tries' = tries
        BY <1>12 DEF RideServiceDies
    <2>2. PICK o \in {"waiting", "failed"} :
              job' = [b \in Bookings |-> IF job[b] = "active" THEN o ELSE job[b]]
        BY <1>12 DEF RideServiceDies
    <2>3. HandsTyped'
        BY <1>1, <2>1, <2>2, IdleHand DEF HandsTyped, Jobs
    <2>4. AttemptsLeft'
        BY <2>1, <2>2 DEF AttemptsLeft
    <2>5. \A p \in Dispatchers : dispatcher'[p].at = "idle"
        BY <2>1, IdleHand
    <2>6. JobsInHand' /\ RunnersRun'
        BY <2>5 DEF JobsInHand, RunnersRun, HasInHand, Dispatchers
    <2>7. QED
        BY <2>3, <2>4, <2>6
<1>13. ASSUME NEW b \in Bookings, Schedule(b) \/ CancelReleases(b)
       PROVE  HandsTyped' /\ JobInv'
    <2>1. UNCHANGED <<dispatcher, tries>>
        BY <1>13 DEF Schedule, CancelReleases
    <2>2. CASE Schedule(b)
        <3>1. job[b] = "none" /\ job' \in {job, [job EXCEPT ![b] = "waiting"]}
            BY <1>13, <2>2 DEF Schedule, Unmade, RowIsFirst
        <3>2. HandsTyped' /\ AttemptsLeft'
            BY <1>1, <2>1, <3>1 DEF HandsTyped, AttemptsLeft, Jobs
        <3>3. \A c \in Bookings : job[c] = "active" => job'[c] = "active"
            BY <1>1, <3>1 DEF HandsTyped
        <3>4. JobsInHand' /\ RunnersRun'
            BY <2>1, <3>3 DEF JobsInHand, RunnersRun, HasInHand
        <3>5. QED
            BY <3>2, <3>4
    <2>3. CASE CancelReleases(b)
        <3>1. job' \in {job, [job EXCEPT ![b] = IF @ = "waiting" THEN "none" ELSE @]}
            BY <2>3 DEF CancelReleases
        <3>2. HandsTyped' /\ AttemptsLeft'
            BY <1>1, <2>1, <3>1 DEF HandsTyped, AttemptsLeft, Jobs
        <3>3. \A c \in Bookings : job[c] = "active" => job'[c] = "active"
            BY <1>1, <3>1 DEF HandsTyped
        <3>4. JobsInHand' /\ RunnersRun'
            BY <2>1, <3>3 DEF JobsInHand, RunnersRun, HasInHand
        <3>5. QED
            BY <3>2, <3>4
    <2>4. QED
        BY <1>13, <2>2, <2>3
<1>14. ASSUME NEW b \in Bookings, \/ Reserve(b) \/ ScheduleFails(b) \/ Cancel(b)
                                  \/ Tick(b) \/ MinutePasses(b)
       PROVE  UNCHANGED <<dispatcher, job, tries>>
    BY <1>14 DEF Reserve, ScheduleFails, Cancel, Tick, MinutePasses, jobs
<1>15. CASE PollReads \/ PollSends \/ PollMarks \/ GatewayDies \/ UNCHANGED vars
    BY <1>2, <1>15 DEF PollReads, PollSends, PollMarks, GatewayDies, vars, jobs
<1>16. QED
    BY <1>2, <1>5, <1>6, <1>7, <1>8, <1>9, <1>10, <1>11, <1>12, <1>13, <1>14, <1>15 DEF Next

(* A row once written stays, and its job runs only behind it. *)
LEMMA NextRowIsFirst ==
    ASSUME TypeInv, [Next]_vars
    PROVE  RowIsFirst'
<1> SUFFICES ASSUME NEW b \in Bookings, status'[b] = "NONE"
             PROVE  job'[b] = "none"
    BY DEF RowIsFirst
<1> USE DEF TypeInv, JobInv
<1>1. status \in [Bookings -> Statuses] /\ job \in [Bookings -> Jobs]
    BY DEF TypeOK
<1>2. ASSUME UNCHANGED <<status, job>>
      PROVE  job'[b] = "none"
    BY <1>2 DEF RowIsFirst
<1>3. ASSUME NEW p \in Dispatchers, NEW c \in Bookings, HasInHand(p, c),
             status[b] = "NONE",
             UNCHANGED jobs \/ \E failed \in BOOLEAN : Attempted(p, c, failed)
      PROVE  job'[b] = "none"
    <2>1. job[b] = "none"
        BY <1>3 DEF RowIsFirst
    <2>2. p \in JobRunners => c # b
        BY <1>3, <2>1 DEF JobsInHand
    <2>3. QED
        BY <1>1, <1>3, <2>1, <2>2 DEF Attempted, jobs
<1>4. ASSUME NEW c \in Bookings, \/ Reserve(c) \/ Schedule(c) \/ ScheduleFails(c)
                                 \/ Cancel(c) \/ CancelReleases(c)
      PROVE  job'[b] = "none"
    BY <1>1, <1>4 DEF Reserve, Schedule, ScheduleFails, Unmade, Cancel, CancelReleases, Write, RowIsFirst, jobs, rows
<1>5. ASSUME NEW p \in Dispatchers, NEW c \in Bookings, JobStarts(p, c) \/ ScanTakes(p, c)
      PROVE  job'[b] = "none"
    BY <1>1, <1>5 DEF JobStarts, ScanTakes, RowIsFirst, jobs, rows
<1>6. ASSUME NEW p \in Dispatchers,
             Claim(p) \/ ReadBack(p) \/ MarkDispatched(p) \/ DispatchFails(p)
      PROVE  job'[b] = "none"
    <2>1. PICK c \in Bookings : c = dispatcher[p].booking
        BY <1>6, HandFields DEF Claim, ReadBack, MarkDispatched, DispatchFails
    <2>2. HasInHand(p, c)
        BY <1>6, <2>1 DEF Claim, ReadBack, MarkDispatched, DispatchFails, HasInHand
    <2>3. UNCHANGED jobs \/ \E failed \in BOOLEAN : Attempted(p, c, failed)
        BY <1>6, <2>1 DEF Claim, ReadBack, MarkDispatched, DispatchFails
    <2>4. status[b] = "NONE"
        BY <1>1, <1>6, <2>1 DEF Claim, ReadBack, MarkDispatched, DispatchFails, Write, rows
    <2>5. QED
        BY <1>3, <2>2, <2>3, <2>4
<1>7. ASSUME NEW p \in Dispatchers, ScanReleases(p) \/ ScanExpires(p) \/ ScanFinds(p)
      PROVE  job'[b] = "none"
    BY <1>1, <1>7 DEF ScanReleases, ScanExpires, ScanFinds, RowIsFirst, jobs, rows
<1>8. CASE RideServiceDies
    BY <1>1, <1>8 DEF RideServiceDies, RowIsFirst, rows
<1>9. ASSUME NEW c \in Bookings, Tick(c) \/ MinutePasses(c)
      PROVE  UNCHANGED <<status, job>>
    BY <1>9 DEF Tick, MinutePasses, rows, jobs
<1>10. CASE PollReads \/ PollSends \/ PollMarks \/ GatewayDies \/ UNCHANGED vars
    BY <1>2, <1>10 DEF PollReads, PollSends, PollMarks, GatewayDies, vars, rows, jobs
<1>11. QED
    BY <1>2, <1>4, <1>5, <1>6, <1>7, <1>8, <1>9, <1>10 DEF Next

LEMMA InitTypeInv == Init => TypeInv
<1> SUFFICES ASSUME Init
             PROVE  TypeInv
    OBVIOUS
<1>0. MaxFaults \in Nat /\ Attempts \in Nat \ {0} /\ Len(<<>>) = 0 /\ <<>> \in Seq(Events)
    BY ScheduledRidesAssumption
<1>1. HandsTyped
    BY <1>0, IdleHand DEF Init, HandsTyped, Jobs
<1>2. RowsTyped
    BY <1>0 DEF Init, RowsTyped, Statuses, Cashbacks, Resting
<1>3. \A p \in Dispatchers : dispatcher[p].at = "idle"
    BY IdleHand DEF Init
<1>4. JobInv /\ RowIsFirst
    BY <1>0, <1>3
    DEF Init, JobInv, JobsInHand, AttemptsLeft, RunnersRun, RowIsFirst, HasInHand, Dispatchers
<1>5. QED
    BY <1>1, <1>2, <1>4, TypeParts DEF TypeInv

LEMMA NextRowsTyped ==
    ASSUME TypeOK, [Next]_vars
    PROVE  RowsTyped'
<1>1. RowsTyped
    BY TypeParts
<1>2. ASSUME NEW b \in Bookings, \/ Reserve(b) \/ Schedule(b) \/ ScheduleFails(b)
                                 \/ Cancel(b) \/ CancelReleases(b)
      PROVE  RowsTyped'
    <2>1. status' \in [Bookings -> Statuses]
        BY <1>1, <1>2
        DEF Reserve, Schedule, ScheduleFails, Cancel, CancelReleases, Write, RowsTyped, Statuses, rows
    <2>2. cashback' \in [Bookings -> [status : Cashbacks, ride : 0..Len(outbox)]]
        <3>1. cashback[b] \in [status : Cashbacks, ride : 0..Len(outbox)]
            BY <1>1 DEF RowsTyped
        <3>2. \A s \in Cashbacks : [cashback[b] EXCEPT !.status = s]
                  \in [status : Cashbacks, ride : 0..Len(outbox)]
            BY <3>1
        <3>3. "RESERVED" \in Cashbacks /\ "RELEASED" \in Cashbacks
            BY DEF Cashbacks
        <3>4. cashback' \in {cashback, [cashback EXCEPT ![b].status = "RESERVED"],
                             [cashback EXCEPT ![b].status = "RELEASED"]}
            BY <1>2 DEF Reserve, Schedule, ScheduleFails, Cancel, CancelReleases, ReleaseCashback
        <3>5. QED
            BY <1>1, <3>2, <3>3, <3>4 DEF RowsTyped
    <2>3. /\ UNCHANGED <<requested, phase, outbox, topic, publisher, overtaken>>
          /\ quiet' \in SUBSET Bookings /\ cancelling' \in SUBSET Bookings
          /\ recalled' \in SUBSET Bookings /\ unanswered' \in SUBSET Bookings
        BY <1>1, <1>2
        DEF Reserve, Schedule, ScheduleFails, Cancel, CancelReleases, Renew, RowsTyped, rows
    <2>4. faults' \in 0..MaxFaults
        BY <1>1, <1>2, FaultCounts
        DEF Reserve, Schedule, ScheduleFails, Cancel, CancelReleases, RowsTyped
    <2>5. QED
        BY <1>1, <2>1, <2>2, <2>3, <2>4 DEF RowsTyped
<1>3. ASSUME NEW b \in Bookings, Tick(b) \/ MinutePasses(b)
      PROVE  RowsTyped'
    <2>1. phase' \in [Bookings -> {"early", "due", "missed"}] /\ quiet' \in SUBSET Bookings
        BY <1>1, <1>3 DEF Tick, MinutePasses, RowsTyped
    <2>2. UNCHANGED <<status, requested, cashback, outbox, topic, publisher, cancelling,
                      faults, overtaken, recalled, unanswered>>
        BY <1>3 DEF Tick, MinutePasses, rows
    <2>3. QED
        BY <1>1, <2>1, <2>2 DEF RowsTyped
<1>4. ASSUME UNCHANGED <<status, requested, phase, quiet, cashback, outbox, topic, publisher,
                         cancelling, overtaken, recalled, unanswered>>,
             faults' = faults \/ Fault
      PROVE  RowsTyped'
    BY <1>1, <1>4, FaultCounts DEF RowsTyped
<1>5. ASSUME NEW p \in Dispatchers, NEW b \in Bookings, JobStarts(p, b) \/ ScanTakes(p, b)
      PROVE  RowsTyped'
    BY <1>4, <1>5 DEF JobStarts, ScanTakes, rows
<1>6. ASSUME NEW p \in Dispatchers, Claim(p) \/ DispatchFails(p)
      PROVE  RowsTyped'
    <2>1. PICK b \in Bookings : b = dispatcher[p].booking
        BY <1>6, HandFields DEF Claim, DispatchFails
    <2>2. /\ status' \in [Bookings -> Statuses]
          /\ quiet' \in SUBSET Bookings
          /\ overtaken' \in SUBSET Bookings
        BY <1>1, <1>6, <2>1 DEF Claim, DispatchFails, Write, Renew, RowsTyped, Statuses
    <2>3. UNCHANGED <<requested, phase, cashback, outbox, topic, publisher, cancelling,
                      recalled, unanswered>>
        BY <1>6 DEF Claim, DispatchFails
    <2>4. faults' \in 0..MaxFaults
        BY <1>1, <1>6, FaultCounts DEF Claim, DispatchFails, RowsTyped
    <2>5. QED
        BY <1>1, <2>2, <2>3, <2>4 DEF RowsTyped
<1>7. ASSUME NEW p \in Dispatchers, ReadBack(p) \/ ScanFinds(p)
      PROVE  RowsTyped'
    BY <1>4, <1>7 DEF ReadBack, ScanFinds, rows
<1>8. ASSUME NEW p \in Dispatchers, MarkDispatched(p)
      PROVE  RowsTyped'
    <2>1. PICK b \in Bookings : b = dispatcher[p].booking
        BY <1>8, HandFields DEF MarkDispatched
    <2> DEFINE ride == Len(outbox) + 1
               entry == [booking |-> b, published |-> FALSE]
    <2>2. /\ outbox' = Append(outbox, entry) /\ outbox' \in Seq(Events)
          /\ Len(outbox') = ride
          /\ 0..Len(outbox) \subseteq 0..ride /\ 1..Len(outbox) \subseteq 1..ride
          /\ ride \in 0..ride
        BY <1>8, <2>1, OutboxGrows DEF MarkDispatched
    <2> HIDE DEF ride, entry
    <2>3. /\ status' \in [Bookings -> Statuses] /\ quiet' \in SUBSET Bookings
          /\ UNCHANGED <<phase, topic, publisher, cancelling, overtaken, recalled, unanswered>>
        BY <1>1, <1>8, <2>1 DEF MarkDispatched, Write, Renew, RowsTyped, Statuses
    <2>4. requested' \in [Bookings -> 0..Len(outbox')]
        <3>1. requested' = [requested EXCEPT ![b] = ride]
            BY <1>8, <2>1 DEF MarkDispatched, ride
        <3>2. QED
            BY <1>1, <2>2, <3>1 DEF RowsTyped
    <2>5. cashback' \in [Bookings -> [status : Cashbacks, ride : 0..Len(outbox')]]
        <3>1. \A c \in Bookings : cashback[c] \in [status : Cashbacks, ride : 0..ride]
            BY <1>1, <2>2 DEF RowsTyped
        <3>2. [cashback[b] EXCEPT !.ride = ride] \in [status : Cashbacks, ride : 0..ride]
            BY <2>2, <3>1
        <3>3. cashback' \in {cashback, [cashback EXCEPT ![b].ride = ride]}
            BY <1>8, <2>1 DEF MarkDispatched, MoveCashback, ride
        <3>4. cashback \in [Bookings -> [status : Cashbacks, ride : 0..ride]]
            BY <1>1, <3>1 DEF RowsTyped
        <3>5. QED
            BY <2>2, <3>2, <3>3, <3>4
    <2>6. topic' \in SUBSET (1..Len(outbox'))
        BY <1>1, <2>2, <2>3 DEF RowsTyped
    <2>7. publisher' \in [at : {"idle", "sending", "broken"}, batch : SUBSET (1..Len(outbox')),
                          sent : SUBSET (1..Len(outbox'))]
        BY <1>1, <2>2, <2>3 DEF RowsTyped
    <2>8. faults' \in 0..MaxFaults
        BY <1>1, <1>8, FaultCounts DEF MarkDispatched, RowsTyped
    <2>9. QED
        BY <1>1, <2>2, <2>3, <2>4, <2>5, <2>6, <2>7, <2>8 DEF RowsTyped
<1>9. ASSUME NEW p \in Dispatchers, ScanReleases(p) \/ ScanExpires(p)
      PROVE  RowsTyped'
    <2>1. status' \in [Bookings -> Statuses]
        BY <1>1, <1>9 DEF ScanReleases, ScanExpires, RowsTyped, Statuses
    <2>2. quiet' \in SUBSET Bookings /\ overtaken' \in SUBSET Bookings
        BY <1>1, <1>9 DEF ScanReleases, ScanExpires, Renew, RowsTyped
    <2>3. UNCHANGED <<requested, phase, cashback, outbox, topic, publisher, cancelling,
                      faults, recalled, unanswered>>
        BY <1>9 DEF ScanReleases, ScanExpires
    <2>4. QED
        BY <1>1, <2>1, <2>2, <2>3 DEF RowsTyped
<1>10. CASE RideServiceDies
    BY <1>4, <1>10 DEF RideServiceDies, rows
<1>11. CASE PollReads \/ GatewayDies
    <2>1. publisher' \in [at : {"idle", "sending", "broken"}, batch : SUBSET (1..Len(outbox)),
                          sent : SUBSET (1..Len(outbox))]
        BY <1>11 DEF PollReads, GatewayDies, Resting, Unpublished
    <2>2. cancelling' \in SUBSET Bookings /\ faults' \in 0..MaxFaults
        BY <1>1, <1>11, FaultCounts DEF PollReads, GatewayDies, RowsTyped
    <2>3. UNCHANGED <<status, requested, phase, quiet, cashback, outbox, topic, overtaken,
                      recalled, unanswered>>
        BY <1>11 DEF PollReads, GatewayDies, rows
    <2>4. QED
        BY <1>1, <2>1, <2>2, <2>3 DEF RowsTyped
<1>12. CASE PollSends
    <2>1. PICK ride \in publisher.batch :
              /\ topic' \in {topic, topic \cup {ride}}
              /\ \/ publisher' = [publisher EXCEPT !.batch = @ \ {ride},
                                                   !.sent = @ \cup {ride}]
                 \/ publisher' = [publisher EXCEPT !.at = "broken"]
              /\ faults' = faults \/ Fault
        BY <1>12 DEF PollSends
    <2>2. ride \in 1..Len(outbox)
        BY <1>1 DEF RowsTyped
    <2>3. topic' \in SUBSET (1..Len(outbox)) /\ faults' \in 0..MaxFaults
        BY <1>1, <2>1, <2>2, FaultCounts DEF RowsTyped
    <2>4. publisher' \in [at : {"idle", "sending", "broken"}, batch : SUBSET (1..Len(outbox)),
                          sent : SUBSET (1..Len(outbox))]
        <3>1. publisher \in [at : {"idle", "sending", "broken"},
                             batch : SUBSET (1..Len(outbox)), sent : SUBSET (1..Len(outbox))]
            BY <1>1 DEF RowsTyped
        <3>2. /\ publisher.batch \ {ride} \in SUBSET (1..Len(outbox))
              /\ publisher.sent \cup {ride} \in SUBSET (1..Len(outbox))
            BY <2>2, <3>1
        <3>3. CASE publisher' = [publisher EXCEPT !.batch = @ \ {ride}, !.sent = @ \cup {ride}]
            BY <3>1, <3>2, <3>3
        <3>4. CASE publisher' = [publisher EXCEPT !.at = "broken"]
            BY <3>1, <3>4
        <3>5. QED
            BY <2>1, <3>3, <3>4
    <2>5. UNCHANGED <<status, requested, phase, quiet, cashback, outbox, cancelling, overtaken,
                      recalled, unanswered>>
        BY <1>12 DEF PollSends, rows
    <2>6. QED
        BY <1>1, <2>3, <2>4, <2>5 DEF RowsTyped
<1>13. CASE PollMarks
    <2>1. outbox' \in Seq(Events) /\ Len(outbox') = Len(outbox)
        <3>1. \/ outbox' = outbox
              \/ outbox' = [i \in 1..Len(outbox) |->
                     IF i \in Marked THEN [outbox[i] EXCEPT !.published = TRUE] ELSE outbox[i]]
            BY <1>13 DEF PollMarks
        <3>2. outbox \in Seq(Events)
            BY <1>1 DEF RowsTyped
        <3>3. Len(outbox) \in Nat /\ \A i \in 1..Len(outbox) : outbox[i] \in Events
            BY <3>2
        <3>4. \A i \in 1..Len(outbox) : [outbox[i] EXCEPT !.published = TRUE] \in Events
            BY <3>3 DEF Events
        <3>5. CASE outbox' = outbox
            BY <3>2, <3>5
        <3>6. CASE outbox' = [i \in 1..Len(outbox) |->
                     IF i \in Marked THEN [outbox[i] EXCEPT !.published = TRUE] ELSE outbox[i]]
            <4> DEFINE Row(i) ==
                    IF i \in Marked THEN [outbox[i] EXCEPT !.published = TRUE] ELSE outbox[i]
            <4>1. \A i \in 1..Len(outbox) : Row(i) \in Events
                BY <3>3, <3>4
            <4>2. outbox' = [i \in 1..Len(outbox) |-> Row(i)]
                BY <3>6
            <4> HIDE DEF Row
            <4>3. QED
                BY <3>3, <4>1, <4>2
        <3>7. QED
            BY <3>1, <3>5, <3>6
    <2>2. faults' \in 0..MaxFaults
        BY <1>1, <1>13, FaultCounts DEF PollMarks, RowsTyped
    <2>3. publisher' \in [at : {"idle", "sending", "broken"}, batch : SUBSET (1..Len(outbox)),
                          sent : SUBSET (1..Len(outbox))]
        BY <1>13 DEF PollMarks, Resting
    <2>4. UNCHANGED <<status, requested, phase, quiet, cashback, topic, cancelling, overtaken,
                      recalled, unanswered>>
        BY <1>13 DEF PollMarks, rows
    <2>5. QED
        BY <1>1, <2>1, <2>2, <2>3, <2>4 DEF RowsTyped
<1>14. CASE UNCHANGED vars
    BY <1>4, <1>14 DEF vars, rows
<1>15. QED
    BY <1>2, <1>3, <1>5, <1>6, <1>7, <1>8, <1>9, <1>10, <1>11, <1>12, <1>13, <1>14 DEF Next

LEMMA NextTypeInv == TypeInv /\ [Next]_vars => TypeInv'
<1> SUFFICES ASSUME TypeInv, [Next]_vars
             PROVE  TypeInv'
    OBVIOUS
<1>1. RowsTyped' /\ HandsTyped' /\ JobInv' /\ RowIsFirst'
    BY NextRowsTyped, NextHands, NextRowIsFirst DEF TypeInv
<1>2. TypeOK'
    BY <1>1 DEF TypeOK, RowsTyped, HandsTyped, Hands, Events
<1>3. QED
    BY <1>1, <1>2 DEF TypeInv

(* Every reachable state is well typed, and a job never has more attempts  *)
(* than it was given: the retries of failed dispatches, of jobs that       *)
(* stalled and of lost answers share one budget.                           *)
THEOREM TypeCorrect == Spec => []TypeOK
<1>1. TypeInv => TypeOK
    BY DEF TypeInv
<1>2. QED
    BY <1>1, InitTypeInv, NextTypeInv, PTL DEF Spec
-----------------------------------------------------------------------------
(***************************************************************************)
(* Claims                                                                  *)
(***************************************************************************)
(* What every step but a claim and a dispatch does to a booking: nobody    *)
(* new holds it, and whoever still does sees the row as it was or          *)
(* cancelled under it.                                                     *)
ClaimKept(b) ==
    /\ \A p \in Dispatchers : Held(p, b)' => Held(p, b)
    /\ EventsOf(b)' = EventsOf(b)
    /\ recalled \subseteq recalled'
    /\ \/ status'[b] = status[b]
       \/ /\ status[b] # "DISPATCHED"
          /\ \A p \in Dispatchers :
                 Held(p, b)' => status'[b] = "CANCELLED" /\ b \in recalled'

LEMMA ClaimKeeps ==
    ASSUME NEW b \in Bookings, ClaimSafe(b), ClaimKept(b)
    PROVE  ClaimSafe(b)'
<1>1. ClaimIsOnes(b)'
    BY DEF ClaimSafe, ClaimKept, ClaimIsOnes
<1>2. ClaimShows(b)'
    BY DEF ClaimSafe, ClaimKept, ClaimShows
<1>3. EventCloses(b)'
    BY DEF ClaimSafe, ClaimKept, EventCloses
<1>4. QED
    BY <1>1, <1>2, <1>3 DEF ClaimSafe

LEMMA OnwardHolds ==
    ASSUME TypeOK, NEW p \in Dispatchers, NEW failed \in BOOLEAN, Onward(p, failed),
           NEW q \in Dispatchers, NEW b \in Bookings, Held(q, b)'
    PROVE  q # p /\ Held(q, b)
BY OnwardTyped DEF Held

(* An event more in the outbox is one more for its booking only. *)
LEMMA EventAdded ==
    ASSUME TypeOK, NEW b \in Bookings, NEW c \in Bookings,
           outbox' = Append(outbox, [booking |-> c, published |-> FALSE])
    PROVE  EventsOf(b)' = IF b = c THEN EventsOf(b) \cup {Len(outbox) + 1} ELSE EventsOf(b)
<1> DEFINE entry == [booking |-> c, published |-> FALSE]
           n == Len(outbox)
<1>1. outbox \in Seq(Events) /\ entry \in Events /\ entry.booking = c
    BY DEF TypeOK, Events
<1>2. n \in Nat /\ outbox' = Append(outbox, entry)
    BY <1>1
<1> HIDE DEF entry
<1>3. /\ Len(outbox') = n + 1 /\ outbox'[n + 1] = entry
      /\ \A i \in 1..n : outbox'[i] = outbox[i]
    BY <1>1, <1>2
<1> HIDE DEF n
<1>4. EventsOf(b) = {i \in 1..n : outbox[i].booking = b}
    BY DEF EventsOf, n
<1>5. EventsOf(b)' = {i \in 1..(n + 1) : outbox'[i].booking = b}
    BY <1>3 DEF EventsOf
<1>6. 1..(n + 1) = 1..n \cup {n + 1}
    BY <1>2
<1>7. EventsOf(b)' = IF b = c THEN EventsOf(b) \cup {n + 1} ELSE EventsOf(b)
    BY <1>1, <1>3, <1>4, <1>5, <1>6
<1>8. QED
    BY <1>7 DEF n

LEMMA EventsMarked ==
    ASSUME TypeOK, PollMarks, NEW b \in Bookings
    PROVE  EventsOf(b)' = EventsOf(b)
<1>1. CASE UNCHANGED outbox
    BY <1>1 DEF EventsOf
<1>2. CASE outbox' = [i \in 1..Len(outbox) |->
               IF i \in Marked THEN [outbox[i] EXCEPT !.published = TRUE] ELSE outbox[i]]
    <2>1. outbox \in Seq(Events)
        BY DEF TypeOK, Events
    <2>2. Len(outbox) \in Nat /\ \A i \in 1..Len(outbox) : outbox[i] \in Events
        BY <2>1
    <2>3. \A i \in 1..Len(outbox) :
              [outbox[i] EXCEPT !.published = TRUE].booking = outbox[i].booking
        BY <2>2 DEF Events
    <2>4. \A i \in 1..Len(outbox) : outbox'[i].booking = outbox[i].booking
        BY <1>2, <2>3
    <2>5. Len(outbox') = Len(outbox)
        <3> DEFINE Row(i) ==
                IF i \in Marked THEN [outbox[i] EXCEPT !.published = TRUE] ELSE outbox[i]
        <3>1. outbox' = [i \in 1..Len(outbox) |-> Row(i)]
            BY <1>2
        <3> HIDE DEF Row
        <3>2. QED
            BY <2>2, <3>1
    <2>6. QED
        BY <2>4, <2>5 DEF EventsOf
<1>3. QED
    BY <1>1, <1>2 DEF PollMarks

LEMMA NextClaim ==
    ASSUME TypeInv, ClaimInv, [Next]_vars
    PROVE  ClaimInv'
<1> SUFFICES ASSUME NEW b \in Bookings, b \notin overtaken'
             PROVE  ClaimSafe(b)'
    BY DEF ClaimInv
<1>0. TypeOK /\ status \in [Bookings -> Statuses] /\ dispatcher \in [Dispatchers -> Hands]
    BY DEF TypeInv, TypeOK, Hands
<1>1. ASSUME overtaken \subseteq overtaken'
      PROVE  ClaimSafe(b)
    BY <1>1 DEF ClaimInv
<1>2. ASSUME overtaken \subseteq overtaken', outbox' = outbox, recalled \subseteq recalled',
             \A p \in Dispatchers : Held(p, b)' => Held(p, b),
             \/ status'[b] = status[b]
             \/ /\ status[b] # "DISPATCHED"
                /\ \A p \in Dispatchers :
                       Held(p, b)' => status'[b] = "CANCELLED" /\ b \in recalled'
      PROVE  ClaimSafe(b)'
    <2>1. EventsOf(b)' = EventsOf(b)
        BY <1>2 DEF EventsOf
    <2>2. QED
        BY <1>1, <1>2, <2>1, ClaimKeeps DEF ClaimKept
<1>3. ASSUME UNCHANGED <<overtaken, outbox, recalled, status, dispatcher>>
      PROVE  ClaimSafe(b)'
    BY <1>2, <1>3 DEF Held
<1>4. ASSUME overtaken \subseteq overtaken', status[b] \notin {"DISPATCHING", "CANCELLED"}
      PROVE  \A p \in Dispatchers : ~Held(p, b)
    BY <1>1, <1>4 DEF ClaimSafe, ClaimShows
<1>5. ASSUME NEW c \in Bookings, Schedule(c) \/ ScheduleFails(c)
      PROVE  ClaimSafe(b)'
    <2>1. /\ UNCHANGED <<overtaken, outbox, recalled, dispatcher>>
          /\ status[c] = "NONE"
          /\ status' = status \/ status' = [status EXCEPT ![c] = "SCHEDULED"]
        BY <1>5 DEF Schedule, ScheduleFails, Unmade, Write
    <2>2. \A p \in Dispatchers : Held(p, b)' <=> Held(p, b)
        BY <2>1 DEF Held
    <2>3. CASE b = c
        BY <1>2, <1>4, <2>1, <2>2, <2>3
    <2>4. CASE b # c
        BY <1>0, <1>2, <2>1, <2>2, <2>4
    <2>5. QED
        BY <2>3, <2>4
<1>6. ASSUME NEW c \in Bookings, Cancel(c)
      PROVE  ClaimSafe(b)'
    <2>1. /\ UNCHANGED <<overtaken, outbox, dispatcher>>
          /\ status[c] \in {"SCHEDULED", "DISPATCHING"}
          /\ status' = [status EXCEPT ![c] = "CANCELLED"]
          /\ recalled \subseteq recalled'
          /\ (\E p \in Dispatchers : Held(p, c)) => c \in recalled'
        BY <1>6 DEF Cancel, Write, Held
    <2>2. \A p \in Dispatchers : Held(p, b)' <=> Held(p, b)
        BY <2>1 DEF Held
    <2>3. CASE b = c
        BY <1>0, <1>2, <2>1, <2>2, <2>3
    <2>4. CASE b # c
        BY <1>0, <1>2, <2>1, <2>2, <2>4
    <2>5. QED
        BY <2>3, <2>4
<1>7. ASSUME NEW c \in Bookings,
             Reserve(c) \/ CancelReleases(c) \/ Tick(c) \/ MinutePasses(c)
      PROVE  ClaimSafe(b)'
    BY <1>3, <1>7 DEF Reserve, CancelReleases, Tick, MinutePasses, rows
<1>8. ASSUME NEW p \in Dispatchers, NEW c \in Bookings, JobStarts(p, c) \/ ScanTakes(p, c)
      PROVE  ClaimSafe(b)'
    <2>1. /\ UNCHANGED <<overtaken, outbox, recalled, status>>
          /\ dispatcher'[p].at = "taken"
          /\ \A q \in Dispatchers : q # p => dispatcher'[q] = dispatcher[q]
        BY <1>0, <1>8, WorkingHand DEF JobStarts, ScanTakes, rows, Working
    <2>2. QED
        BY <1>2, <2>1 DEF Held
<1>9. ASSUME NEW p \in Dispatchers, Claim(p)
      PROVE  ClaimSafe(b)'
    <2>1. PICK c \in Bookings : c = dispatcher[p].booking
        BY <1>0, <1>9, HandFields DEF Claim
    <2>2. UNCHANGED <<overtaken, outbox, recalled>>
        BY <1>9 DEF Claim
    <2>3. CASE ~Claimable(c)
        <3>1. Onward(p, FALSE) /\ status' = status
            BY <1>9, <2>1, <2>3 DEF Claim
        <3>2. QED
            BY <1>0, <1>2, <2>2, <3>1, OnwardHolds
    <2>4. CASE Claimable(c)
        <3>1. /\ status[c] = "SCHEDULED" /\ status' = [status EXCEPT ![c] = "DISPATCHING"]
              /\ dispatcher' = [dispatcher EXCEPT ![p].at = "claimed"]
            BY <1>9, <2>1, <2>4 DEF Claim, Claimable, Write
        <3>2. \A q \in Dispatchers : q # p => dispatcher'[q] = dispatcher[q]
            BY <1>0, <3>1
        <3>3. dispatcher'[p].booking = c
            BY <1>0, <1>9, <2>1, <3>1 DEF Claim, Hands
        <3>4. CASE b = c
            <4>1. \A q \in Dispatchers : ~Held(q, b)
                BY <1>4, <2>2, <3>1, <3>4
            <4>2. \A q \in Dispatchers : Held(q, b)' => q = p
                BY <3>2, <4>1 DEF Held
            <4>3. EventsOf(b)' = EventsOf(b) /\ EventsOf(b) = {}
                BY <1>1, <2>2, <3>1, <3>4 DEF EventsOf, ClaimSafe, EventCloses
            <4>4. status'[b] = "DISPATCHING"
                BY <1>0, <3>1, <3>4
            <4>5. QED
                BY <4>2, <4>3, <4>4 DEF ClaimSafe, ClaimIsOnes, ClaimShows, EventCloses
        <3>5. CASE b # c
            <4>1. status'[b] = status[b]
                BY <1>0, <3>1, <3>5
            <4>2. \A q \in Dispatchers : Held(q, b)' => Held(q, b)
                BY <3>2, <3>3, <3>5 DEF Held
            <4>3. QED
                BY <1>2, <2>2, <4>1, <4>2
        <3>6. QED
            BY <3>4, <3>5
    <2>5. QED
        BY <2>3, <2>4
<1>10. ASSUME NEW p \in Dispatchers, ReadBack(p)
       PROVE  ClaimSafe(b)'
    <2>1. UNCHANGED <<overtaken, outbox, recalled, status>> /\ dispatcher[p].at = "claimed"
        BY <1>10 DEF ReadBack, rows
    <2>2. CASE Onward(p, FALSE)
        BY <1>0, <1>2, <2>1, <2>2, OnwardHolds
    <2>3. CASE dispatcher' = [dispatcher EXCEPT ![p].at = "read"]
        <3>1. \A q \in Dispatchers : Held(q, b)' => Held(q, b)
            BY <1>0, <2>1, <2>3 DEF Held, Hands
        <3>2. QED
            BY <1>2, <2>1, <3>1
    <2>4. QED
        BY <1>10, <2>2, <2>3 DEF ReadBack
<1>11. ASSUME NEW p \in Dispatchers, MarkDispatched(p)
       PROVE  ClaimSafe(b)'
    <2>1. PICK c \in Bookings : c = dispatcher[p].booking
        BY <1>0, <1>11, HandFields DEF MarkDispatched
    <2>2. /\ UNCHANGED <<overtaken, recalled>> /\ Held(p, c)
          /\ status' = [status EXCEPT ![c] = "DISPATCHED"]
          /\ outbox' = Append(outbox, [booking |-> c, published |-> FALSE])
          /\ \E failed \in BOOLEAN : Onward(p, failed)
        BY <1>11, <2>1 DEF MarkDispatched, Write, Held
    <2>3. EventsOf(b)' = IF b = c THEN EventsOf(b) \cup {Len(outbox) + 1} ELSE EventsOf(b)
        BY <1>0, <2>2, EventAdded
    <2>4. \A q \in Dispatchers : Held(q, b)' => q # p /\ Held(q, b)
        BY <1>0, <2>2, OnwardHolds
    <2>5. CASE b = c
        <3>1. ClaimSafe(b) /\ Held(p, b)
            BY <1>1, <2>2, <2>5
        <3>2. \A q \in Dispatchers : ~Held(q, b)'
            BY <2>4, <3>1 DEF ClaimSafe, ClaimIsOnes
        <3>3. EventsOf(b) = {}
            BY <3>1 DEF ClaimSafe, ClaimShows, EventCloses
        <3>4. status'[b] = "DISPATCHED"
            BY <1>0, <2>2, <2>5
        <3>5. QED
            BY <2>3, <2>5, <3>2, <3>3, <3>4 DEF ClaimSafe, ClaimIsOnes, ClaimShows, EventCloses
    <2>6. CASE b # c
        <3>1. status'[b] = status[b]
            BY <1>0, <2>2, <2>6
        <3>2. QED
            BY <1>1, <2>2, <2>3, <2>4, <2>6, <3>1, ClaimKeeps DEF ClaimKept
    <2>7. QED
        BY <2>5, <2>6
<1>12. ASSUME NEW p \in Dispatchers, DispatchFails(p)
       PROVE  ClaimSafe(b)'
    <2>1. PICK c \in Bookings : c = dispatcher[p].booking
        BY <1>0, <1>12, HandFields DEF DispatchFails
    <2>2. /\ UNCHANGED <<outbox, recalled>> /\ overtaken \subseteq overtaken'
          /\ Onward(p, TRUE)
          /\ (\E q \in Dispatchers \ {p} : Held(q, c)) => c \in overtaken'
          /\ \/ status' = status
             \/ /\ status[c] = "DISPATCHING"
                /\ status' = [status EXCEPT ![c] = "SCHEDULED"]
        BY <1>12, <2>1 DEF DispatchFails, Write, Held
    <2>3. \A q \in Dispatchers : Held(q, b)' => q # p /\ Held(q, b)
        BY <1>0, <2>2, OnwardHolds
    <2>4. CASE b = c
        <3>1. \A q \in Dispatchers : ~Held(q, b)'
            BY <2>2, <2>3, <2>4
        <3>2. QED
            BY <1>0, <1>2, <2>2, <2>4, <3>1
    <2>5. CASE b # c
        BY <1>0, <1>2, <2>2, <2>3, <2>5
    <2>6. QED
        BY <2>4, <2>5
<1>13. ASSUME NEW p \in Dispatchers, ScanReleases(p)
       PROVE  ClaimSafe(b)'
    <2>1. /\ UNCHANGED <<outbox, recalled>> /\ overtaken \subseteq overtaken'
          /\ Stuck(b) => \A q \in Dispatchers : ~Held(q, b)
          /\ status'[b] = IF Stuck(b) THEN "SCHEDULED" ELSE status[b]
          /\ dispatcher' = [dispatcher EXCEPT ![p].at = "released"]
        BY <1>13 DEF ScanReleases, Held
    <2>2. \A q \in Dispatchers : Held(q, b)' => Held(q, b)
        BY <1>0, <2>1 DEF Held, Hands
    <2>3. CASE Stuck(b)
        BY <1>2, <2>1, <2>2, <2>3 DEF Stuck
    <2>4. CASE ~Stuck(b)
        BY <1>2, <2>1, <2>2, <2>4
    <2>5. QED
        BY <2>3, <2>4
<1>14. ASSUME NEW p \in Dispatchers, ScanExpires(p)
       PROVE  ClaimSafe(b)'
    <2>1. /\ UNCHANGED <<outbox, recalled, overtaken>>
          /\ status'[b] = status[b] \/ status[b] = "SCHEDULED"
          /\ dispatcher' = [dispatcher EXCEPT ![p].at = "expired"]
        BY <1>14 DEF ScanExpires
    <2>2. \A q \in Dispatchers : Held(q, b)' => Held(q, b)
        BY <1>0, <2>1 DEF Held, Hands
    <2>3. CASE status[b] = "SCHEDULED"
        BY <1>2, <1>4, <2>1, <2>2, <2>3
    <2>4. QED
        BY <1>2, <2>1, <2>2, <2>3
<1>15. ASSUME NEW p \in Dispatchers, ScanFinds(p)
       PROVE  ClaimSafe(b)'
    <2>1. /\ UNCHANGED <<outbox, recalled, overtaken, status>>
          /\ dispatcher'[p].at \in {"idle", "list"}
          /\ \A q \in Dispatchers : q # p => dispatcher'[q] = dispatcher[q]
        BY <1>0, <1>15, IdleHand DEF ScanFinds, rows
    <2>2. QED
        BY <1>2, <2>1 DEF Held
<1>16. CASE RideServiceDies
    <2>1. /\ UNCHANGED <<outbox, recalled, overtaken, status>>
          /\ \A q \in Dispatchers : dispatcher'[q].at = "idle"
        BY <1>16, IdleHand DEF RideServiceDies, rows
    <2>2. QED
        BY <1>2, <2>1 DEF Held
<1>17. CASE PollMarks
    <2>1. UNCHANGED <<recalled, overtaken, status, dispatcher>>
        BY <1>17 DEF PollMarks, rows
    <2>2. EventsOf(b)' = EventsOf(b)
        BY <1>0, <1>17, EventsMarked
    <2>3. QED
        BY <1>1, <2>1, <2>2, ClaimKeeps DEF ClaimKept, Held
<1>18. CASE PollReads \/ PollSends \/ GatewayDies \/ UNCHANGED vars
    BY <1>3, <1>18 DEF PollReads, PollSends, GatewayDies, vars, rows
<1>19. QED
    BY <1>5, <1>6, <1>7, <1>8, <1>9, <1>10, <1>11, <1>12, <1>13, <1>14, <1>15, <1>16,
       <1>17, <1>18 DEF Next

LEMMA InitClaimInv == Init => ClaimInv
<1> SUFFICES ASSUME Init, NEW b \in Bookings
             PROVE  ClaimSafe(b)
    BY DEF ClaimInv
<1>1. \A p \in Dispatchers : ~Held(p, b)
    BY IdleHand DEF Init, Held
<1>2. EventsOf(b) = {}
    <2>1. Len(outbox) = 0
        BY DEF Init
    <2>2. QED
        BY <2>1 DEF EventsOf
<1>3. QED
    BY <1>1, <1>2 DEF ClaimSafe, ClaimIsOnes, ClaimShows, EventCloses

(* At most one event means at most one live ride. *)
LEMMA OneEvent ==
    ASSUME TypeOK, NEW b \in Bookings, ClaimSafe(b)
    PROVE  Cardinality(EventsOf(b)) <= 1
<1>1. CASE EventsOf(b) = {}
    BY <1>1, FS_EmptySet
<1>2. CASE EventsOf(b) # {}
    <2>1. PICK i \in EventsOf(b) : EventsOf(b) = {i}
        BY <1>2 DEF ClaimSafe, EventCloses
    <2>2. QED
        BY <2>1, FS_Singleton
<1>3. QED
    BY <1>1, <1>2

(* A booking becomes one live ride, for every number of runners and        *)
(* scanners that race for it, transactions that fail, commits whose answer *)
(* is lost and deaths of ride-service and of the gateway, unless its claim *)
(* was taken back from a dispatcher at work.                               *)
THEOREM OneLiveRide == Spec => []DispatchedOnce
<1>1. TypeInv /\ ClaimInv => DispatchedOnce
    <2> SUFFICES ASSUME TypeInv, ClaimInv, NEW b \in Bookings \ overtaken
                 PROVE  Cardinality(EventsOf(b)) <= 1
        BY DEF DispatchedOnce, EventsOf
    <2>1. TypeOK /\ ClaimSafe(b)
        BY DEF TypeInv, ClaimInv
    <2>2. QED
        BY <2>1, OneEvent
<1>2. TypeInv /\ ClaimInv /\ [Next]_vars => (TypeInv /\ ClaimInv)'
    BY NextTypeInv, NextClaim
<1>3. QED
    BY <1>1, <1>2, InitTypeInv, InitClaimInv, PTL DEF Spec
-----------------------------------------------------------------------------
(***************************************************************************)
(* Cashback                                                                *)
(***************************************************************************)
(* The row moves on, and the cashback usage stays what it is. *)
CashKept(b) ==
    /\ cashback'[b] = cashback[b] /\ requested'[b] = requested[b]
    /\ \/ status'[b] = status[b]
       \/ /\ status[b] \in {"SCHEDULED", "DISPATCHING"}
          /\ status'[b] \in {"SCHEDULED", "DISPATCHING", "CANCELLED", "EXPIRED"}
    /\ b \in cancelling' => b \in cancelling \/ status'[b] = "CANCELLED"

LEMMA CashKeeps ==
    ASSUME NEW b \in Bookings, CashSafe(b), CashKept(b)
    PROVE  CashSafe(b)'
<1>1. CashbackStays(b)'
    BY DEF CashSafe, CashKept, CashbackStays
<1>2. CashbackFollows(b)'
    BY DEF CashSafe, CashKept, CashbackStays, CashbackFollows
<1>3. QED
    BY <1>1, <1>2 DEF CashSafe

LEMMA NextCash ==
    ASSUME TypeInv, ClaimInv, CashInv, [Next]_vars
    PROVE  CashInv'
<1> SUFFICES ASSUME NEW b \in Bookings,
                    b \notin overtaken', b \notin recalled', b \notin unanswered'
             PROVE  CashSafe(b)'
    BY DEF CashInv
<1>0. /\ TypeOK /\ status \in [Bookings -> Statuses]
      /\ cashback \in [Bookings -> [status : Cashbacks, ride : 0..Len(outbox)]]
      /\ requested \in [Bookings -> 0..Len(outbox)]
    BY DEF TypeInv, TypeOK
<1>1. ASSUME overtaken \subseteq overtaken', recalled \subseteq recalled',
             unanswered \subseteq unanswered'
      PROVE  CashSafe(b)
    BY <1>1 DEF CashInv
<1>2. ASSUME overtaken \subseteq overtaken', recalled \subseteq recalled',
             unanswered \subseteq unanswered', CashKept(b)
      PROVE  CashSafe(b)'
    BY <1>1, <1>2, CashKeeps
<1>3. ASSUME UNCHANGED <<overtaken, recalled, unanswered, status, requested, cashback>>,
             cancelling' \subseteq cancelling
      PROVE  CashSafe(b)'
    BY <1>2, <1>3 DEF CashKept
<1>4. ASSUME NEW c \in Bookings, Schedule(c)
      PROVE  CashSafe(b)'
    <2>1. /\ UNCHANGED <<overtaken, recalled, unanswered, requested, cashback, cancelling>>
          /\ status[c] = "NONE" /\ status' = [status EXCEPT ![c] = "SCHEDULED"]
        BY <1>4 DEF Schedule, Unmade, Write
    <2>2. CashSafe(b)
        BY <1>1, <2>1
    <2>3. CASE b = c
        <3>1. status[b] = "NONE" /\ status'[b] = "SCHEDULED" /\ b \notin cancelling'
            BY <1>0, <2>1, <2>2, <2>3 DEF CashSafe, CashbackStays
        <3>2. QED
            BY <2>1, <2>2, <3>1 DEF CashSafe, CashbackStays, CashbackFollows
    <2>4. CASE b # c
        BY <1>0, <1>2, <2>1, <2>4 DEF CashKept
    <2>5. QED
        BY <2>3, <2>4
<1>4a. ASSUME NEW c \in Bookings, ScheduleFails(c)
       PROVE  CashSafe(b)'
    <2>1. /\ UNCHANGED <<overtaken, recalled, requested, cashback>>
          /\ unanswered' = unanswered \cup {c}
          /\ cancelling' \subseteq cancelling \cup {c}
          /\ status' = status \/ status' = [status EXCEPT ![c] = "SCHEDULED"]
        BY <1>4a DEF ScheduleFails, Write
    <2>2. b # c
        BY <2>1
    <2>3. QED
        BY <1>0, <1>2, <2>1, <2>2 DEF CashKept
<1>4b. ASSUME NEW c \in Bookings, Reserve(c)
       PROVE  CashSafe(b)'
    <2>1. /\ UNCHANGED <<overtaken, recalled, unanswered, requested, status, cancelling>>
          /\ status[c] = "NONE"
          /\ cashback' = [cashback EXCEPT ![c].status = "RESERVED"]
        BY <1>4b DEF Reserve, Unmade, rows
    <2>2. CashSafe(b)
        BY <1>1, <2>1
    <2>3. CASE b = c
        <3>1. cashback'[b].ride = cashback[b].ride /\ cashback'[b].status = "RESERVED"
            BY <1>0, <2>1, <2>3
        <3>2. QED
            BY <2>1, <2>2, <2>3, <3>1 DEF CashSafe, CashbackStays, CashbackFollows
    <2>4. CASE b # c
        BY <1>0, <1>2, <2>1, <2>4 DEF CashKept
    <2>5. QED
        BY <2>3, <2>4
<1>5. ASSUME NEW c \in Bookings, Cancel(c)
      PROVE  CashSafe(b)'
    <2>1. /\ UNCHANGED <<overtaken, unanswered, requested, cashback>> /\ recalled \subseteq recalled'
          /\ cancelling' = cancelling \cup {c}
          /\ status[c] \in {"SCHEDULED", "DISPATCHING"}
          /\ status' = [status EXCEPT ![c] = "CANCELLED"]
        BY <1>5 DEF Cancel, Write
    <2>2. CashKept(b)
        BY <1>0, <2>1 DEF CashKept
    <2>3. QED
        BY <1>2, <2>1, <2>2
<1>6. ASSUME NEW c \in Bookings, CancelReleases(c)
      PROVE  CashSafe(b)'
    <2>1. /\ UNCHANGED <<overtaken, recalled, unanswered, status, requested>>
          /\ c \in cancelling /\ cancelling' = cancelling \ {c}
          /\ cashback' \in {cashback, [cashback EXCEPT ![c].status = "RELEASED"]}
        BY <1>6 DEF CancelReleases, ReleaseCashback, rows
    <2>2. CashSafe(b)
        BY <1>1, <2>1
    <2>3. CASE b = c
        <3>1. status[b] = "CANCELLED"
            BY <2>1, <2>2, <2>3 DEF CashSafe, CashbackStays
        <3>2. cashback'[b] = cashback[b] \/ cashback'[b].ride = cashback[b].ride
            BY <1>0, <2>1, <2>3
        <3>3. CASE cashback' = cashback
            BY <2>1, <2>2, <3>1, <3>3 DEF CashSafe, CashbackStays, CashbackFollows
        <3>4. CASE cashback' = [cashback EXCEPT ![c].status = "RELEASED"]
            <4>1. cashback[b] = [status |-> "RESERVED", ride |-> 0] \/ cashback' = cashback
                BY <1>6, <2>3 DEF CancelReleases, ReleaseCashback
            <4>2. cashback[b].ride = 0 => cashback'[b].ride = 0
                BY <3>2
            <4>3. QED
                BY <2>1, <2>2, <3>1, <3>3, <4>1, <4>2 DEF CashSafe, CashbackStays, CashbackFollows
        <3>5. QED
            BY <2>1, <3>3, <3>4
    <2>4. CASE b # c
        BY <1>0, <1>2, <2>1, <2>4 DEF CashKept
    <2>5. QED
        BY <2>3, <2>4
<1>7. ASSUME NEW p \in Dispatchers, Claim(p)
      PROVE  CashSafe(b)'
    <2>1. UNCHANGED <<overtaken, recalled, unanswered, requested, cashback, cancelling>>
        BY <1>7 DEF Claim
    <2>2. PICK c \in Bookings : c = dispatcher[p].booking
        BY <1>0, <1>7, HandFields DEF Claim
    <2>3. CASE Claimable(c)
        <3>1. status[c] = "SCHEDULED" /\ status' = [status EXCEPT ![c] = "DISPATCHING"]
            BY <1>7, <2>2, <2>3 DEF Claim, Claimable, Write
        <3>2. CashKept(b)
            BY <1>0, <2>1, <3>1 DEF CashKept
        <3>3. QED
            BY <1>2, <2>1, <3>2
    <2>4. CASE ~Claimable(c)
        <3>1. status' = status
            BY <1>7, <2>2, <2>4 DEF Claim
        <3>2. QED
            BY <1>3, <2>1, <3>1
    <2>5. QED
        BY <2>3, <2>4
<1>8. ASSUME NEW p \in Dispatchers, MarkDispatched(p)
      PROVE  CashSafe(b)'
    <2>1. PICK c \in Bookings : c = dispatcher[p].booking
        BY <1>0, <1>8, HandFields DEF MarkDispatched
    <2> DEFINE ride == Len(outbox) + 1
    <2>2. /\ UNCHANGED <<overtaken, recalled, unanswered, cancelling>> /\ Held(p, c)
          /\ status' = [status EXCEPT ![c] = "DISPATCHED"]
          /\ requested' = [requested EXCEPT ![c] = ride]
          /\ MoveCashback(c, ride)
        BY <1>8, <2>1 DEF MarkDispatched, Write, Held
    <2> HIDE DEF ride
    <2>3. CashSafe(b) /\ ClaimSafe(b)
        BY <1>1, <2>2 DEF ClaimInv
    <2>4. CASE b = c
        <3>1. status[b] = "DISPATCHING"
            BY <2>2, <2>3, <2>4 DEF ClaimSafe, ClaimShows
        <3>2. /\ cashback[b].ride = 0 /\ cashback[b].status \in {"NONE", "RESERVED"}
              /\ b \notin cancelling
            BY <1>0, <2>3, <3>1 DEF CashSafe, CashbackStays, Cashbacks
        <3>3. status'[b] = "DISPATCHED" /\ requested'[b] = ride
            BY <1>0, <2>2, <2>4
        <3>4. cashback'[b].status # "NONE" =>
                  cashback'[b] = [status |-> "RESERVED", ride |-> ride]
            <4>1. CASE cashback[b].status = "RESERVED"
                <5>1. cashback[b] = [status |-> "RESERVED", ride |-> 0]
                    BY <1>0, <3>2, <4>1
                <5>2. cashback' = [cashback EXCEPT ![b].ride = ride]
                    BY <2>2, <2>4, <5>1 DEF MoveCashback
                <5>3. cashback'[b] = [cashback[b] EXCEPT !.ride = ride]
                    BY <1>0, <5>2
                <5>4. QED
                    BY <5>1, <5>3
            <4>2. CASE cashback[b].status = "NONE"
                <5>1. cashback' = cashback
                    BY <2>2, <2>4, <4>2 DEF MoveCashback
                <5>2. QED
                    BY <4>2, <5>1
            <4>3. QED
                BY <3>2, <4>1, <4>2
        <3>5. QED
            BY <2>2, <3>2, <3>3, <3>4 DEF CashSafe, CashbackStays, CashbackFollows
    <2>5. CASE b # c
        <3>1. cashback'[b] = cashback[b]
            BY <1>0, <2>2, <2>5 DEF MoveCashback
        <3>2. CashKept(b)
            BY <1>0, <2>2, <2>5, <3>1 DEF CashKept
        <3>3. QED
            BY <1>2, <2>2, <3>2
    <2>6. QED
        BY <2>4, <2>5
<1>9. ASSUME NEW p \in Dispatchers, DispatchFails(p)
      PROVE  CashSafe(b)'
    <2>1. PICK c \in Bookings : c = dispatcher[p].booking
        BY <1>0, <1>9, HandFields DEF DispatchFails
    <2>2. /\ UNCHANGED <<recalled, unanswered, requested, cashback, cancelling>>
          /\ overtaken \subseteq overtaken'
          /\ \/ status' = status
             \/ /\ status[c] = "DISPATCHING"
                /\ status' = [status EXCEPT ![c] = "SCHEDULED"]
        BY <1>9, <2>1 DEF DispatchFails, Write
    <2>3. CashKept(b)
        BY <1>0, <2>2 DEF CashKept
    <2>4. QED
        BY <1>2, <2>2, <2>3
<1>10. ASSUME NEW p \in Dispatchers, ScanReleases(p) \/ ScanExpires(p)
       PROVE  CashSafe(b)'
    <2>1. /\ UNCHANGED <<recalled, unanswered, requested, cashback, cancelling>>
          /\ overtaken \subseteq overtaken'
          /\ \/ status'[b] = status[b]
             \/ /\ status[b] \in {"SCHEDULED", "DISPATCHING"}
                /\ status'[b] \in {"SCHEDULED", "EXPIRED"}
        BY <1>10 DEF ScanReleases, ScanExpires, Stuck
    <2>2. QED
        BY <1>2, <2>1 DEF CashKept
<1>11. ASSUME NEW p \in Dispatchers, ReadBack(p) \/ ScanFinds(p)
       PROVE  CashSafe(b)'
    BY <1>3, <1>11 DEF ReadBack, ScanFinds, rows
<1>12. ASSUME NEW c \in Bookings, Tick(c) \/ MinutePasses(c)
       PROVE  CashSafe(b)'
    BY <1>3, <1>12 DEF Tick, MinutePasses, rows
<1>13. ASSUME NEW p \in Dispatchers, NEW c \in Bookings, JobStarts(p, c) \/ ScanTakes(p, c)
       PROVE  CashSafe(b)'
    BY <1>3, <1>13 DEF JobStarts, ScanTakes, rows
<1>14. CASE RideServiceDies \/ GatewayDies
    BY <1>3, <1>14 DEF RideServiceDies, GatewayDies, rows
<1>15. CASE PollReads \/ PollSends \/ PollMarks \/ UNCHANGED vars
    BY <1>3, <1>15 DEF PollReads, PollSends, PollMarks, vars, rows
<1>16. QED
    BY <1>4, <1>5, <1>6, <1>7, <1>8, <1>9, <1>10, <1>11, <1>12, <1>13, <1>14, <1>15, <1>4a,
       <1>4b DEF Next

LEMMA InitCashInv == Init => CashInv
BY DEF Init, CashInv, CashSafe, CashbackStays, CashbackFollows

(* A live ride asked for at a discounted fare has its rider's cashback     *)
(* reserved under its own id, and a booking cancelled or expired has none  *)
(* moved, whoever fails or dies in between, unless the rider cancelled     *)
(* under a dispatcher, its claim was taken back, or it was made by a call  *)
(* that was told it failed.                                                *)
THEOREM CashbackWithRide == Spec => []CashbackFollowsRide
<1>1. IInv => CashbackFollowsRide
    BY DEF IInv, CashInv, CashSafe, CashbackFollows, CashbackFollowsRide
<1>2. Init => IInv
    BY InitTypeInv, InitClaimInv, InitCashInv DEF IInv
<1>3. IInv /\ [Next]_vars => IInv'
    BY NextTypeInv, NextClaim, NextCash DEF IInv
<1>4. QED
    BY <1>1, <1>2, <1>3, PTL DEF Spec

-----------------------------------------------------------------------------
(***************************************************************************)
(* The WhatsApp conversation.  ConversationInv says, of the handlers in    *)
(* progress, the keys and the rows, that a fare in somebody's hands was    *)
(* listed (FareInv), a withdrawal form was prompted (BankInv), a route     *)
(* that is planned, booked or agreed on has its number (BookedInv), and,   *)
(* as long as the places of a seat were not changed under another message, *)
(* that the seat was quoted (SeatInv).                                     *)
(***************************************************************************)
BatchListed ==
    /\ DOMAIN batch = Rides
    /\ \A r \in Rides : \A bid \in Range(batch[r]) : [ride |-> r, bid |-> bid] \in listed

FareInv ==
    /\ BatchListed
    /\ accept # None => accept \in listed
    /\ \A w \in Webhooks : at[w].step \in {"choose", "held"} => at[w].item \in listed
    /\ FareWasListed

-----------------------------------------------------------------------------
(* What a form has shown, is about to show, or is excepted from being so.  *)
Forms == [amount : Amounts, bank : Banks \cup {None}, account : Accounts \cup {None}]
Announced == prompted \cup OnTheirWay \cup unseen
Seen(form) == form.account # None => Details(form) \in Announced

PendingSeen == pending # None => pending \in Forms /\ Seen(pending)

FormInHand(w) ==
    /\ at[w].step \in {"bank", "account"} => at[w].item \in Forms
    /\ at[w].step \in {"submit", "submitting"} => Details(at[w].item) \in Announced

BankInv == PendingSeen /\ (\A w \in Webhooks : FormInHand(w)) /\ SubmittedAsShown

-----------------------------------------------------------------------------
RidesKnown ==
    /\ \A w \in Webhooks : at[w].ride \in Rides \cup {None}
    /\ active \in Rides \cup {None}

RouteKeys ==
    /\ route # None => route.id \in quoted
    /\ lastRoute # None => lastRoute \in quoted

RowsBooked ==
    /\ DOMAIN row = Rides /\ DOMAIN booked = Rides
    /\ \A r \in Rides : IF row[r] = "none" THEN booked[r] = 0 ELSE booked[r] \in quoted

MetaKnown == meta \subseteq Rides /\ \A r \in meta : row[r] # "none"

RouteInHand(w) ==
    /\ at[w].step \in {"quote", "quote priced", "replan", "requote"} => at[w].item.id \in Nat
    /\ at[w].step = "book" => at[w].item.id \in quoted
    /\ at[w].step = "enter" => at[w].item.ride \in Rides /\ row[at[w].item.ride] # "none"
    /\ at[w].step = "counter" => at[w].ride \in Rides /\ row[at[w].ride] # "none"

BookedInv ==
    /\ RidesKnown /\ RouteKeys /\ RowsBooked /\ MetaKnown
    /\ planned \in Nat /\ quoted \subseteq Nat
    /\ \A w \in Webhooks : RouteInHand(w)

-----------------------------------------------------------------------------
SeatStatuses == {"PENDING", "READY", "GROUPED", "CANCELLED"}
Seats == [status : SeatStatuses, trip : Nat, fare : Int]
SeatPlans == [pickup : BOOLEAN, dest : BOOLEAN, trip : Nat, fare : Int,
              request : 0..Len(pool), tries : Nat]

GroupKeys ==
    /\ group # None => group \in SeatPlans
    /\ pool \in Seq(Seats) /\ asker \in 0..Len(pool)

GroupHand(w) ==
    /\ at[w].step \in {"plan seat", "asked", "judge"} => at[w].item \in SeatPlans
    /\ at[w].step = "judge" => at[w].item # None
    /\ at[w].step = "convert" => at[w].item \in Nat
    /\ at[w].step = "store" => at[w].item \in 0..Len(pool)
    /\ at[w].step \in {"locate", "plan seat"} => Placing(at[w])
    /\ at[w].step = "locate" => at[w].stage \in GroupPlaces
    /\ at[w].step \in {"ask", "asked", "judge", "store"} => Answering(at[w])

GroupsKnown == GroupKeys /\ \A w \in Webhooks : GroupHand(w)

Asking == {"group_awaiting_confirm", "group_awaiting_face_photo"}
Shown(seat) == seat.trip \in quoted /\ seat.fare \in {seat.trip, Own}
ShownIfPlaced(plan) == Placed(plan) => Shown(plan)

Apart ==
    \A v, w \in Webhooks :
       v # w /\ Placing(at[v]) => ~Placing(at[w]) /\ ~Answering(at[w])

GroupShown ==
    \/ ShownIfPlaced(group)
    \/ stage \notin Asking /\ \A w \in Webhooks : ~Answering(at[w])

SeatHand(w) ==
    /\ at[w].step \in {"asked", "judge"} => ShownIfPlaced(at[w].item)
    /\ Placing(at[w]) /\ at[w].stage \notin Asking => stage \notin Asking

SeatsShown == \A q \in DOMAIN pool : Shown(pool[q])

SeatInv == Apart /\ GroupShown /\ SeatsShown /\ \A w \in Webhooks : SeatHand(w)

SeatInvariant == ~crossed => SeatInv

-----------------------------------------------------------------------------
(* What a message does to the handlers *)

Untouched(w) == \A v \in Webhooks : v # w => at'[v] = at[v]

(* The handler w finishes or goes to one of the steps. *)
Goes(w, steps) ==
    \/ Finish(w)
    \/ \E step, item : step \in steps /\ Continue(w, step, item)

(* The webhook's actions, by what they are about *)
Chatting(w) ==
    \/ Fails(w) \/ AskReason(w) \/ CancelReason(w) \/ CancelBooking(w) \/ PickupNamed(w)
    \/ SessionExpired(w) \/ NotConfirmed(w)
Booking(w) ==
    \/ PlanTrip(w) \/ Quote(w) \/ QuotePriced(w) \/ AskEdit(w) \/ PlanEdit(w)
    \/ CancelEdited(w) \/ Requote(w) \/ Decide(w) \/ (\E r \in Rides : Book(w, r)) \/ Enter(w)
Bidding(w) ==
    \/ Choose(w) \/ Chosen(w) \/ Pay(w) \/ Paid(w) \/ More(w) \/ Counter(w) \/ Countered(w)
Banking(w) ==
    \/ Withdraw(w) \/ EndWithdrawal(w) \/ GiveAmount(w) \/ AskBank(w) \/ BankAnswers(w)
    \/ MovesOn(w) \/ SendForm(w) \/ ConfirmWithdrawal(w) \/ Lock(w) \/ Submit(w) \/ Submitted(w)

LEMMA WebhookKinds ==
    ASSUME NEW w \in Webhooks, Webhook(w)
    PROVE  Receive(w) \/ Chatting(w) \/ Booking(w) \/ Bidding(w) \/ Banking(w)
BY DEF Webhook, Chatting, Booking, Bidding, Banking

BookingSteps == {"quote", "quote priced", "replan", "requote", "book", "enter"}
BiddingSteps == {"choose", "held", "counter"}
BankSteps == {"bank", "account", "named", "verified", "form", "submit", "submitting", "submitted"}
GroupSteps == {"locate", "plan seat", "ask", "asked", "store", "judge", "leave", "left",
               "convert"}

LEMMA ChattingGoes ==
    ASSUME NEW w \in Webhooks, Chatting(w)  PROVE Finish(w)
BY DEF Chatting, Fails, AskReason, CancelReason, CancelBooking, PickupNamed, SessionExpired,
       NotConfirmed

LEMMA ToBookingStep ==
    ASSUME NEW w, NEW item
    PROVE  /\ Continue(w, "quote", item) => Goes(w, BookingSteps)
           /\ Continue(w, "quote priced", item) => Goes(w, BookingSteps)
           /\ Continue(w, "replan", item) => Goes(w, BookingSteps)
           /\ Continue(w, "requote", item) => Goes(w, BookingSteps)
           /\ Continue(w, "book", item) => Goes(w, BookingSteps)
           /\ Continue(w, "enter", item) => Goes(w, BookingSteps)
<1>1. ASSUME NEW step, step \in BookingSteps, Continue(w, step, item)  PROVE Goes(w, BookingSteps)
  BY <1>1, Zenon DEF Goes
<1>2. QED  BY <1>1 DEF BookingSteps

LEMMA ToBiddingStep ==
    ASSUME NEW w, NEW item
    PROVE  /\ Continue(w, "choose", item) => Goes(w, BiddingSteps)
           /\ Continue(w, "held", item) => Goes(w, BiddingSteps)
           /\ Continue(w, "counter", item) => Goes(w, BiddingSteps)
<1>1. ASSUME NEW step, step \in BiddingSteps, Continue(w, step, item)  PROVE Goes(w, BiddingSteps)
  BY <1>1, Zenon DEF Goes
<1>2. QED  BY <1>1 DEF BiddingSteps

LEMMA ToBankStep ==
    ASSUME NEW w, NEW item
    PROVE  /\ Continue(w, "bank", item) => Goes(w, BankSteps)
           /\ Continue(w, "account", item) => Goes(w, BankSteps)
           /\ Continue(w, "named", item) => Goes(w, BankSteps)
           /\ Continue(w, "verified", item) => Goes(w, BankSteps)
           /\ Continue(w, "form", item) => Goes(w, BankSteps)
           /\ Continue(w, "submit", item) => Goes(w, BankSteps)
           /\ Continue(w, "submitting", item) => Goes(w, BankSteps)
           /\ Continue(w, "submitted", item) => Goes(w, BankSteps)
<1>1. ASSUME NEW step, step \in BankSteps, Continue(w, step, item)  PROVE Goes(w, BankSteps)
  BY <1>1, Zenon DEF Goes
<1>2. QED  BY <1>1 DEF BankSteps

LEMMA ToGroupStep ==
    ASSUME NEW w, NEW item
    PROVE  /\ Continue(w, "locate", item) => Goes(w, GroupSteps)
           /\ Continue(w, "plan seat", item) => Goes(w, GroupSteps)
           /\ Continue(w, "ask", item) => Goes(w, GroupSteps)
           /\ Continue(w, "asked", item) => Goes(w, GroupSteps)
           /\ Continue(w, "store", item) => Goes(w, GroupSteps)
           /\ Continue(w, "judge", item) => Goes(w, GroupSteps)
           /\ Continue(w, "leave", item) => Goes(w, GroupSteps)
           /\ Continue(w, "left", item) => Goes(w, GroupSteps)
           /\ Continue(w, "convert", item) => Goes(w, GroupSteps)
<1>1. ASSUME NEW step, step \in GroupSteps, Continue(w, step, item)  PROVE Goes(w, GroupSteps)
  BY <1>1, Zenon DEF Goes
<1>2. QED  BY <1>1 DEF GroupSteps

LEMMA GoesOut ==
    ASSUME NEW w, NEW steps, Finish(w)  PROVE Goes(w, steps)
BY DEF Goes

LEMMA BookingGoes ==
    ASSUME NEW w \in Webhooks, Booking(w)  PROVE Goes(w, BookingSteps)
<1>1. CASE PlanTrip(w)
  BY <1>1, ToBookingStep, GoesOut DEF PlanTrip, Plans
<1>2. CASE Quote(w)
  BY <1>2, ToBookingStep, GoesOut DEF Quote
<1>3. CASE QuotePriced(w)
  BY <1>3, ToBookingStep, GoesOut DEF QuotePriced
<1>4. CASE AskEdit(w)
  BY <1>4, ToBookingStep, GoesOut DEF AskEdit
<1>5. CASE PlanEdit(w)
  BY <1>5, ToBookingStep, GoesOut DEF PlanEdit, Plans
<1>6. CASE CancelEdited(w)
  BY <1>6, ToBookingStep, GoesOut DEF CancelEdited
<1>7. CASE Requote(w)
  BY <1>7, ToBookingStep, GoesOut DEF Requote
<1>8. CASE Decide(w)
  BY <1>8, ToBookingStep, GoesOut DEF Decide
<1>9. CASE \E r \in Rides : Book(w, r)
  BY <1>9, ToBookingStep, GoesOut DEF Book
<1>10. CASE Enter(w)
  BY <1>10, ToBookingStep, GoesOut DEF Enter
<1>11. QED
  BY Booking(w), <1>1, <1>2, <1>3, <1>4, <1>5, <1>6, <1>7, <1>8, <1>9, <1>10
     DEF Booking

LEMMA BiddingGoes ==
    ASSUME NEW w \in Webhooks, Bidding(w)  PROVE Goes(w, BiddingSteps)
<1>1. CASE Choose(w)
  BY <1>1, ToBiddingStep, GoesOut DEF Choose
<1>2. CASE Chosen(w)
  BY <1>2, ToBiddingStep, GoesOut DEF Chosen
<1>3. CASE Pay(w)
  BY <1>3, ToBiddingStep, GoesOut DEF Pay
<1>4. CASE Paid(w)
  BY <1>4, ToBiddingStep, GoesOut DEF Paid
<1>5. CASE More(w)
  BY <1>5, ToBiddingStep, GoesOut DEF More
<1>6. CASE Counter(w)
  BY <1>6, ToBiddingStep, GoesOut DEF Counter
<1>7. CASE Countered(w)
  BY <1>7, ToBiddingStep, GoesOut DEF Countered
<1>8. QED
  BY Bidding(w), <1>1, <1>2, <1>3, <1>4, <1>5, <1>6, <1>7 DEF Bidding

LEMMA BankingGoes ==
    ASSUME NEW w \in Webhooks, Banking(w)  PROVE Goes(w, BankSteps)
<1>1. CASE Withdraw(w)
  BY <1>1, ToBankStep, GoesOut DEF Withdraw
<1>2. CASE EndWithdrawal(w)
  BY <1>2, ToBankStep, GoesOut DEF EndWithdrawal
<1>3. CASE GiveAmount(w)
  BY <1>3, ToBankStep, GoesOut DEF GiveAmount
<1>4. CASE AskBank(w)
  BY <1>4, ToBankStep, GoesOut DEF AskBank
<1>5. CASE BankAnswers(w)
  BY <1>5, ToBankStep, GoesOut DEF BankAnswers
<1>6. CASE ConfirmWithdrawal(w)
  BY <1>6, ToBankStep, GoesOut DEF ConfirmWithdrawal
<1>7. CASE Lock(w)
  BY <1>7, ToBankStep, GoesOut DEF Lock
<1>8. CASE Submit(w)
  BY <1>8, ToBankStep, GoesOut DEF Submit
<1>9. CASE Submitted(w)
  BY <1>9, ToBankStep, GoesOut DEF Submitted
<1>10. CASE MovesOn(w)
  BY <1>10, ToBankStep, GoesOut DEF MovesOn
<1>11. CASE SendForm(w)
  BY <1>11, ToBankStep, GoesOut DEF SendForm
<1>12. QED
  BY Banking(w), <1>1, <1>2, <1>3, <1>4, <1>5, <1>6, <1>7, <1>8, <1>9, <1>10, <1>11 DEF
     Banking

LEMMA GroupGoes ==
    ASSUME NEW w \in Webhooks, GroupWebhook(w)  PROVE Goes(w, GroupSteps)
<1>1. CASE StartGroup(w)
  BY <1>1, ToGroupStep, GoesOut DEF StartGroup, Place
<1>2. CASE ShareQuote(w)
  BY <1>2, ToGroupStep, GoesOut DEF ShareQuote
<1>3. CASE NamePlace(w)
  BY <1>3, ToGroupStep, GoesOut DEF NamePlace
<1>4. CASE Locate(w)
  BY <1>4, ToGroupStep, GoesOut DEF Locate, Place
<1>5. CASE QuoteSeat(w)
  BY <1>5, ToGroupStep, GoesOut DEF QuoteSeat
<1>6. CASE ConfirmSeat(w)
  BY <1>6, ToGroupStep, GoesOut DEF ConfirmSeat
<1>7. CASE AskSeat(w)
  BY <1>7, ToGroupStep, GoesOut DEF AskSeat
<1>8. CASE SeatAsked(w)
  BY <1>8, ToGroupStep, GoesOut DEF SeatAsked
<1>9. CASE CopyFails(w)
  BY <1>9, ToGroupStep, GoesOut DEF CopyFails
<1>10. CASE SendSelfie(w)
  BY <1>10, ToGroupStep, GoesOut DEF SendSelfie
<1>11. CASE JudgeSelfie(w)
  BY <1>11, ToGroupStep, GoesOut DEF JudgeSelfie
<1>12. CASE ReadySeat(w)
  BY <1>12, ToGroupStep, GoesOut DEF ReadySeat
<1>13. CASE LeaveGroup(w)
  BY <1>13, ToGroupStep, GoesOut DEF LeaveGroup
<1>14. CASE LeftGroup(w)
  BY <1>14, ToGroupStep, GoesOut DEF LeftGroup
<1>15. CASE GoNormal(w)
  BY <1>15, ToGroupStep, GoesOut DEF GoNormal
<1>16. CASE Converted(w)
  BY <1>16, ToGroupStep, GoesOut DEF Converted
<1>17. QED
  BY GroupWebhook(w), <1>1, <1>2, <1>3, <1>4, <1>5, <1>6, <1>7, <1>8, <1>9,
     <1>10, <1>11, <1>12, <1>13, <1>14, <1>15, <1>16 DEF GroupWebhook

HandlersForm ==
    at = [w \in Webhooks |-> [text |-> at[w].text, ride |-> at[w].ride, stage |-> at[w].stage,
                              item |-> at[w].item, step |-> at[w].step]]

LEMMA Finishing ==
    ASSUME HandlersForm, NEW w \in Webhooks, Finish(w)
    PROVE  HandlersForm' /\ at'[w] = Listening /\ Untouched(w)
<1>1. at' = [v \in Webhooks |-> IF v = w THEN Listening ELSE at[v]]
  BY DEF HandlersForm, Finish
<1>2. \A v \in Webhooks : at[v] = [text |-> at[v].text, ride |-> at[v].ride,
                                   stage |-> at[v].stage, item |-> at[v].item,
                                   step |-> at[v].step]
  BY DEF HandlersForm
<1>3. \A v \in Webhooks : at'[v] = [text |-> at'[v].text, ride |-> at'[v].ride,
                                    stage |-> at'[v].stage, item |-> at'[v].item,
                                    step |-> at'[v].step]
  BY <1>1, <1>2 DEF Listening
<1>4. HandlersForm'
  <2>1. at' = [v \in Webhooks |-> at'[v]]
    BY <1>1
  <2>2. QED  BY <2>1, <1>3, Zenon DEF HandlersForm
<1>5. QED  BY <1>1, <1>4 DEF Untouched

LEMMA Continuing ==
    ASSUME HandlersForm, NEW w \in Webhooks, NEW step, NEW item, Continue(w, step, item)
    PROVE  /\ HandlersForm' /\ Untouched(w)
           /\ at'[w] = [text |-> at[w].text, ride |-> at[w].ride, stage |-> at[w].stage,
                        item |-> item, step |-> step]
<1>1. \A v \in Webhooks : at[v] = [text |-> at[v].text, ride |-> at[v].ride,
                                   stage |-> at[v].stage, item |-> at[v].item,
                                   step |-> at[v].step]
  BY DEF HandlersForm
<1>2. at' = [v \in Webhooks |-> IF v = w THEN [[at[w] EXCEPT !.step = step] EXCEPT !.item = item]
                                ELSE at[v]]
  BY DEF HandlersForm, Continue
<1>3. [[at[w] EXCEPT !.step = step] EXCEPT !.item = item]
      = [text |-> at[w].text, ride |-> at[w].ride, stage |-> at[w].stage, item |-> item,
         step |-> step]
  <2>1. PICK text, ride, read, old, was :
          at[w] = [text |-> text, ride |-> ride, stage |-> read, item |-> old, step |-> was]
    BY <1>1
  <2>2. at[w].text = text /\ at[w].ride = ride /\ at[w].stage = read
    BY <2>1
  <2>3. [at[w] EXCEPT !.step = step]
        = [text |-> text, ride |-> ride, stage |-> read, item |-> old, step |-> step]
    BY <2>1
  <2>4. [[text |-> text, ride |-> ride, stage |-> read, item |-> old, step |-> step]
          EXCEPT !.item = item]
        = [text |-> text, ride |-> ride, stage |-> read, item |-> item, step |-> step]
    OBVIOUS
  <2>5. QED  BY <2>2, <2>3, <2>4, Zenon
<1>4. at'[w] = [text |-> at[w].text, ride |-> at[w].ride, stage |-> at[w].stage, item |-> item,
                step |-> step]
  BY <1>2, <1>3
<1>5. Untouched(w)
  BY <1>2 DEF Untouched
<1>6. \A v \in Webhooks : at'[v] = [text |-> at'[v].text, ride |-> at'[v].ride,
                                    stage |-> at'[v].stage, item |-> at'[v].item,
                                    step |-> at'[v].step]
  BY <1>1, <1>4, <1>5 DEF Untouched
<1>7. at' = [v \in Webhooks |-> at'[v]]
  BY <1>2
<1>8. QED  BY <1>4, <1>5, <1>6, <1>7, Zenon DEF HandlersForm

LEMMA Continues ==
    ASSUME HandlersForm, NEW w \in Webhooks, NEW step, NEW item, Continue(w, step, item)
    PROVE  /\ HandlersForm' /\ Untouched(w)
           /\ at'[w].step = step /\ at'[w].item = item
<1>1. /\ HandlersForm' /\ Untouched(w)
      /\ at'[w] = [text |-> at[w].text, ride |-> at[w].ride, stage |-> at[w].stage,
                   item |-> item, step |-> step]
  BY Continuing
<1>2. QED  BY <1>1

(* A handler that goes on has the same message; one that is done has none. *)
LEMMA Going ==
    ASSUME HandlersForm, NEW w \in Webhooks, NEW steps, Goes(w, steps)
    PROVE  /\ HandlersForm' /\ Untouched(w)
           /\ \/ at'[w] = Listening
              \/ /\ at'[w].text = at[w].text /\ at'[w].ride = at[w].ride
                 /\ at'[w].stage = at[w].stage /\ at'[w].step \in steps
<1>1. CASE Finish(w)
  BY <1>1, Finishing
<1>2. ASSUME NEW step, NEW item, step \in steps, Continue(w, step, item)
      PROVE  /\ HandlersForm' /\ Untouched(w)
             /\ at'[w].text = at[w].text /\ at'[w].ride = at[w].ride
             /\ at'[w].stage = at[w].stage /\ at'[w].step \in steps
  <2>1. /\ HandlersForm' /\ Untouched(w)
        /\ at'[w] = [text |-> at[w].text, ride |-> at[w].ride, stage |-> at[w].stage,
                     item |-> item, step |-> step]
    BY <1>2, Continuing
  <2>2. QED  BY <2>1, <1>2
<1>3. QED  BY <1>1, <1>2 DEF Goes

LEMMA Receiving ==
    ASSUME HandlersForm, NEW w \in Webhooks, Receive(w)
    PROVE  /\ HandlersForm' /\ Untouched(w)
           /\ at'[w].ride = active /\ at'[w].stage = stage /\ at'[w].step = "read"
<1>1. PICK text \in Texts[traffic] :
        at' = [at EXCEPT ![w] = [text |-> text, ride |-> active, stage |-> stage,
                                item |-> None, step |-> "read"]]
  BY DEF Receive
<1>2. \A v \in Webhooks : at[v] = [text |-> at[v].text, ride |-> at[v].ride,
                                   stage |-> at[v].stage, item |-> at[v].item,
                                   step |-> at[v].step]
  BY DEF HandlersForm
<1>3. /\ at'[w] = [text |-> text, ride |-> active, stage |-> stage, item |-> None,
                   step |-> "read"]
      /\ Untouched(w)
  BY <1>1 DEF HandlersForm, Untouched
<1>4. \A v \in Webhooks : at'[v] = [text |-> at'[v].text, ride |-> at'[v].ride,
                                    stage |-> at'[v].stage, item |-> at'[v].item,
                                    step |-> at'[v].step]
  BY <1>2, <1>3 DEF Untouched
<1>5. at' = [v \in Webhooks |-> at'[v]]
  BY <1>1 DEF HandlersForm
<1>6. HandlersForm'
  BY <1>4, <1>5, Zenon DEF HandlersForm
<1>7. QED  BY <1>3, <1>6

-----------------------------------------------------------------------------
(* Fares *)

LEMMA CleanedUp ==
    ASSUME BatchListed, NEW r, Cleanup(r), listed \subseteq listed'
    PROVE  BatchListed'
<1>1. batch' = [x \in Rides |-> IF x = r THEN <<>> ELSE batch[x]]
  BY DEF BatchListed, Cleanup
<1>2. Range(<<>>) = {}
  BY DEF Range
<1>3. QED  BY <1>1, <1>2 DEF BatchListed

LEMMA ListSent ==
    ASSUME BatchListed, NEW r \in Rides, NEW list, SendList(r, list)
    PROVE  BatchListed' /\ listed \subseteq listed'
<1>1. /\ batch' = [x \in Rides |-> IF x = r THEN list ELSE batch[x]]
      /\ listed' = listed \cup {[ride |-> r, bid |-> b] : b \in Range(list)}
  BY DEF BatchListed, SendList, Listed
<1>2. QED  BY <1>1 DEF BatchListed

LEMMA BatchStays ==
    ASSUME BatchListed, UNCHANGED <<batch, listed>>
    PROVE  BatchListed' /\ listed \subseteq listed'
BY DEF BatchListed

(* A handler's move keeps the invariant when what it writes is listed. *)
LEMMA FareByHandler ==
    ASSUME FareInv, BatchListed', listed \subseteq listed',
           accept' # None => accept' \in listed', agreed' \subseteq listed',
           NEW w \in Webhooks, Untouched(w),
           at'[w].step \in {"choose", "held"} => at'[w].item \in listed'
    PROVE  FareInv'
BY DEF FareInv, Untouched, FareWasListed

LEMMA FareElsewhere ==
    ASSUME FareInv, HandlersForm, NEW w \in Webhooks, NEW steps, Goes(w, steps),
           "choose" \notin steps, "held" \notin steps,
           UNCHANGED <<batch, listed, accept, agreed>>
    PROVE  FareInv'
<1>1. Untouched(w) /\ at'[w].step \notin {"choose", "held"}
  BY Going DEF Listening
<1>2. QED  BY <1>1, BatchStays, FareByHandler DEF FareInv, FareWasListed

(* Only the bids, a choice and a cancellation write the lists and choices. *)
LEMMA FareLeftAlone ==
    ASSUME NEW w \in Webhooks,
           \/ Banking(w) \/ GroupWebhook(w)
           \/ Fails(w) \/ AskReason(w) \/ CancelBooking(w) \/ PickupNamed(w)
           \/ SessionExpired(w) \/ NotConfirmed(w)
           \/ PlanTrip(w) \/ Quote(w) \/ QuotePriced(w) \/ AskEdit(w) \/ PlanEdit(w)
           \/ Requote(w) \/ Decide(w) \/ (\E r \in Rides : Book(w, r)) \/ Enter(w)
    PROVE  UNCHANGED <<batch, listed, accept, agreed>>
<1>1. CASE Banking(w)
  BY <1>1 DEF Banking, Withdraw, EndWithdrawal, GiveAmount, AskBank, BankAnswers,
              MovesOn, SendForm, ConfirmWithdrawal, Lock, Submit, Submitted, rideKeys, told
<1>2. CASE GroupWebhook(w)
  BY <1>2 DEF GroupWebhook, StartGroup, ShareQuote, NamePlace, Locate, QuoteSeat, ConfirmSeat,
              AskSeat, SeatAsked, CopyFails, SendSelfie, JudgeSelfie, ReadySeat, LeaveGroup,
              LeftGroup, GoNormal, Converted, elsewhere, rideKeys
<1>3. CASE Fails(w) \/ AskReason(w) \/ CancelBooking(w) \/ PickupNamed(w) \/ SessionExpired(w)
           \/ NotConfirmed(w)
  BY <1>3 DEF Fails, AskReason, CancelBooking, PickupNamed, SessionExpired, NotConfirmed,
              rideKeys, told
<1>4. CASE PlanTrip(w) \/ Quote(w) \/ QuotePriced(w) \/ AskEdit(w) \/ PlanEdit(w)
           \/ Requote(w) \/ Decide(w)
  BY <1>4 DEF PlanTrip, Quote, QuotePriced, AskEdit, PlanEdit, Requote, Decide, rideKeys, told
<1>5. CASE (\E r \in Rides : Book(w, r)) \/ Enter(w)
  BY <1>5 DEF Book, Enter, rideKeys, told
<1>6. QED  BY <1>1, <1>2, <1>3, <1>4, <1>5

LEMMA ReceivingKeepsFares ==
    ASSUME FareInv, HandlersForm, NEW w \in Webhooks, Receive(w)
    PROVE  FareInv'
<1>1. Untouched(w) /\ at'[w].step \notin {"choose", "held"}
  BY Receiving
<1>2. UNCHANGED <<batch, listed, accept, agreed>>
  BY DEF Receive, rideKeys, told
<1>3. QED  BY <1>1, <1>2, BatchStays, FareByHandler DEF FareInv, FareWasListed

LEMMA ChattingKeepsFares ==
    ASSUME FareInv, HandlersForm, NEW w \in Webhooks, Chatting(w)
    PROVE  FareInv'
<1>1. Untouched(w) /\ at'[w].step \notin {"choose", "held"}
  BY ChattingGoes, Finishing DEF Listening
<1>2. CASE CancelReason(w)
  <2>1. /\ listed' = listed /\ agreed' = agreed
        /\ UNCHANGED <<accept, batch>> \/ (accept' = None /\ Cleanup(at[w].ride))
    BY <1>2 DEF CancelReason, CancelRide, rideKeys, told
  <2>2. BatchListed'
    BY <2>1, BatchStays, CleanedUp DEF FareInv
  <2>3. QED  BY <1>1, <2>1, <2>2, FareByHandler DEF FareInv, FareWasListed
<1>3. CASE ~CancelReason(w)
  <2>1. UNCHANGED <<batch, listed, accept, agreed>>
    BY <1>3, FareLeftAlone DEF Chatting
  <2>2. QED  BY <1>1, <2>1, BatchStays, FareByHandler DEF FareInv, FareWasListed
<1>4. QED  BY <1>2, <1>3

LEMMA BookingKeepsFares ==
    ASSUME FareInv, HandlersForm, NEW w \in Webhooks, Booking(w)
    PROVE  FareInv'
<1>1. Untouched(w) /\ at'[w].step \notin {"choose", "held"}
  <2>1. Untouched(w) /\ (at'[w] = Listening \/ at'[w].step \in BookingSteps)
    BY BookingGoes, Going
  <2>2. Listening.step = "idle"
    BY DEF Listening
  <2>3. \A step \in BookingSteps : step # "choose" /\ step # "held"
    BY DEF BookingSteps
  <2>4. QED  BY <2>1, <2>2, <2>3
<1>2. CASE CancelEdited(w)
  <2>1. /\ listed' = listed /\ agreed' = agreed
        /\ UNCHANGED <<accept, batch>> \/ (accept' = None /\ Cleanup(at[w].ride))
    BY <1>2 DEF CancelEdited, CancelRide, rideKeys, told
  <2>2. BatchListed'
    BY <2>1, BatchStays, CleanedUp DEF FareInv
  <2>3. QED  BY <1>1, <2>1, <2>2, FareByHandler DEF FareInv, FareWasListed
<1>3. CASE ~CancelEdited(w)
  <2>1. UNCHANGED <<batch, listed, accept, agreed>>
    BY <1>3, FareLeftAlone DEF Booking
  <2>2. QED  BY <1>1, <2>1, BatchStays, FareByHandler DEF FareInv, FareWasListed
<1>4. QED  BY <1>2, <1>3

LEMMA BiddingKeepsFares ==
    ASSUME FareInv, HandlersForm, RidesKnown, NEW w \in Webhooks, Bidding(w)
    PROVE  FareInv'
<1>1. Untouched(w)
  BY BiddingGoes, Going
<1>2. CASE Choose(w)
  <2>1. PICK bid \in Range(Numbered(at[w].ride)) :
          Continue(w, "choose", [ride |-> at[w].ride, bid |-> bid])
    BY <1>2 DEF Choose
  <2>2. at[w].ride \in Rides /\ UNCHANGED <<batch, listed, accept, agreed>>
    BY <1>2 DEF Choose, Open, Travels, RidesKnown, rideKeys, told
  <2>3. at'[w].item = [ride |-> at[w].ride, bid |-> bid]
    BY <2>1, Continues
  <2>4. at'[w].item \in listed
    BY <2>1, <2>2, <2>3 DEF FareInv, BatchListed, Numbered
  <2>5. QED  BY <1>1, <2>2, <2>4, BatchStays, FareByHandler DEF FareInv, FareWasListed
<1>3. CASE Chosen(w)
  <2>1. /\ at[w].step = "choose" /\ accept' = at[w].item /\ Finish(w)
        /\ UNCHANGED <<batch, listed, agreed>>
    BY <1>3 DEF Chosen, rideKeys, told
  <2>2. at'[w] = Listening
    BY <2>1, Finishing
  <2>3. QED  BY <1>1, <2>1, <2>2, BatchStays, FareByHandler DEF FareInv, FareWasListed, Listening
<1>4. CASE Pay(w)
  <2>1. /\ UNCHANGED <<batch, listed, agreed>> /\ accept \in listed
        /\ accept' \in {accept, None}
        /\ Finish(w) \/ Continue(w, "held", accept)
    BY <1>4 DEF Pay, rideKeys, told, FareInv
  <2>2. at'[w] = Listening \/ at'[w].item = accept
    BY <2>1, Finishing, Continues
  <2>3. QED  BY <1>1, <2>1, <2>2, BatchStays, FareByHandler DEF FareInv, FareWasListed, Listening
<1>5. CASE Paid(w)
  <2>1. /\ at[w].step = "held" /\ accept' = None /\ Finish(w)
        /\ agreed' = agreed \cup {at[w].item}
        /\ UNCHANGED <<batch, listed>>
    BY <1>5 DEF Paid, told
  <2>2. at'[w] = Listening /\ at[w].item \in listed
    BY <2>1, Finishing DEF FareInv
  <2>3. QED  BY <1>1, <2>1, <2>2, BatchStays, FareByHandler DEF FareInv, FareWasListed, Listening
<1>6. CASE More(w)
  <2>1. /\ at[w].ride \in Rides /\ SendList(at[w].ride, bids[at[w].ride]) /\ Finish(w)
        /\ UNCHANGED <<accept, agreed>>
    BY <1>6 DEF More, Open, Travels, RidesKnown
  <2>2. at'[w] = Listening /\ BatchListed' /\ listed \subseteq listed'
    BY <2>1, Finishing, ListSent DEF FareInv
  <2>3. QED  BY <1>1, <2>1, <2>2, FareByHandler DEF FareInv, FareWasListed, Listening
<1>7. CASE Counter(w) \/ Countered(w)
  <2>1. /\ UNCHANGED <<batch, listed, accept, agreed>>
        /\ Finish(w) \/ Continue(w, "counter", None)
    BY <1>7 DEF Counter, Countered, rideKeys, told
  <2>2. at'[w].step \notin {"choose", "held"}
    BY <2>1, Finishing, Continues DEF Listening
  <2>3. QED  BY <1>1, <2>1, <2>2, BatchStays, FareByHandler DEF FareInv, FareWasListed
<1>8. QED  BY <1>2, <1>3, <1>4, <1>5, <1>6, <1>7 DEF Bidding

LEMMA BankingKeepsFares ==
    ASSUME FareInv, HandlersForm, NEW w \in Webhooks, Banking(w)
    PROVE  FareInv'
<1>1. "choose" \notin BankSteps /\ "held" \notin BankSteps
  BY DEF BankSteps
<1>2. QED  BY <1>1, BankingGoes, FareLeftAlone, FareElsewhere

LEMMA GroupsKeepFares ==
    ASSUME FareInv, HandlersForm, NEW w \in Webhooks, GroupWebhook(w)
    PROVE  FareInv'
<1>1. "choose" \notin GroupSteps /\ "held" \notin GroupSteps
  BY DEF GroupSteps
<1>2. QED  BY <1>1, GroupGoes, FareLeftAlone, FareElsewhere

(* Without a handler's move *)
LEMMA FareByOthers ==
    ASSUME FareInv, BatchListed', listed \subseteq listed', at' = at, agreed' = agreed,
           accept' \in {accept, None}
    PROVE  FareInv'
BY DEF FareInv, FareWasListed

LEMMA ConsumerKeepsFares ==
    ASSUME FareInv, NEW r \in Rides, Consumer(r) \/ DriverBids(r) \/ RideService(r) \/ Lapse
    PROVE  FareInv'
<1>1. at' = at /\ agreed' = agreed /\ accept' \in {accept, None}
  BY DEF Consumer, TakeBid, Flush, RideOver, DriverAssigned, DriverBids, RideService, Lapse
<1>2. CASE TakeBid(r)
  <2>1. UNCHANGED <<batch, listed>> \/ \E list : SendList(r, list)
    BY <1>2 DEF TakeBid
  <2>2. QED  BY <1>1, <2>1, BatchStays, ListSent, FareByOthers DEF FareInv
<1>3. CASE Flush(r)
  <2>1. UNCHANGED <<batch, listed>> \/ SendList(r, bids[r])
    BY <1>3 DEF Flush
  <2>2. QED  BY <1>1, <2>1, BatchStays, ListSent, FareByOthers DEF FareInv
<1>4. CASE RideOver(r)
  <2>1. listed' = listed /\ (UNCHANGED batch \/ Cleanup(r))
    BY <1>4 DEF RideOver, rideKeys, told
  <2>2. QED  BY <1>1, <2>1, BatchStays, CleanedUp, FareByOthers DEF FareInv
<1>5. CASE DriverAssigned(r) \/ DriverBids(r) \/ RideService(r) \/ Lapse
  <2>1. UNCHANGED <<batch, listed>>
    BY <1>5 DEF DriverAssigned, DriverBids, RideService, Lapse, rideKeys, told
  <2>2. QED  BY <1>1, <2>1, BatchStays, FareByOthers DEF FareInv
<1>6. QED  BY <1>2, <1>3, <1>4, <1>5 DEF Consumer

-----------------------------------------------------------------------------
(* Withdrawals *)

Holding == {"bank", "account", "verified", "form", "submit", "submitting"}

(* A form that is not sent yet stays with its handler, is sent, or is      *)
(* excepted: what was announced stays announced.                           *)
LEMMA AnnouncedStays ==
    ASSUME NEW w \in Webhooks, Untouched(w), prompted \subseteq prompted', unseen \subseteq unseen',
           FormOf(w) \subseteq FormOf(w)' \cup prompted' \cup unseen'
    PROVE  Announced \subseteq Announced'
<1>1. ASSUME NEW v \in Webhooks, v # w  PROVE FormOf(v)' = FormOf(v)
  BY <1>1 DEF Untouched, FormOf, Details
<1>2. ASSUME NEW v \in Webhooks  PROVE FormOf(v) \subseteq Announced'
  BY <1>1 DEF Announced, OnTheirWay
<1>3. OnTheirWay \subseteq Announced'
  BY <1>2 DEF OnTheirWay
<1>4. QED  BY <1>3 DEF Announced

LEMMA BankByHandler ==
    ASSUME BankInv, Announced \subseteq Announced', submitted' \subseteq Announced',
           PendingSeen', NEW w \in Webhooks, Untouched(w), FormInHand(w)'
    PROVE  BankInv'
<1>1. ASSUME NEW v \in Webhooks  PROVE FormInHand(v)'
  <2>1. CASE v = w
    BY <2>1
  <2>2. CASE v # w
    <3>1. FormInHand(v) /\ at'[v] = at[v]
      BY <2>2 DEF BankInv, Untouched
    <3>2. QED  BY <3>1 DEF FormInHand, Details
  <2>3. QED  BY <2>1, <2>2
<1>2. QED  BY <1>1 DEF BankInv, SubmittedAsShown, Announced

LEMMA PendingStays ==
    ASSUME PendingSeen, pending' \in {pending, None}, Announced \subseteq Announced'
    PROVE  PendingSeen'
BY DEF PendingSeen, Seen, Details

(* A handler that holds no form goes on to something that is none.         *)
LEMMA BankElsewhere ==
    ASSUME BankInv, HandlersForm, NEW w \in Webhooks, NEW steps, Goes(w, steps),
           steps \cap Holding = {}, UNCHANGED <<pending, prompted, submitted>>,
           unseen' = unseen \cup FormOf(w)
    PROVE  BankInv'
<1>1. Untouched(w) /\ at'[w].step \notin Holding
  <2>1. Untouched(w) /\ (at'[w] = Listening \/ at'[w].step \in steps)
    BY Going
  <2>2. Listening.step = "idle"
    BY DEF Listening
  <2>3. QED  BY <2>1, <2>2 DEF Holding
<1>2. Announced \subseteq Announced'
  BY <1>1, AnnouncedStays
<1>3. FormInHand(w)'
  BY <1>1 DEF FormInHand, Holding
<1>4. PendingSeen'
  BY <1>2, PendingStays DEF BankInv
<1>5. submitted' \subseteq Announced'
  BY <1>2 DEF BankInv, SubmittedAsShown, Announced
<1>6. QED  BY <1>1, <1>2, <1>3, <1>4, <1>5, BankByHandler

(* A message about a booking or about a group is at a step of its own.     *)
LEMMA ReadsReads ==
    ASSUME NEW w, NEW texts, Reads(w, texts)
    PROVE  at[w].step = "read"
BY DEF Reads

LEMMA BookingIsNoForm ==
    ASSUME NEW w \in Webhooks, at[w].step \in BookingSteps
    PROVE  FormOf(w) = {}
<1>1. \A step \in BookingSteps : step \notin {"verified", "form"}
  BY DEF BookingSteps
<1>2. QED  BY <1>1 DEF FormOf

LEMMA GroupIsNoForm ==
    ASSUME NEW w \in Webhooks, at[w].step \in GroupSteps
    PROVE  FormOf(w) = {}
<1>1. \A step \in GroupSteps : step \notin {"verified", "form"}
  BY DEF GroupSteps
<1>2. QED  BY <1>1 DEF FormOf

LEMMA BookingIsRead ==
    ASSUME NEW w \in Webhooks, Booking(w)
    PROVE  at[w].step = "read" \/ at[w].step \in BookingSteps
<1>1. CASE PlanTrip(w)
  BY <1>1, ReadsReads, Zenon DEF PlanTrip, NamesDestination, SecondPin, NamesBoth, NamesBothAndPrice
<1>2. CASE Quote(w) \/ QuotePriced(w) \/ CancelEdited(w) \/ Requote(w) \/ Enter(w)
  BY <1>2, Zenon DEF Quote, QuotePriced, CancelEdited, Requote, Enter, BookingSteps
<1>3. CASE AskEdit(w)
  BY <1>3, ReadsReads, Zenon DEF AskEdit, EditsRide, EditsQuote
<1>4. CASE PlanEdit(w)
  BY <1>4, ReadsReads, Zenon DEF PlanEdit, EditsRide, EditsQuote, EditsByPlace, EditsByPin, AnswersEdit
<1>5. CASE Decide(w)
  BY <1>5, ReadsReads, Zenon DEF Decide, NamesPrice, EditsQuote, ConfirmsRoute, SearchesAgain
<1>6. CASE \E r \in Rides : Book(w, r)
  BY <1>6, Zenon DEF Book, BookingSteps
<1>7. QED  BY Booking(w), <1>1, <1>2, <1>3, <1>4, <1>5, <1>6 DEF Booking

LEMMA GroupIsRead ==
    ASSUME NEW w \in Webhooks, GroupWebhook(w)
    PROVE  at[w].step = "read" \/ at[w].step \in GroupSteps
<1>1. CASE \/ Locate(w) \/ QuoteSeat(w) \/ AskSeat(w) \/ SeatAsked(w) \/ CopyFails(w)
           \/ JudgeSelfie(w) \/ ReadySeat(w) \/ LeftGroup(w) \/ Converted(w)
  BY <1>1, Zenon DEF Locate, QuoteSeat, AskSeat, SeatAsked, CopyFails, JudgeSelfie, ReadySeat,
     LeftGroup, Converted, GroupSteps
<1>2. CASE StartGroup(w) \/ ShareQuote(w)
  BY <1>2, ReadsReads, Zenon DEF StartGroup, ShareQuote, EditsQuote
<1>3. CASE NamePlace(w)
  BY <1>3, ReadsReads, Zenon DEF NamePlace
<1>4. CASE ConfirmSeat(w) \/ SendSelfie(w)
  BY <1>4, ReadsReads, Zenon DEF ConfirmSeat, SendSelfie
<1>5. CASE LeaveGroup(w) \/ GoNormal(w)
  BY <1>5, ReadsReads, Zenon DEF LeaveGroup, GoNormal, GroupSteps
<1>6. QED  BY GroupWebhook(w), <1>1, <1>2, <1>3, <1>4, <1>5 DEF GroupWebhook

(* Only a withdrawal's own messages write its keys. *)
LEMMA PurseLeftAlone ==
    ASSUME NEW w \in Webhooks, Chatting(w) \/ Booking(w) \/ Bidding(w) \/ GroupWebhook(w)
    PROVE  UNCHANGED <<pending, prompted, submitted>> /\ unseen' = unseen \cup FormOf(w)
<1>1. CASE Fails(w)
  BY <1>1 DEF Fails, told
<1>2. CASE Chatting(w) /\ ~Fails(w)
  <2>1. UNCHANGED <<pending, prompted, submitted, unseen>> /\ at[w].step = "read"
    BY <1>2 DEF Chatting, AskReason, CancelReason, CancelBooking, PickupNamed, SessionExpired,
                NotConfirmed, NamesPickup, NamesArea, AnswersArea, FirstPin, Reads, told, purse
  <2>2. QED  BY <2>1 DEF FormOf
<1>3. CASE Booking(w)
  <2>1. UNCHANGED <<pending, prompted, submitted, unseen>>
    BY <1>3 DEF Booking, PlanTrip, Quote, QuotePriced, AskEdit, PlanEdit, CancelEdited, Requote,
                Decide, Book, Enter, told, purse
  <2>2. CASE at[w].step = "read"
    BY <2>1, <2>2 DEF FormOf
  <2>3. CASE at[w].step \in BookingSteps
    BY <2>1, <2>3, BookingIsNoForm
  <2>4. QED  BY <1>3, <2>2, <2>3, BookingIsRead
<1>4. CASE Bidding(w)
  <2>1. UNCHANGED <<pending, prompted, submitted, unseen>>
    BY <1>4 DEF Bidding, Choose, Chosen, Pay, Paid, More, Counter, Countered, told, purse
  <2>2. at[w].step \notin {"verified", "form"}
    BY <1>4 DEF Bidding, Choose, Chosen, Pay, Paid, More, Counter, Countered, Reads
  <2>3. QED  BY <2>1, <2>2 DEF FormOf
<1>5. CASE GroupWebhook(w)
  <2>1. UNCHANGED <<pending, prompted, submitted, unseen>>
    BY <1>5 DEF GroupWebhook, StartGroup, ShareQuote, NamePlace, Locate, QuoteSeat, ConfirmSeat,
                AskSeat, SeatAsked, CopyFails, SendSelfie, JudgeSelfie, ReadySeat, LeaveGroup,
                LeftGroup, GoNormal, Converted, elsewhere, purse
  <2>2. CASE at[w].step = "read"
    BY <2>1, <2>2 DEF FormOf
  <2>3. CASE at[w].step \in GroupSteps
    BY <2>1, <2>3, GroupIsNoForm
  <2>4. QED  BY <1>5, <2>2, <2>3, GroupIsRead
<1>6. QED  BY <1>1, <1>2, <1>3, <1>4, <1>5

LEMMA ReceivingKeepsPurse ==
    ASSUME BankInv, HandlersForm, NEW w \in Webhooks, Receive(w)
    PROVE  BankInv'
<1>1. Untouched(w) /\ at'[w].step = "read"
  BY Receiving
<1>2. UNCHANGED <<pending, prompted, submitted, unseen>> /\ FormOf(w) = {}
  BY DEF Receive, told, purse, FormOf, Listening
<1>3. FormInHand(w)'
  BY <1>1 DEF FormInHand
<1>4. Announced \subseteq Announced'
  BY <1>1, <1>2, AnnouncedStays
<1>5. PendingSeen' /\ submitted' \subseteq Announced'
  BY <1>2, <1>4, PendingStays DEF BankInv, SubmittedAsShown, Announced
<1>6. QED  BY <1>1, <1>3, <1>4, <1>5, BankByHandler

LEMMA OthersKeepPurse ==
    ASSUME BankInv, HandlersForm, NEW w \in Webhooks,
           Chatting(w) \/ Booking(w) \/ Bidding(w) \/ GroupWebhook(w)
    PROVE  BankInv'
<1>1. UNCHANGED <<pending, prompted, submitted>> /\ unseen' = unseen \cup FormOf(w)
  BY PurseLeftAlone
<1>2. Goes(w, {}) \/ Goes(w, BookingSteps) \/ Goes(w, BiddingSteps) \/ Goes(w, GroupSteps)
  BY ChattingGoes, GoesOut, BookingGoes, BiddingGoes, GroupGoes
<1>3. \A steps \in {{}, BookingSteps, BiddingSteps, GroupSteps} : steps \cap Holding = {}
  BY DEF BookingSteps, BiddingSteps, GroupSteps, Holding
<1>4. QED  BY <1>1, <1>2, <1>3, BankElsewhere

(* A handler that is done holds no form. *)
LEMMA DoneHoldsNone ==
    ASSUME HandlersForm, NEW w \in Webhooks, Finish(w)
    PROVE  Untouched(w) /\ FormInHand(w)' /\ FormOf(w)' = {}
<1>1. Untouched(w) /\ at'[w] = Listening
  BY Finishing
<1>2. QED  BY <1>1 DEF Listening, FormInHand, FormOf

(* A message about a withdrawal, before its form is stored. *)
LEMMA BankingBefore ==
    ASSUME NEW w \in Webhooks,
           \/ Withdraw(w) \/ EndWithdrawal(w) \/ GiveAmount(w) \/ AskBank(w) \/ BankAnswers(w)
           \/ ConfirmWithdrawal(w) \/ Lock(w) \/ Submit(w) \/ Submitted(w)
    PROVE  FormOf(w) = {} /\ prompted' = prompted
<1>1. at[w].step \notin {"verified", "form"}
  BY DEF Withdraw, EndWithdrawal, GiveAmount, AskBank, NamesBank, NamesAccount, BankAnswers,
         ConfirmWithdrawal, Withdraws, Lock, Submit, Submitted, Reads
<1>2. prompted' = prompted
  BY DEF Withdraw, EndWithdrawal, GiveAmount, AskBank, BankAnswers, ConfirmWithdrawal, Lock,
         Submit, Submitted, told
<1>3. QED  BY <1>1, <1>2 DEF FormOf

LEMMA BankingKeepsPurse ==
    ASSUME BankInv, HandlersForm, NEW w \in Webhooks, Banking(w)
    PROVE  BankInv'
<1>0. PendingSeen /\ FormInHand(w) /\ submitted \subseteq Announced
  BY DEF BankInv, SubmittedAsShown, Announced
<1>1. CASE Withdraw(w) \/ EndWithdrawal(w) \/ Submitted(w)
  <2>1. Finish(w) /\ pending' = None /\ UNCHANGED <<submitted, unseen>>
    BY <1>1 DEF Withdraw, EndWithdrawal, Submitted, told
  <2>2. Announced \subseteq Announced'
    BY <1>1, <2>1, BankingBefore, DoneHoldsNone, AnnouncedStays
  <2>3. QED  BY <1>0, <2>1, <2>2, DoneHoldsNone, PendingStays, BankByHandler
<1>2. CASE GiveAmount(w)
  <2>1. /\ Finish(w) /\ UNCHANGED <<submitted, unseen>>
        /\ \E n \in Amounts : pending' = Amount(n)
    BY <1>2 DEF GiveAmount, told
  <2>2. pending' \in Forms /\ pending'.account = None
    BY <2>1 DEF Amount, Forms
  <2>3. PendingSeen'
    BY <2>2 DEF PendingSeen, Seen
  <2>4. Announced \subseteq Announced'
    BY <1>2, <2>1, BankingBefore, DoneHoldsNone, AnnouncedStays
  <2>5. QED  BY <1>0, <2>1, <2>3, <2>4, DoneHoldsNone, BankByHandler
<1>3. CASE AskBank(w)
  <2>1. pending # None /\ UNCHANGED <<pending, submitted, unseen>>
    BY <1>3 DEF AskBank, NamesBank, NamesAccount, told, purse
  <2>2. pending \in Forms
    BY <1>0, <2>1 DEF PendingSeen
  <2>3. PICK step \in {"bank", "account"}, form \in Forms : Continue(w, step, form)
    <3>1. \A b \in Banks : [pending EXCEPT !.bank = b] \in Forms
      BY <2>2 DEF Forms
    <3>2. \A a \in Accounts : [pending EXCEPT !.account = a] \in Forms
      BY <2>2 DEF Forms
    <3>3. CASE \E b \in Banks : Continue(w, "bank", [pending EXCEPT !.bank = b])
      BY <3>1, <3>3, Zenon
    <3>4. CASE \E a \in Accounts : Continue(w, "account", [pending EXCEPT !.account = a])
      BY <3>2, <3>4, Zenon
    <3>5. QED  BY <1>3, <3>3, <3>4 DEF AskBank
  <2>4. Untouched(w) /\ at'[w].step = step /\ at'[w].item = form
    BY <2>3, Continues
  <2>5. FormInHand(w)'
    BY <2>3, <2>4 DEF FormInHand
  <2>6. Announced \subseteq Announced'
    BY <1>3, <2>1, <2>4, BankingBefore, AnnouncedStays
  <2>7. QED  BY <1>0, <2>1, <2>4, <2>5, <2>6, PendingStays, BankByHandler
<1>4. CASE BankAnswers(w)
  <2>1. PICK form \in Forms : form = at[w].item
    BY <1>0, <1>4 DEF BankAnswers, FormInHand
  <2>2. pending' = form /\ submitted' = submitted /\ unseen \subseteq unseen'
    BY <1>4, <2>1 DEF BankAnswers
  <2>3. /\ Untouched(w) /\ at'[w].step \in {"named", "verified"} /\ at'[w].item = form
        /\ at'[w].step = "named" /\ form.account # None => Details(form) \in unseen'
    <3>1. CASE at[w].step = "bank"
      <4>1. Continue(w, "named", form)
        BY <1>4, <2>1, <3>1 DEF BankAnswers
      <4>2. form.account # None => Details(form) \in unseen'
        BY <1>4, <2>1, <3>1 DEF BankAnswers
      <4>3. QED  BY <4>1, <4>2, Continues
    <3>2. CASE at[w].step = "account"
      <4>1. Continue(w, "verified", form)
        BY <1>4, <2>1, <3>2 DEF BankAnswers
      <4>2. Untouched(w) /\ at'[w].step = "verified" /\ at'[w].item = form
        BY <4>1, Continues
      <4>3. QED  BY <4>2
    <3>3. QED  BY <1>4, <3>1, <3>2 DEF BankAnswers
  <2>4. FormInHand(w)'
    BY <2>3 DEF FormInHand
  <2>5. Announced \subseteq Announced'
    BY <1>4, <2>2, <2>3, BankingBefore, AnnouncedStays
  <2>6. form.account # None => Details(form) \in Announced'
    <3>1. CASE at'[w].step = "named"
      BY <2>3, <3>1 DEF Announced
    <3>2. CASE at'[w].step = "verified"
      <4>1. Details(form) \in FormOf(w)'
        BY <2>3, <3>2 DEF FormOf, Details
      <4>2. QED  BY <4>1 DEF Announced, OnTheirWay
    <3>3. QED  BY <2>3, <3>1, <3>2
  <2>7. PendingSeen'
    BY <2>2, <2>6 DEF PendingSeen, Seen, Details
  <2>8. QED  BY <1>0, <2>2, <2>3, <2>4, <2>5, <2>7, BankByHandler
<1>5. CASE ConfirmWithdrawal(w)
  <2>1. /\ UNCHANGED <<submitted, unseen>> /\ pending' \in {pending, None}
        /\ \/ Complete(pending) /\ Continue(w, "submit", pending)
           \/ Finish(w)
    BY <1>5 DEF ConfirmWithdrawal, told
  <2>2. CASE Complete(pending) /\ Continue(w, "submit", pending)
    <3>1. Untouched(w) /\ at'[w].step = "submit" /\ at'[w].item = pending
      BY <2>2, Continues
    <3>2. Announced \subseteq Announced'
      BY <1>5, <2>1, <3>1, BankingBefore, AnnouncedStays
    <3>3. Details(pending) \in Announced
      BY <1>0, <2>2 DEF Complete, PendingSeen, Seen
    <3>4. FormInHand(w)'
      BY <3>1, <3>2, <3>3 DEF FormInHand, Details
    <3>5. QED  BY <1>0, <2>1, <3>1, <3>2, <3>4, PendingStays, BankByHandler
  <2>3. CASE Finish(w)
    <3>1. Announced \subseteq Announced'
      BY <1>5, <2>1, <2>3, BankingBefore, DoneHoldsNone, AnnouncedStays
    <3>2. QED  BY <1>0, <2>1, <2>3, <3>1, DoneHoldsNone, PendingStays, BankByHandler
  <2>4. QED  BY <2>1, <2>2, <2>3
<1>6. CASE Lock(w)
  <2>1. /\ UNCHANGED <<pending, submitted, unseen>> /\ at[w].step = "submit"
        /\ Continue(w, "submitting", at[w].item)
    BY <1>6 DEF Lock, told
  <2>2. Untouched(w) /\ at'[w].step = "submitting" /\ at'[w].item = at[w].item
    BY <2>1, Continues
  <2>3. Announced \subseteq Announced'
    BY <1>6, <2>1, <2>2, BankingBefore, AnnouncedStays
  <2>4. FormInHand(w)'
    BY <1>0, <2>1, <2>2, <2>3 DEF FormInHand, Details
  <2>5. QED  BY <1>0, <2>1, <2>2, <2>3, <2>4, PendingStays, BankByHandler
<1>7. CASE Submit(w)
  <2>1. /\ UNCHANGED <<pending, unseen>> /\ at[w].step = "submitting"
        /\ submitted' = submitted \cup {Details(at[w].item)}
        /\ Continue(w, "submitted", None)
    BY <1>7 DEF Submit, told
  <2>2. Untouched(w) /\ at'[w].step = "submitted"
    BY <2>1, Continues
  <2>3. Announced \subseteq Announced'
    BY <1>7, <2>1, <2>2, BankingBefore, AnnouncedStays
  <2>4. FormInHand(w)'
    BY <2>2 DEF FormInHand
  <2>5. submitted' \subseteq Announced'
    BY <1>0, <2>1, <2>3 DEF FormInHand
  <2>6. QED  BY <1>0, <2>1, <2>2, <2>3, <2>4, <2>5, PendingStays, BankByHandler
<1>8. CASE MovesOn(w)
  <2>1. UNCHANGED <<pending, prompted, submitted, unseen>>
    BY <1>8 DEF MovesOn, told, purse
  <2>2. CASE Finish(w) /\ at[w].step = "named"
    <3>1. Announced \subseteq Announced'
      BY <2>1, <2>2, DoneHoldsNone, AnnouncedStays DEF FormOf
    <3>2. QED  BY <1>0, <2>1, <2>2, <3>1, DoneHoldsNone, PendingStays, BankByHandler
  <2>3. CASE at[w].step = "verified" /\ Continue(w, "form", at[w].item)
    <3>1. Untouched(w) /\ at'[w].step = "form" /\ at'[w].item = at[w].item
      BY <2>3, Continues
    <3>2. FormOf(w)' = FormOf(w) /\ FormInHand(w)'
      BY <2>3, <3>1 DEF FormOf, FormInHand, Details
    <3>3. Announced \subseteq Announced'
      BY <2>1, <3>1, <3>2, AnnouncedStays
    <3>4. QED  BY <1>0, <2>1, <3>1, <3>2, <3>3, PendingStays, BankByHandler
  <2>4. QED  BY <1>8, <2>2, <2>3 DEF MovesOn
<1>9. CASE SendForm(w)
  <2>1. Finish(w) /\ UNCHANGED <<pending, submitted, unseen>> /\ prompted' = prompted \cup FormOf(w)
    BY <1>9 DEF SendForm, purse
  <2>2. Announced \subseteq Announced'
    BY <2>1, DoneHoldsNone, AnnouncedStays
  <2>3. QED  BY <1>0, <2>1, <2>2, DoneHoldsNone, PendingStays, BankByHandler
<1>10. QED
  BY <1>1, <1>2, <1>3, <1>4, <1>5, <1>6, <1>7, <1>8, <1>9 DEF Banking

LEMMA ConsumerKeepsPurse ==
    ASSUME BankInv, NEW r \in Rides, Consumer(r) \/ DriverBids(r) \/ RideService(r) \/ Lapse
    PROVE  BankInv'
<1>1. at' = at /\ UNCHANGED <<prompted, submitted, unseen>> /\ pending' \in {pending, None}
  BY DEF Consumer, TakeBid, Flush, RideOver, DriverAssigned, DriverBids, RideService, Lapse,
         told, purse
<1>2. Announced' = Announced
  BY <1>1 DEF Announced, OnTheirWay, FormOf, Details
<1>3. PendingSeen'
  BY <1>1, <1>2, PendingStays DEF BankInv
<1>4. ASSUME NEW w \in Webhooks  PROVE FormInHand(w)'
  BY <1>1, <1>2 DEF BankInv, FormInHand, Details
<1>5. submitted' \subseteq Announced'
  BY <1>1, <1>2 DEF BankInv, SubmittedAsShown, Announced
<1>6. QED  BY <1>3, <1>4, <1>5 DEF BankInv, SubmittedAsShown, Announced

-----------------------------------------------------------------------------
(* Routes *)

(* A ride that is known stays known. *)
RowsGoOn == \A r \in Rides : row[r] # "none" => row'[r] # "none"

LEMMA BookedByHandler ==
    ASSUME BookedInv, NEW w \in Webhooks, Untouched(w), RouteInHand(w)', RowsGoOn,
           quoted \subseteq quoted', RouteKeys', RowsBooked', MetaKnown',
           planned' \in Nat, quoted' \subseteq Nat,
           at'[w].ride \in Rides \cup {None}, active' \in Rides \cup {None}
    PROVE  BookedInv'
<1>1. ASSUME NEW v \in Webhooks
      PROVE  RouteInHand(v)' /\ at'[v].ride \in Rides \cup {None}
  <2>1. CASE v = w
    BY <2>1
  <2>2. CASE v # w
    <3>1. at'[v] = at[v] /\ RouteInHand(v) /\ at[v].ride \in Rides \cup {None}
      BY <2>2 DEF Untouched, BookedInv, RidesKnown
    <3>2. QED  BY <3>1 DEF RouteInHand, RowsGoOn
  <2>3. QED  BY <2>1, <2>2
<1>2. QED  BY <1>1 DEF BookedInv, RidesKnown

(* The parts, when a step leaves alone what they are about *)
LEMMA KeysStay ==
    ASSUME RouteKeys, route' \in {route, None}, lastRoute' = lastRoute,
           quoted \subseteq quoted'
    PROVE  RouteKeys'
BY DEF RouteKeys

LEMMA RowsStay ==
    ASSUME RowsBooked, UNCHANGED <<row, booked>>, quoted \subseteq quoted'
    PROVE  RowsBooked' /\ RowsGoOn
BY DEF RowsBooked, RowsGoOn

LEMMA RowsMove ==
    ASSUME RowsBooked, NEW r, NEW s, s # "none" \/ row[r] = "none",
           r \in Rides => row[r] # "none",
           row' = [row EXCEPT ![r] = s], booked' = booked, quoted' = quoted
    PROVE  RowsBooked' /\ RowsGoOn
<1>1. row' = [x \in Rides |-> IF x = r THEN s ELSE row[x]]
  BY DEF RowsBooked
<1>2. \A x \in Rides : row'[x] = "none" <=> row[x] = "none"
  BY <1>1
<1>3. QED  BY <1>1, <1>2 DEF RowsBooked, RowsGoOn

LEMMA MetaStays ==
    ASSUME MetaKnown, meta' \subseteq meta, RowsGoOn
    PROVE  MetaKnown'
BY DEF MetaKnown, RowsGoOn

LEMMA RideCancelled ==
    ASSUME RowsBooked, MetaKnown, NEW r \in Rides, CancelRide(r), quoted' = quoted,
           booked' = booked
    PROVE  RowsBooked' /\ RowsGoOn /\ MetaKnown' /\ active' = None
<1>1. PICK s : s = CASE row[r] \in {"OPEN", "EXPIRED"} -> "CANCELLING"
                     [] row[r] = "TAKEN" -> "CANCELLED"
                     [] OTHER -> row[r]
  OBVIOUS
<1>2. row' = [row EXCEPT ![r] = s] /\ active' = None /\ meta' \subseteq meta
  BY <1>1 DEF CancelRide, Cleanup
<1>3. s = "none" <=> row[r] = "none"
  BY <1>1
<1>4. row' = [x \in Rides |-> IF x = r THEN s ELSE row[x]]
  BY <1>2 DEF RowsBooked
<1>5. \A x \in Rides : row'[x] = "none" <=> row[x] = "none"
  BY <1>3, <1>4
<1>6. RowsBooked' /\ RowsGoOn
  BY <1>4, <1>5 DEF RowsBooked, RowsGoOn
<1>7. QED  BY <1>2, <1>6, MetaStays

(* A handler's move that books and plans nothing *)
LEMMA BookedElsewhere ==
    ASSUME BookedInv, HandlersForm, NEW w \in Webhooks, NEW steps, Goes(w, steps),
           steps \cap (BookingSteps \cup {"counter"}) = {},
           route' \in {route, None}, UNCHANGED <<lastRoute, row, booked>>,
           meta' \subseteq meta, planned' \in Nat, quoted \subseteq quoted', quoted' \subseteq Nat,
           active' \in {active, None}
    PROVE  BookedInv'
<1>1. /\ Untouched(w) /\ at'[w].ride \in Rides \cup {None}
      /\ at'[w].step \notin BookingSteps \cup {"counter"}
  <2>1. /\ Untouched(w)
        /\ at'[w] = Listening \/ (at'[w].ride = at[w].ride /\ at'[w].step \in steps)
    BY Going
  <2>2. Listening.step = "idle" /\ Listening.ride = None
    BY DEF Listening
  <2>3. "idle" \notin BookingSteps \cup {"counter"}
    BY DEF BookingSteps
  <2>4. at[w].ride \in Rides \cup {None}
    BY DEF BookedInv, RidesKnown
  <2>5. QED  BY <2>1, <2>2, <2>3, <2>4
<1>2. RouteInHand(w)'
  BY <1>1 DEF RouteInHand, BookingSteps
<1>3. RouteKeys' /\ RowsBooked' /\ RowsGoOn /\ MetaKnown'
  BY KeysStay, RowsStay, MetaStays DEF BookedInv
<1>4. active' \in Rides \cup {None}
  BY DEF BookedInv, RidesKnown
<1>5. QED  BY <1>1, <1>2, <1>3, <1>4, BookedByHandler

LEMMA ReceivingKeepsRoutes ==
    ASSUME BookedInv, HandlersForm, NEW w \in Webhooks, Receive(w)
    PROVE  BookedInv'
<1>1. Untouched(w) /\ at'[w].step = "read" /\ at'[w].ride = active
  BY Receiving
<1>2. UNCHANGED <<route, lastRoute, row, booked, meta, planned, quoted, active>>
  BY DEF Receive, keys, rideKeys, market, told
<1>3. RouteInHand(w)'
  BY <1>1 DEF RouteInHand
<1>4. RouteKeys' /\ RowsBooked' /\ RowsGoOn /\ MetaKnown'
  BY <1>2, KeysStay, RowsStay, MetaStays DEF BookedInv
<1>5. active \in Rides \cup {None} /\ planned \in Nat /\ quoted \subseteq Nat
  BY DEF BookedInv, RidesKnown
<1>6. QED  BY <1>1, <1>2, <1>3, <1>4, <1>5, BookedByHandler

LEMMA ChattingKeepsRoutes ==
    ASSUME BookedInv, HandlersForm, NEW w \in Webhooks, Chatting(w)
    PROVE  BookedInv'
<1>0. /\ RouteKeys /\ RowsBooked /\ MetaKnown /\ planned \in Nat /\ quoted \subseteq Nat
      /\ at[w].ride \in Rides \cup {None} /\ active \in Rides \cup {None}
  BY DEF BookedInv, RidesKnown
<1>1. Goes(w, {}) /\ Untouched(w) /\ at'[w] = Listening
  BY ChattingGoes, GoesOut, Finishing
<1>2. route' \in {route, None} /\ UNCHANGED <<lastRoute, booked, planned, quoted>>
  BY DEF Chatting, Fails, AskReason, CancelReason, CancelBooking, PickupNamed, SessionExpired,
         NotConfirmed, keys, told
<1>3. CASE CancelReason(w) /\ at[w].ride # None
  <2>1. CancelRide(at[w].ride)
    BY <1>3 DEF CancelReason
  <2>2. RowsBooked' /\ RowsGoOn /\ MetaKnown' /\ active' = None
    BY <1>0, <1>2, <1>3, <2>1, RideCancelled
  <2>3. RouteInHand(w)' /\ at'[w].ride = None
    BY <1>1 DEF RouteInHand, Listening
  <2>4. RouteKeys'
    BY <1>0, <1>2, KeysStay
  <2>5. QED  BY <1>0, <1>1, <1>2, <2>2, <2>3, <2>4, BookedByHandler
<1>4. CASE ~(CancelReason(w) /\ at[w].ride # None)
  <2>1. UNCHANGED <<row, meta, active>>
    BY <1>4 DEF Chatting, Fails, AskReason, CancelReason, CancelBooking, PickupNamed,
                SessionExpired, NotConfirmed, market, rideKeys
  <2>2. QED  BY <1>0, <1>1, <1>2, <2>1, BookedElsewhere
<1>5. QED  BY <1>3, <1>4

LEMMA BankingKeepsRoutes ==
    ASSUME BookedInv, HandlersForm, NEW w \in Webhooks, Banking(w)
    PROVE  BookedInv'
<1>1. UNCHANGED <<route, lastRoute, row, booked, meta, planned, quoted, active>>
  BY DEF Banking, Withdraw, EndWithdrawal, GiveAmount, AskBank, BankAnswers, MovesOn,
         SendForm, ConfirmWithdrawal, Lock, Submit, Submitted, keys, rideKeys, market, told
<1>2. BankSteps \cap (BookingSteps \cup {"counter"}) = {}
  BY DEF BankSteps, BookingSteps
<1>3. planned \in Nat /\ quoted \subseteq Nat
  BY DEF BookedInv
<1>4. QED  BY <1>1, <1>2, <1>3, BankingGoes, BookedElsewhere

(* A handler that is done has no route in hand. *)
LEMMA DoneHasNoRoute ==
    ASSUME HandlersForm, NEW w \in Webhooks, Finish(w)
    PROVE  Untouched(w) /\ RouteInHand(w)' /\ at'[w].ride \in Rides \cup {None}
<1>1. Untouched(w) /\ at'[w] = Listening
  BY Finishing
<1>2. QED  BY <1>1 DEF Listening, RouteInHand

LEMMA GoesOnWithRide ==
    ASSUME HandlersForm, BookedInv, NEW w \in Webhooks, NEW step, NEW item,
           Continue(w, step, item)
    PROVE  /\ Untouched(w) /\ at'[w].step = step /\ at'[w].item = item
           /\ at'[w].ride = at[w].ride /\ at'[w].ride \in Rides \cup {None}
<1>1. /\ Untouched(w)
      /\ at'[w] = [text |-> at[w].text, ride |-> at[w].ride, stage |-> at[w].stage,
                   item |-> item, step |-> step]
  BY Continuing
<1>2. QED  BY <1>1 DEF BookedInv, RidesKnown

LEMMA PlanningKeepsRoutes ==
    ASSUME BookedInv, HandlersForm, NEW w \in Webhooks, PlanTrip(w) \/ PlanEdit(w)
    PROVE  BookedInv'
<1>0. /\ RouteKeys /\ RowsBooked /\ MetaKnown /\ planned \in Nat /\ quoted \subseteq Nat
      /\ active \in Rides \cup {None}
  BY DEF BookedInv, RidesKnown
<1>1. PICK step, item : Plans(w, step, item) /\ item.id = planned + 1 /\ step # "book"
                        /\ step # "enter" /\ step # "counter"
  BY DEF PlanTrip, PlanEdit
<1>2. /\ UNCHANGED <<route, lastRoute, row, booked, meta, quoted, active>>
      /\ planned' = planned + 1
  BY DEF PlanTrip, PlanEdit, Plans, keys, rideKeys, market
<1>3. /\ Untouched(w) /\ at'[w].step = step /\ at'[w].item = item
      /\ at'[w].ride \in Rides \cup {None}
  BY <1>1, GoesOnWithRide DEF Plans
<1>4. RouteInHand(w)'
  <2>1. at'[w].item.id \in Nat /\ at'[w].step \notin {"book", "enter", "counter"}
    BY <1>0, <1>1, <1>3
  <2>2. QED  BY <2>1 DEF RouteInHand
<1>5. RouteKeys' /\ RowsBooked' /\ RowsGoOn /\ MetaKnown'
  BY <1>0, <1>2, KeysStay, RowsStay, MetaStays
<1>6. QED  BY <1>0, <1>2, <1>3, <1>4, <1>5, BookedByHandler

(* A quote shows the route it stores. *)
LEMMA QuotingKeepsRoutes ==
    ASSUME BookedInv, HandlersForm, NEW w \in Webhooks, NEW id \in Nat, Finish(w),
           route'.id = id \/ route' \in {route, None}, quoted' = quoted \cup {id},
           UNCHANGED <<lastRoute, row, booked, meta, planned, active>>
    PROVE  BookedInv'
<1>0. /\ RouteKeys /\ RowsBooked /\ MetaKnown /\ planned \in Nat /\ quoted \subseteq Nat
      /\ active \in Rides \cup {None}
  BY DEF BookedInv, RidesKnown
<1>1. RouteKeys'
  BY <1>0 DEF RouteKeys
<1>2. RowsBooked' /\ RowsGoOn /\ MetaKnown'
  BY <1>0, RowsStay, MetaStays
<1>3. QED  BY <1>0, <1>1, <1>2, DoneHasNoRoute, BookedByHandler

LEMMA BookKeepsRoutes ==
    ASSUME BookedInv, HandlersForm, NEW w \in Webhooks, NEW r \in Rides, Book(w, r)
    PROVE  BookedInv'
<1>0. /\ RouteKeys /\ RowsBooked /\ MetaKnown /\ planned \in Nat /\ quoted \subseteq Nat
      /\ active \in Rides \cup {None} /\ RouteInHand(w)
  BY DEF BookedInv, RidesKnown
<1>1. /\ at[w].step = "book" /\ row[r] = "none" /\ route' \in {route, None}
      /\ row' = [row EXCEPT ![r] = "OPEN"] /\ booked' = [booked EXCEPT ![r] = at[w].item.id]
      /\ Continue(w, "enter", [how |-> at[w].item.how, ride |-> r])
      /\ UNCHANGED <<lastRoute, meta, active, planned, quoted>>
  BY DEF Book, rideKeys, told
<1>2. /\ row' = [x \in Rides |-> IF x = r THEN "OPEN" ELSE row[x]]
      /\ booked' = [x \in Rides |-> IF x = r THEN at[w].item.id ELSE booked[x]]
  BY <1>0, <1>1 DEF RowsBooked
<1>3. at[w].item.id \in quoted
  BY <1>0, <1>1 DEF RouteInHand
<1>4. RowsBooked' /\ RowsGoOn
  BY <1>0, <1>1, <1>2, <1>3 DEF RowsBooked, RowsGoOn
<1>5. RouteKeys' /\ MetaKnown'
  BY <1>0, <1>1, <1>4, KeysStay, MetaStays
<1>6. /\ Untouched(w) /\ at'[w].step = "enter" /\ at'[w].ride \in Rides \cup {None}
      /\ at'[w].item = [how |-> at[w].item.how, ride |-> r]
  BY <1>1, GoesOnWithRide
<1>7. RouteInHand(w)'
  BY <1>2, <1>6 DEF RouteInHand
<1>8. QED  BY <1>0, <1>1, <1>4, <1>5, <1>6, <1>7, BookedByHandler

LEMMA BookingKeepsRoutes ==
    ASSUME BookedInv, HandlersForm, NEW w \in Webhooks, Booking(w)
    PROVE  BookedInv'
<1>0. /\ RouteKeys /\ RowsBooked /\ MetaKnown /\ planned \in Nat /\ quoted \subseteq Nat
      /\ active \in Rides \cup {None} /\ at[w].ride \in Rides \cup {None} /\ RouteInHand(w)
  BY DEF BookedInv, RidesKnown
<1>1. CASE PlanTrip(w) \/ PlanEdit(w)
  BY <1>1, PlanningKeepsRoutes
<1>2. CASE Quote(w) \/ QuotePriced(w) \/ Requote(w)
  <2>1. /\ at[w].step \in {"quote", "quote priced", "requote"} /\ Finish(w)
        /\ route'.id = at[w].item.id /\ quoted' = quoted \cup {at[w].item.id}
        /\ UNCHANGED <<lastRoute, row, booked, meta, planned, active>>
    <3>1. CASE Quote(w)
      BY <3>1 DEF Quote, rideKeys, market
    <3>2. CASE QuotePriced(w)
      BY <3>2 DEF QuotePriced, rideKeys, market
    <3>3. CASE Requote(w)
      BY <3>3 DEF Requote, rideKeys, market
    <3>4. QED  BY <1>2, <3>1, <3>2, <3>3
  <2>2. at[w].item.id \in Nat
    BY <1>0, <2>1 DEF RouteInHand
  <2>3. QED  BY <2>1, <2>2, QuotingKeepsRoutes
<1>3. CASE AskEdit(w)
  <2>1. /\ Finish(w) /\ UNCHANGED <<lastRoute, row, booked, meta, planned, quoted, active>>
        /\ \/ at[w].ride \in meta /\ route'.id = booked[at[w].ride]
           \/ route' = route
    BY <1>3 DEF AskEdit, EditsRide, rideKeys, market, told
  <2>2. RouteKeys'
    BY <1>0, <2>1 DEF RouteKeys, MetaKnown, RowsBooked
  <2>3. RowsBooked' /\ RowsGoOn /\ MetaKnown'
    BY <1>0, <2>1, RowsStay, MetaStays
  <2>4. QED  BY <1>0, <2>1, <2>2, <2>3, DoneHasNoRoute, BookedByHandler
<1>4. CASE CancelEdited(w)
  <2>1. /\ at[w].step = "replan" /\ Continue(w, "requote", at[w].item)
        /\ UNCHANGED <<route, lastRoute, booked, planned, quoted>>
        /\ UNCHANGED <<row, meta, active>> \/ (at[w].ride # None /\ CancelRide(at[w].ride))
    BY <1>4 DEF CancelEdited, keys, rideKeys, market, told
  <2>2. RowsBooked' /\ RowsGoOn /\ MetaKnown' /\ active' \in {active, None}
    BY <1>0, <2>1, RowsStay, MetaStays, RideCancelled
  <2>3. RouteKeys'
    BY <1>0, <2>1, KeysStay
  <2>4. /\ Untouched(w) /\ at'[w].step = "requote" /\ at'[w].item = at[w].item
        /\ at'[w].ride \in Rides \cup {None}
    BY <2>1, GoesOnWithRide
  <2>5. RouteInHand(w)'
    BY <1>0, <2>1, <2>4 DEF RouteInHand
  <2>6. QED  BY <1>0, <2>1, <2>2, <2>3, <2>4, <2>5, BookedByHandler
<1>5. CASE Decide(w)
  <2>1. UNCHANGED <<route, lastRoute, row, booked, meta, planned, quoted, active>>
    BY <1>5 DEF Decide, keys, rideKeys, market, told
  <2>2. PICK id, how : id \in quoted /\ Continue(w, "book", [id |-> id, how |-> how])
    BY <1>0, <1>5 DEF Decide, NamesPrice, EditsQuote, ConfirmsRoute, SearchesAgain, RouteKeys
  <2>3. /\ Untouched(w) /\ at'[w].step = "book" /\ at'[w].item = [id |-> id, how |-> how]
        /\ at'[w].ride \in Rides \cup {None}
    BY <2>2, GoesOnWithRide
  <2>4. RouteInHand(w)'
    BY <2>1, <2>2, <2>3 DEF RouteInHand
  <2>5. RouteKeys' /\ RowsBooked' /\ RowsGoOn /\ MetaKnown'
    BY <1>0, <2>1, KeysStay, RowsStay, MetaStays
  <2>6. QED  BY <1>0, <2>1, <2>3, <2>4, <2>5, BookedByHandler
<1>6. CASE \E r \in Rides : Book(w, r)
  BY <1>6, BookKeepsRoutes
<1>7. CASE Enter(w)
  <2>1. PICK r : r = at[w].item.ride
    OBVIOUS
  <2>2. /\ at[w].step = "enter" /\ Finish(w) /\ meta' = meta \cup {r} /\ active' = r
        /\ lastRoute' \in {lastRoute, booked[r]}
        /\ UNCHANGED <<route, row, booked, planned, quoted>>
    BY <1>7, <2>1 DEF Enter, StoreRide, market, told
  <2>3. r \in Rides /\ row[r] # "none"
    BY <1>0, <2>1, <2>2 DEF RouteInHand
  <2>4. RowsBooked' /\ RowsGoOn
    BY <1>0, <2>2, RowsStay
  <2>5. RouteKeys' /\ MetaKnown'
    BY <1>0, <2>2, <2>3 DEF RouteKeys, MetaKnown, RowsBooked
  <2>6. QED  BY <1>0, <2>2, <2>3, <2>4, <2>5, DoneHasNoRoute, BookedByHandler
<1>8. QED  BY <1>1, <1>2, <1>3, <1>4, <1>5, <1>6, <1>7 DEF Booking

LEMMA BiddingKeepsRoutes ==
    ASSUME BookedInv, HandlersForm, NEW w \in Webhooks, Bidding(w)
    PROVE  BookedInv'
<1>0. /\ RouteKeys /\ RowsBooked /\ MetaKnown /\ planned \in Nat /\ quoted \subseteq Nat
      /\ active \in Rides \cup {None} /\ at[w].ride \in Rides \cup {None} /\ RouteInHand(w)
  BY DEF BookedInv, RidesKnown
<1>1. UNCHANGED <<route, lastRoute, booked, planned, quoted>>
  BY DEF Bidding, Choose, Chosen, Pay, Paid, More, Counter, Countered, keys, told
<1>2. RouteKeys'
  BY <1>0, <1>1, KeysStay
<1>3. CASE Choose(w) \/ Chosen(w) \/ Pay(w) \/ More(w)
  <2>1. UNCHANGED <<row, meta>> /\ active' \in {active, None}
    BY <1>3 DEF Choose, Chosen, Pay, More, rideKeys, market
  <2>2. \/ Finish(w)
        \/ \E item : Continue(w, "choose", item)
        \/ \E item : Continue(w, "held", item)
    BY <1>3 DEF Choose, Chosen, Pay, More
  <2>3. Goes(w, {"choose", "held"})
    BY <2>2 DEF Goes
  <2>4. {"choose", "held"} \cap (BookingSteps \cup {"counter"}) = {}
    BY DEF BookingSteps
  <2>5. QED  BY <1>0, <1>1, <2>1, <2>3, <2>4, BookedElsewhere
<1>4. CASE Paid(w)
  <2>1. /\ Finish(w) /\ UNCHANGED <<meta, active>>
        /\ \/ row' = row
           \/ /\ row[at[w].item.ride] \in {"OPEN", "EXPIRED"}
              /\ row' = [row EXCEPT ![at[w].item.ride] = "TAKEN"]
    BY <1>4 DEF Paid, market
  <2>2. RowsBooked' /\ RowsGoOn
    <3>1. CASE row' = row
      BY <1>0, <1>1, <3>1, RowsStay
    <3>2. CASE /\ row[at[w].item.ride] \in {"OPEN", "EXPIRED"}
               /\ row' = [row EXCEPT ![at[w].item.ride] = "TAKEN"]
      BY <1>0, <1>1, <3>2, RowsMove
    <3>3. QED  BY <2>1, <3>1, <3>2
  <2>3. MetaKnown'
    BY <1>0, <2>1, <2>2, MetaStays
  <2>4. QED  BY <1>0, <1>1, <1>2, <2>1, <2>2, <2>3, DoneHasNoRoute, BookedByHandler
<1>5. CASE Counter(w)
  <2>1. at[w].ride \in meta /\ Continue(w, "counter", None) /\ UNCHANGED <<row, meta, active>>
    BY <1>5 DEF Counter, rideKeys, market
  <2>2. Untouched(w) /\ at'[w].step = "counter" /\ at'[w].ride = at[w].ride
    BY <2>1, GoesOnWithRide
  <2>3. RouteInHand(w)'
    BY <1>0, <2>1, <2>2 DEF RouteInHand, MetaKnown
  <2>4. RowsBooked' /\ RowsGoOn /\ MetaKnown'
    BY <1>0, <1>1, <2>1, RowsStay, MetaStays
  <2>5. QED  BY <1>0, <1>1, <1>2, <2>1, <2>2, <2>3, <2>4, BookedByHandler
<1>6. CASE Countered(w)
  <2>1. /\ at[w].step = "counter" /\ Finish(w) /\ meta' = meta \cup {at[w].ride}
        /\ UNCHANGED <<row, active>>
    BY <1>6 DEF Countered, market
  <2>2. RowsBooked' /\ RowsGoOn
    BY <1>0, <1>1, <2>1, RowsStay
  <2>3. MetaKnown'
    BY <1>0, <2>1 DEF MetaKnown, RouteInHand
  <2>4. QED  BY <1>0, <1>1, <1>2, <2>1, <2>2, <2>3, DoneHasNoRoute, BookedByHandler
<1>7. QED  BY <1>3, <1>4, <1>5, <1>6 DEF Bidding

LEMMA ConsumerKeepsRoutes ==
    ASSUME BookedInv, NEW r \in Rides, Consumer(r) \/ DriverBids(r) \/ RideService(r) \/ Lapse
    PROVE  BookedInv'
<1>0. /\ RidesKnown /\ RouteKeys /\ RowsBooked /\ MetaKnown
      /\ planned \in Nat /\ quoted \subseteq Nat
  BY DEF BookedInv
<1>1. /\ at' = at /\ UNCHANGED <<lastRoute, booked, planned, quoted>>
      /\ route' \in {route, None}
  BY DEF Consumer, TakeBid, Flush, RideOver, DriverAssigned, DriverBids, RideService, Lapse,
         told, keys
<1>2. RouteKeys'
  BY <1>0, <1>1, KeysStay
<1>3. RowsBooked' /\ RowsGoOn
  <2>1. CASE RideService(r)
    <3>1. PICK s \in {"EXPIRED", "CANCELLED", "OPEN", "COMPLETED"} :
            row[r] # "none" /\ row' = [row EXCEPT ![r] = s]
      BY <2>1 DEF RideService
    <3>2. QED  BY <1>0, <1>1, <3>1, RowsMove
  <2>2. CASE ~RideService(r)
    <3>1. row' = row
      BY <2>2 DEF Consumer, TakeBid, Flush, RideOver, DriverAssigned, Taken, DriverBids, Lapse,
                  market
    <3>2. QED  BY <1>0, <1>1, <3>1, RowsStay
  <2>3. QED  BY <2>1, <2>2
<1>4. MetaKnown' /\ active' \in Rides \cup {None}
  <2>1. CASE TakeBid(r)
    <3>1. \/ meta' = meta /\ active' = active
          \/ meta' = meta \cup {r} /\ active' = r /\ Winnable(r)
      BY <2>1 DEF TakeBid
    <3>2. QED  BY <1>0, <1>3, <3>1 DEF MetaKnown, RowsGoOn, RidesKnown, Winnable
  <2>2. CASE ~TakeBid(r)
    <3>1. meta' \subseteq meta /\ active' \in {active, None}
      BY <2>2 DEF Consumer, Flush, RideOver, DriverAssigned, DriverBids, RideService, Lapse,
                  Cleanup, rideKeys
    <3>2. QED  BY <1>0, <1>3, <3>1, MetaStays DEF RidesKnown
  <2>3. QED  BY <2>1, <2>2
<1>5. ASSUME NEW w \in Webhooks  PROVE RouteInHand(w)'
  <2>1. RouteInHand(w) /\ at'[w] = at[w]
    BY <1>1 DEF BookedInv
  <2>2. QED  BY <1>1, <1>3, <2>1 DEF RouteInHand, RowsGoOn
<1>6. QED  BY <1>0, <1>1, <1>2, <1>3, <1>4, <1>5 DEF BookedInv, RidesKnown

-----------------------------------------------------------------------------
(* Seats: the types *)

LEMMA GroupsByHandler ==
    ASSUME GroupsKnown, GroupKeys', Len(pool) <= Len(pool'), NEW w \in Webhooks, Untouched(w),
           GroupHand(w)'
    PROVE  GroupsKnown'
<1>1. Len(pool) \in Nat /\ Len(pool') \in Nat
  BY LenProperties DEF GroupsKnown, GroupKeys
<1>2. SeatPlans \subseteq SeatPlans' /\ 0..Len(pool) \subseteq 0..Len(pool')
  BY <1>1 DEF SeatPlans
<1>3. ASSUME NEW v \in Webhooks  PROVE GroupHand(v)'
  <2>1. CASE v = w
    BY <2>1
  <2>2. CASE v # w
    <3>1. at'[v] = at[v] /\ GroupHand(v)
      BY <2>2 DEF Untouched, GroupsKnown
    <3>2. QED  BY <1>2, <3>1 DEF GroupHand
  <2>3. QED  BY <2>1, <2>2
<1>4. QED  BY <1>3 DEF GroupsKnown

LEMMA DoneHasNoSeat ==
    ASSUME HandlersForm, NEW w \in Webhooks, Finish(w)
    PROVE  Untouched(w) /\ at'[w] = Listening /\ GroupHand(w)'
<1>1. Untouched(w) /\ at'[w] = Listening
  BY Finishing
<1>2. QED  BY <1>1 DEF Listening, GroupHand

LEMMA SameGroupKeys ==
    ASSUME GroupKeys, UNCHANGED <<group, pool, asker>>
    PROVE  GroupKeys' /\ Len(pool) <= Len(pool')
<1>1. Len(pool) \in Nat
  BY LenProperties DEF GroupKeys
<1>2. QED  BY <1>1 DEF GroupKeys, SeatPlans

LEMMA GroupsElsewhere ==
    ASSUME GroupsKnown, HandlersForm, NEW w \in Webhooks, NEW steps, Goes(w, steps),
           steps \cap GroupSteps = {}, UNCHANGED groupVars
    PROVE  GroupsKnown'
<1>1. Untouched(w) /\ at'[w].step \notin GroupSteps
  <2>1. Untouched(w) /\ (at'[w] = Listening \/ at'[w].step \in steps)
    BY Going
  <2>2. Listening.step = "idle" /\ "idle" \notin GroupSteps
    BY DEF Listening, GroupSteps
  <2>3. QED  BY <2>1, <2>2
<1>2. GroupHand(w)'
  BY <1>1 DEF GroupHand, GroupSteps
<1>3. GroupKeys' /\ Len(pool) <= Len(pool')
  BY SameGroupKeys DEF GroupsKnown, groupVars
<1>4. QED  BY <1>1, <1>2, <1>3, GroupsByHandler

LEMMA OthersKeepGroups ==
    ASSUME GroupsKnown, HandlersForm, NEW w \in Webhooks, UNCHANGED groupVars,
           Receive(w) \/ Chatting(w) \/ Booking(w) \/ Bidding(w) \/ Banking(w)
    PROVE  GroupsKnown'
<1>1. CASE Receive(w)
  <2>1. Untouched(w) /\ at'[w].step = "read"
    BY <1>1, Receiving
  <2>2. GroupHand(w)'
    BY <2>1 DEF GroupHand
  <2>3. GroupKeys' /\ Len(pool) <= Len(pool')
    BY SameGroupKeys DEF GroupsKnown, groupVars
  <2>4. QED  BY <2>1, <2>2, <2>3, GroupsByHandler
<1>2. CASE Chatting(w) \/ Booking(w) \/ Bidding(w) \/ Banking(w)
  <2>1. Goes(w, {}) \/ Goes(w, BookingSteps) \/ Goes(w, BiddingSteps) \/ Goes(w, BankSteps)
    BY <1>2, ChattingGoes, GoesOut, BookingGoes, BiddingGoes, BankingGoes
  <2>2. \A steps \in {{}, BookingSteps, BiddingSteps, BankSteps} : steps \cap GroupSteps = {}
    BY DEF BookingSteps, BiddingSteps, BankSteps, GroupSteps
  <2>3. QED  BY <2>1, <2>2, GroupsElsewhere
<1>3. QED  BY <1>1, <1>2

(* A handler goes on with its message. *)
LEMMA GoesOnWithMessage ==
    ASSUME HandlersForm, NEW w \in Webhooks, NEW step, NEW item, Continue(w, step, item)
    PROVE  /\ Untouched(w) /\ at'[w].step = step /\ at'[w].item = item
           /\ at'[w].text = at[w].text /\ at'[w].stage = at[w].stage
<1>1. /\ Untouched(w)
      /\ at'[w] = [text |-> at[w].text, ride |-> at[w].ride, stage |-> at[w].stage,
                   item |-> item, step |-> step]
  BY Continuing
<1>2. QED  BY <1>1

LEMMA SameMessage ==
    ASSUME NEW w, at'[w].text = at[w].text, at'[w].stage = at[w].stage
    PROVE  Placing(at[w])' = Placing(at[w]) /\ Answering(at[w])' = Answering(at[w])
BY DEF Placing, Answering

(* The status of a request changes, and nothing else of the pool. *)
LEMMA StatusChanges ==
    ASSUME pool \in Seq(Seats), NEW q, NEW s, q \in DOMAIN pool => s \in SeatStatuses,
           pool' = [pool EXCEPT ![q].status = s]
    PROVE  /\ pool' \in Seq(Seats) /\ Len(pool') = Len(pool)
           /\ \A i \in DOMAIN pool' :
                 pool'[i].trip = pool[i].trip /\ pool'[i].fare = pool[i].fare
<1>1. /\ pool \in [1..Len(pool) -> Seats] /\ Len(pool) \in Nat /\ DOMAIN pool = 1..Len(pool)
  BY LenProperties
<1>2. ASSUME NEW i \in 1..Len(pool)
      PROVE  /\ pool'[i] \in Seats /\ pool'[i].trip = pool[i].trip
             /\ pool'[i].fare = pool[i].fare
  BY <1>1, <1>2 DEF Seats
<1>3. pool' \in [1..Len(pool) -> Seats]
  <2>1. pool' = [i \in 1..Len(pool) |-> pool'[i]]
    BY <1>1
  <2>2. QED  BY <1>2, <2>1
<1>4. pool' \in Seq(Seats)
  BY <1>1, <1>3, SeqDef
<1>5. Len(pool') = Len(pool)
  BY <1>1, <1>3, <1>4, LenProperties
<1>6. QED  BY <1>1, <1>2, <1>3, <1>4, <1>5

-----------------------------------------------------------------------------
(* Seats: what is asked for has been shown *)

LEMMA NoMessageIsBoth ==
    ASSUME NEW h, Placing(h),
           h.stage \notin Asking \/ h.text \in {"group", "group trip", "group ride"}
    PROVE  ~Answering(h)
BY DEF Placing, Answering, Asking

LEMMA ShownStays ==
    ASSUME NEW plan, ShownIfPlaced(plan), quoted \subseteq quoted'
    PROVE  Placed(plan) => plan.trip \in quoted' /\ plan.fare \in {plan.trip, Own}
BY DEF ShownIfPlaced, Shown

LEMMA ListeningIsQuiet == ~Placing(Listening) /\ ~Answering(Listening) /\ Listening.step = "idle"
BY DEF Placing, Answering, Listening

(* What the others have in hand, unless the stage begins to ask *)
LEMMA OthersInHand ==
    ASSUME SeatInv, NEW w \in Webhooks, Untouched(w), stage' = stage \/ stage' \notin Asking,
           quoted \subseteq quoted'
    PROVE  \A v \in Webhooks : v # w => SeatHand(v)'
<1>1. ASSUME NEW v \in Webhooks, v # w  PROVE SeatHand(v)'
  <2>1. at'[v] = at[v] /\ SeatHand(v)
    BY <1>1 DEF Untouched, SeatInv
  <2>2. at[v].step \in {"asked", "judge"} => ShownIfPlaced(at[v].item)
    BY <2>1 DEF SeatHand
  <2>3. at'[v].step \in {"asked", "judge"} => ShownIfPlaced(at[v].item)'
    BY <2>1, <2>2, ShownStays DEF ShownIfPlaced, Shown
  <2>4. QED  BY <2>1, <2>3 DEF SeatHand, ShownIfPlaced, Shown, Asking, Placing
<1>2. QED  BY <1>1

(* A message that is answered or goes on, and stores no unshown plan *)
LEMMA SeatByHandler ==
    ASSUME SeatInv, Apart', NEW w \in Webhooks, Untouched(w),
           \/ at'[w] = Listening
           \/ at'[w].text = at[w].text /\ at'[w].stage = at[w].stage,
           at'[w].step \in {"asked", "judge"} => ShownIfPlaced(at[w].item)',
           stage' = stage \/ stage' \notin Asking,
           ShownIfPlaced(group)' \/ group' = group,
           SeatsShown', quoted \subseteq quoted'
    PROVE  SeatInv'
<1>1. SeatHand(w) /\ GroupShown
  BY DEF SeatInv
<1>2. /\ Placing(at[w])' => Placing(at[w]) /\ at'[w].stage = at[w].stage
      /\ Answering(at[w])' => Answering(at[w])
  BY ListeningIsQuiet, SameMessage
<1>3. SeatHand(w)'
  BY <1>1, <1>2 DEF SeatHand, Asking
<1>4. \A v \in Webhooks : SeatHand(v)'
  BY <1>3, OthersInHand
<1>5. GroupShown'
  <2>1. CASE ShownIfPlaced(group)'
    BY <2>1 DEF GroupShown
  <2>2. CASE group' = group /\ ShownIfPlaced(group)
    BY <2>2, ShownStays DEF GroupShown, ShownIfPlaced, Shown
  <2>3. CASE group' = group /\ stage \notin Asking /\ \A v \in Webhooks : ~Answering(at[v])
    <3>1. stage' \notin Asking
      BY <2>3
    <3>2. ASSUME NEW v \in Webhooks  PROVE ~Answering(at[v])'
      <4>1. CASE v = w
        BY <1>2, <2>3, <4>1
      <4>2. CASE v # w
        BY <2>3, <4>2 DEF Untouched, Answering
      <4>3. QED  BY <4>1, <4>2
    <3>3. QED  BY <3>1, <3>2 DEF GroupShown, Asking
  <2>4. QED  BY <1>1, <2>1, <2>2, <2>3 DEF GroupShown
<1>6. QED  BY <1>4, <1>5 DEF SeatInv

(* The stage begins to ask when the plan is shown: nobody places meanwhile.*)
LEMMA SeatAsking ==
    ASSUME SeatInv, Apart', NEW w \in Webhooks, Untouched(w), at'[w] = Listening,
           Placing(at[w]) \/ Answering(at[w]), ShownIfPlaced(group)', SeatsShown',
           quoted \subseteq quoted'
    PROVE  SeatInv'
<1>1. ASSUME NEW v \in Webhooks  PROVE SeatHand(v)'
  <2>1. CASE v = w
    BY <2>1, ListeningIsQuiet DEF SeatHand, Listening, Placing
  <2>2. CASE v # w
    <3>1. at'[v] = at[v] /\ SeatHand(v) /\ ~Placing(at[v])
      BY <2>2 DEF Untouched, SeatInv, Apart
    <3>2. at[v].step \in {"asked", "judge"} => ShownIfPlaced(at[v].item)
      BY <3>1 DEF SeatHand
    <3>3. at'[v].step \in {"asked", "judge"} => ShownIfPlaced(at[v].item)'
      BY <3>1, <3>2, ShownStays DEF ShownIfPlaced, Shown
    <3>4. ~Placing(at[v])'
      BY <3>1 DEF Placing
    <3>5. QED  BY <3>3, <3>4 DEF SeatHand
  <2>3. QED  BY <2>1, <2>2
<1>2. QED  BY <1>1 DEF SeatInv, GroupShown

(* A route is being planned: nobody answers, and the stage does not ask. *)
LEMMA SeatPlacing ==
    ASSUME SeatInv, Apart', NEW w \in Webhooks, Untouched(w), Placing(at[w]),
           at'[w].text = at[w].text, at'[w].stage = at[w].stage, at'[w].step = "plan seat",
           at[w].stage \notin Asking, UNCHANGED <<stage, pool, quoted>>
    PROVE  SeatInv'
<1>1. Placing(at[w])' /\ ~Answering(at[w])'
  <2>1. Placing(at[w])' /\ ~Answering(at[w])
    BY SameMessage, NoMessageIsBoth
  <2>2. QED  BY <2>1, SameMessage
<1>2. \A v \in Webhooks : ~Answering(at[v])'
  BY <1>1 DEF Apart
<1>3. stage \notin Asking
  BY DEF SeatInv, SeatHand
<1>4. SeatHand(w)'
  BY <1>3 DEF SeatHand, Asking
<1>5. \A v \in Webhooks : SeatHand(v)'
  BY <1>4, OthersInHand
<1>6. GroupShown'
  BY <1>2, <1>3 DEF GroupShown, Asking
<1>7. SeatsShown'
  BY DEF SeatInv, SeatsShown, Shown
<1>8. QED  BY <1>5, <1>6, <1>7 DEF SeatInv

LEMMA SeatsStay ==
    ASSUME SeatInv, pool' = pool, quoted \subseteq quoted'
    PROVE  SeatsShown'
BY DEF SeatInv, SeatsShown, Shown

LEMMA ReceivingKeepsSeats ==
    ASSUME SeatInv, Apart', HandlersForm, NEW w \in Webhooks, Receive(w), UNCHANGED groupVars
    PROVE  SeatInv'
<1>1. Untouched(w) /\ at'[w].stage = stage /\ at'[w].step = "read"
  BY Receiving
<1>2. UNCHANGED <<stage, quoted, group, pool>>
  BY DEF Receive, keys, told, groupVars
<1>3. SeatHand(w)'
  BY <1>1, <1>2 DEF SeatHand, Asking
<1>4. \A v \in Webhooks : SeatHand(v)'
  BY <1>1, <1>2, <1>3, OthersInHand
<1>5. GroupShown'
  <2>1. CASE ShownIfPlaced(group)
    BY <1>2, <2>1 DEF GroupShown, ShownIfPlaced, Shown
  <2>2. CASE stage \notin Asking /\ \A v \in Webhooks : ~Answering(at[v])
    <3>1. ~Answering(at[w])'
      BY <1>1, <2>2 DEF Answering, Asking
    <3>2. ASSUME NEW v \in Webhooks, v # w  PROVE ~Answering(at[v])'
      BY <1>1, <2>2, <3>2 DEF Untouched, Answering
    <3>3. QED  BY <1>2, <2>2, <3>1, <3>2 DEF GroupShown, Asking
  <2>3. QED  BY <2>1, <2>2 DEF SeatInv, GroupShown
<1>6. QED  BY <1>2, <1>4, <1>5, SeatsStay DEF SeatInv

(* The rest of the conversation never asks for a seat. *)
LEMMA OthersDoNotAsk ==
    ASSUME NEW w \in Webhooks, Chatting(w) \/ Booking(w) \/ Bidding(w) \/ Banking(w)
    PROVE  (stage' = stage \/ stage' \notin Asking) /\ quoted \subseteq quoted'
<1>1. CASE Chatting(w)
  BY <1>1 DEF Chatting, Fails, AskReason, CancelReason, CancelBooking, PickupNamed,
              SessionExpired, NotConfirmed, keys, told, Asking
<1>2. CASE Booking(w)
  <2>1. CASE PlanTrip(w) \/ PlanEdit(w) \/ CancelEdited(w) \/ Decide(w)
    BY <2>1 DEF PlanTrip, PlanEdit, CancelEdited, Decide, keys, told
  <2>2. CASE Quote(w) \/ QuotePriced(w) \/ Requote(w) \/ AskEdit(w)
    BY <2>2 DEF Quote, QuotePriced, Requote, AskEdit, told, Asking
  <2>3. CASE (\E r \in Rides : Book(w, r)) \/ Enter(w)
    BY <2>3 DEF Book, Enter, told, Asking
  <2>4. QED  BY <1>2, <2>1, <2>2, <2>3 DEF Booking
<1>3. CASE Bidding(w)
  BY <1>3 DEF Bidding, Choose, Chosen, Pay, Paid, More, Counter, Countered, keys, told
<1>4. CASE Banking(w)
  BY <1>4 DEF Banking, Withdraw, EndWithdrawal, GiveAmount, AskBank, BankAnswers,
              MovesOn, SendForm, ConfirmWithdrawal, Lock, Submit, Submitted, keys, told, Asking
<1>5. QED  BY <1>1, <1>2, <1>3, <1>4

LEMMA OthersKeepSeats ==
    ASSUME SeatInv, Apart', HandlersForm, NEW w \in Webhooks, UNCHANGED groupVars,
           Chatting(w) \/ Booking(w) \/ Bidding(w) \/ Banking(w)
    PROVE  SeatInv'
<1>1. Goes(w, {}) \/ Goes(w, BookingSteps) \/ Goes(w, BiddingSteps) \/ Goes(w, BankSteps)
  BY ChattingGoes, GoesOut, BookingGoes, BiddingGoes, BankingGoes
<1>2. \A steps \in {{}, BookingSteps, BiddingSteps, BankSteps} :
        "asked" \notin steps /\ "judge" \notin steps
  BY DEF BookingSteps, BiddingSteps, BankSteps
<1>3. /\ Untouched(w) /\ at'[w].step \notin {"asked", "judge"}
      /\ \/ at'[w] = Listening
         \/ at'[w].text = at[w].text /\ at'[w].stage = at[w].stage
  BY <1>1, <1>2, Going, ListeningIsQuiet
<1>4. group' = group /\ SeatsShown'
  BY OthersDoNotAsk, SeatsStay DEF groupVars
<1>5. QED  BY <1>3, <1>4, OthersDoNotAsk, SeatByHandler

-----------------------------------------------------------------------------
(* Seats: each message about them *)

LEMMA BlankPlan ==
    ASSUME GroupKeys, NEW p \in BOOLEAN, NEW d \in BOOLEAN
    PROVE  Blank \in SeatPlans /\ [Blank EXCEPT !.pickup = p, !.dest = d] \in SeatPlans
<1>1. Len(pool) \in Nat
  BY LenProperties DEF GroupKeys
<1>2. Blank \in SeatPlans
  BY <1>1 DEF Blank, SeatPlans
<1>3. QED  BY <1>2 DEF SeatPlans

LEMMA PlaceKeepsSeats ==
    ASSUME GroupsKnown, HandlersForm, planned \in Nat, NEW w \in Webhooks,
           NEW plan \in SeatPlans, Place(w, plan), Placing(at[w]),
           plan.pickup /\ plan.dest => at[w].stage \notin Asking,
           UNCHANGED <<pool, asker, quoted>>
    PROVE  GroupsKnown' /\ (SeatInv /\ Apart' => SeatInv')
<1>1. SeatPlans' = SeatPlans /\ Len(pool) <= Len(pool') /\ GroupKeys /\ asker' = asker
  BY LenProperties DEF SeatPlans, GroupsKnown, GroupKeys
<1>2. CASE plan.pickup /\ plan.dest
  <2>1. PICK whole : whole = [plan EXCEPT !.trip = planned + 1]
    OBVIOUS
  <2>2. /\ group' = whole /\ stage' = stage /\ Continue(w, "plan seat", whole)
    BY <1>2, <2>1 DEF Place
  <2>3. whole \in SeatPlans
    BY <2>1 DEF SeatPlans
  <2>4. /\ Untouched(w) /\ at'[w].step = "plan seat" /\ at'[w].item = whole
        /\ at'[w].text = at[w].text /\ at'[w].stage = at[w].stage
    BY <2>2, GoesOnWithMessage
  <2>5. Placing(at[w])'
    BY <2>4, SameMessage
  <2>6. GroupHand(w)'
    BY <1>1, <2>3, <2>4, <2>5 DEF GroupHand
  <2>7. GroupKeys'
    BY <1>1, <2>2, <2>3 DEF GroupKeys
  <2>8. GroupsKnown'
    BY <1>1, <2>4, <2>6, <2>7, GroupsByHandler
  <2>9. QED  BY <1>2, <2>2, <2>4, <2>8, SeatPlacing
<1>3. CASE ~(plan.pickup /\ plan.dest)
  <2>1. /\ group' = plan /\ Finish(w)
        /\ stage' \in {"group_awaiting_destination", "none", "group_awaiting_pickup"}
    BY <1>3 DEF Place
  <2>2. Untouched(w) /\ at'[w] = Listening /\ GroupHand(w)'
    BY <2>1, DoneHasNoSeat
  <2>3. GroupKeys'
    BY <1>1, <2>1 DEF GroupKeys
  <2>4. GroupsKnown'
    BY <1>1, <2>2, <2>3, GroupsByHandler
  <2>5. ShownIfPlaced(group)' /\ stage' \notin Asking
    BY <1>3, <2>1 DEF ShownIfPlaced, Placed, Asking
  <2>6. QED  BY <2>2, <2>4, <2>5, ListeningIsQuiet, SeatByHandler, SeatsStay
<1>4. QED  BY <1>2, <1>3

LEMMA StartGroupKeepsSeats ==
    ASSUME GroupsKnown, HandlersForm, planned \in Nat, NEW w \in Webhooks, StartGroup(w)
    PROVE  GroupsKnown' /\ (SeatInv /\ Apart' => SeatInv')
<1>1. UNCHANGED <<pool, asker, quoted>>
  BY DEF StartGroup
<1>2. CASE Reads(w, {"group ride"}) /\ Place(w, Blank)
  <2>1. Placing(at[w]) /\ ~(Blank.pickup /\ Blank.dest)
    BY <1>2 DEF Reads, Placing, Blank
  <2>2. QED  BY <1>1, <1>2, <2>1, BlankPlan, PlaceKeepsSeats DEF GroupsKnown
<1>3. CASE /\ Reads(w, {"group trip"}) /\ ReachesParser(w)
           /\ \E p, d \in BOOLEAN : Place(w, [Blank EXCEPT !.pickup = p, !.dest = d])
  <2>1. PICK p \in BOOLEAN, d \in BOOLEAN : Place(w, [Blank EXCEPT !.pickup = p, !.dest = d])
    BY <1>3
  <2>2. Placing(at[w]) /\ at[w].stage \notin Asking
    BY <1>3 DEF Reads, Placing, ReachesParser, Asking, Quiet
  <2>3. QED  BY <1>1, <2>1, <2>2, BlankPlan, PlaceKeepsSeats DEF GroupsKnown
<1>4. QED  BY <1>2, <1>3 DEF StartGroup

LEMMA ShareQuoteKeepsSeats ==
    ASSUME GroupsKnown, HandlersForm, BookedInv, NEW w \in Webhooks, ShareQuote(w)
    PROVE  GroupsKnown' /\ (SeatInv /\ Apart' => SeatInv')
<1>1. PICK plan : plan = [Blank EXCEPT !.pickup = TRUE, !.dest = TRUE, !.trip = route.id]
  OBVIOUS
<1>2. /\ route # None /\ at[w].stage = "awaiting_price" /\ at[w].text = "group"
      /\ group' = plan /\ Continue(w, "plan seat", plan)
      /\ UNCHANGED <<stage, quoted, asker, pool>>
  BY <1>1 DEF ShareQuote, EditsQuote, Reads
<1>3. Len(pool) \in Nat /\ GroupKeys
  BY LenProperties DEF GroupsKnown, GroupKeys
<1>4. route.id \in Nat
  BY <1>2 DEF BookedInv, RouteKeys
<1>5. plan \in SeatPlans /\ SeatPlans' = SeatPlans /\ Len(pool) <= Len(pool')
  <2>1. Blank \in SeatPlans
    BY <1>3, BlankPlan
  <2>2. plan \in SeatPlans
    BY <1>1, <1>4, <2>1 DEF SeatPlans
  <2>3. SeatPlans' = SeatPlans
    BY <1>2 DEF SeatPlans
  <2>4. Len(pool) <= Len(pool')
    <3>1. pool' = pool
      BY <1>2
    <3>2. QED  BY <1>3, <3>1
  <2>5. QED  BY <2>2, <2>3, <2>4, Zenon
<1>6. /\ Untouched(w) /\ at'[w].step = "plan seat" /\ at'[w].item = plan
      /\ at'[w].text = at[w].text /\ at'[w].stage = at[w].stage
  BY <1>2, GoesOnWithMessage
<1>7. Placing(at[w]) /\ Placing(at[w])' /\ at[w].stage \notin Asking
  BY <1>2, <1>6 DEF Placing, Asking
<1>8. GroupHand(w)'
  BY <1>3, <1>5, <1>6, <1>7 DEF GroupHand
<1>9. GroupKeys'
  BY <1>2, <1>3, <1>5 DEF GroupKeys
<1>10. GroupsKnown'
  BY <1>5, <1>6, <1>8, <1>9, GroupsByHandler
<1>11. QED  BY <1>2, <1>6, <1>7, <1>10, SeatPlacing

LEMMA NamePlaceKeepsSeats ==
    ASSUME GroupsKnown, HandlersForm, NEW w \in Webhooks, NamePlace(w)
    PROVE  GroupsKnown' /\ (SeatInv /\ Apart' => SeatInv')
<1>1. /\ UNCHANGED <<stage, quoted, group, asker, pool>>
      /\ at[w].stage \in GroupPlaces /\ at[w].text \in {"place", "choice", "from to"}
      /\ Finish(w) \/ \E ends : Continue(w, "locate", ends)
  BY DEF NamePlace, In
<1>2. /\ Untouched(w)
      /\ \/ at'[w] = Listening
         \/ /\ at'[w].text = at[w].text /\ at'[w].stage = at[w].stage
            /\ at'[w].step = "locate"
  BY <1>1, Finishing, GoesOnWithMessage
<1>3. at'[w].step = "locate" => Placing(at[w])' /\ at'[w].stage \in GroupPlaces
  BY <1>1, <1>2, ListeningIsQuiet DEF Placing
<1>4. at'[w].step \in {"locate", "idle"}
  BY <1>2, ListeningIsQuiet
<1>5. GroupHand(w)'
  BY <1>3, <1>4 DEF GroupHand
<1>6. GroupsKnown'
  BY <1>1, <1>2, <1>5, SameGroupKeys, GroupsByHandler DEF GroupsKnown
<1>7. QED  BY <1>1, <1>2, <1>4, <1>6, SeatByHandler, SeatsStay

LEMMA LocateKeepsSeats ==
    ASSUME GroupsKnown, HandlersForm, planned \in Nat, NEW w \in Webhooks, Locate(w)
    PROVE  GroupsKnown' /\ (SeatInv /\ Apart' => SeatInv')
<1>1. PICK plan : plan = IF group = None THEN Blank ELSE group
  OBVIOUS
<1>2. PICK p \in BOOLEAN, d \in BOOLEAN :
        p = (plan.pickup \/ "pickup" \in at[w].item) /\ d = (plan.dest \/ "dest" \in at[w].item)
  OBVIOUS
<1>3. PICK next : next = [plan EXCEPT !.pickup = p, !.dest = d]
  OBVIOUS
<1>4. /\ Place(w, next) /\ at[w].step = "locate" /\ UNCHANGED <<pool, asker, quoted>>
  BY <1>1, <1>2, <1>3 DEF Locate
<1>5. plan \in SeatPlans
  BY <1>1, BlankPlan DEF GroupsKnown, GroupKeys
<1>6. next \in SeatPlans
  BY <1>3, <1>5 DEF SeatPlans
<1>7. Placing(at[w]) /\ at[w].stage \notin Asking
  BY <1>4 DEF GroupsKnown, GroupHand, GroupPlaces, Asking
<1>8. QED  BY <1>4, <1>6, <1>7, PlaceKeepsSeats

LEMMA QuoteSeatKeepsSeats ==
    ASSUME GroupsKnown, HandlersForm, NEW w \in Webhooks, QuoteSeat(w)
    PROVE  GroupsKnown' /\ (SeatInv /\ Apart' => SeatInv')
<1>1. PICK plan : plan = [at[w].item EXCEPT !.fare = at[w].item.trip]
  OBVIOUS
<1>2. /\ at[w].step = "plan seat" /\ Finish(w) /\ group' = plan
      /\ quoted' = quoted \cup {at[w].item.trip} /\ UNCHANGED <<asker, pool>>
  BY <1>1 DEF QuoteSeat
<1>3. at[w].item \in SeatPlans /\ Placing(at[w])
  BY <1>2 DEF GroupsKnown, GroupHand
<1>4. plan \in SeatPlans /\ plan.trip = at[w].item.trip /\ plan.fare = plan.trip
  BY <1>1, <1>3 DEF SeatPlans
<1>5. Untouched(w) /\ at'[w] = Listening /\ GroupHand(w)'
  BY <1>2, DoneHasNoSeat
<1>6. GroupKeys' /\ Len(pool) <= Len(pool')
  <2>1. GroupKeys /\ Len(pool) \in Nat
    BY LenProperties DEF GroupsKnown, GroupKeys
  <2>2. SeatPlans' = SeatPlans
    BY <1>2 DEF SeatPlans
  <2>3. Len(pool) <= Len(pool')
    <3>1. pool' = pool
      BY <1>2
    <3>2. QED  BY <2>1, <3>1
  <2>4. GroupKeys'
    BY <1>2, <1>4, <2>1, <2>2 DEF GroupKeys
  <2>5. QED  BY <2>3, <2>4
<1>7. ShownIfPlaced(group)'
  BY <1>2, <1>4 DEF ShownIfPlaced, Shown
<1>8. QED  BY <1>2, <1>3, <1>5, <1>6, <1>7, GroupsByHandler, SeatsStay, SeatAsking

(* The keys with the pool as it is, and another plan or another request *)
LEMMA PlanReplaced ==
    ASSUME GroupKeys, pool' = pool, group' # None => group' \in SeatPlans,
           asker' \in 0..Len(pool)
    PROVE  /\ GroupKeys' /\ Len(pool) <= Len(pool')
           /\ SeatPlans' = SeatPlans /\ 0..Len(pool)' = 0..Len(pool)
<1>1. Len(pool) \in Nat
  BY LenProperties DEF GroupKeys
<1>2. SeatPlans' = SeatPlans
  BY DEF SeatPlans
<1>3. Len(pool) <= Len(pool')
  BY <1>1
<1>4. GroupKeys'
  BY <1>2 DEF GroupKeys
<1>5. QED  BY <1>2, <1>3, <1>4

LEMMA ConfirmSeatKeepsSeats ==
    ASSUME GroupsKnown, HandlersForm, NEW w \in Webhooks, ConfirmSeat(w)
    PROVE  GroupsKnown' /\ (SeatInv /\ Apart' => SeatInv')
<1>0. GroupKeys
  BY DEF GroupsKnown
<1>1. PICK plan : plan = [group EXCEPT !.fare = Own]
  OBVIOUS
<1>2. /\ Continue(w, "ask", None) /\ Answering(at[w])
      /\ group' = group \/ (group # None /\ group' = plan)
      /\ UNCHANGED <<stage, quoted>> /\ pool' = pool /\ asker' = asker
  BY <1>1 DEF ConfirmSeat, In, Reads, Answering
<1>3. group # None => plan \in SeatPlans
  BY <1>0, <1>1 DEF GroupKeys, SeatPlans, Own
<1>4. GroupKeys' /\ Len(pool) <= Len(pool')
  BY <1>0, <1>2, <1>3, PlanReplaced DEF GroupKeys
<1>5. /\ Untouched(w) /\ at'[w].step = "ask"
      /\ at'[w].text = at[w].text /\ at'[w].stage = at[w].stage
  BY <1>2, GoesOnWithMessage
<1>6. Answering(at[w])'
  BY <1>2, <1>5, SameMessage
<1>7. GroupHand(w)'
  BY <1>5, <1>6 DEF GroupHand
<1>8. GroupsKnown'
  BY <1>4, <1>5, <1>7, GroupsByHandler
<1>9. ASSUME SeatInv  PROVE ShownIfPlaced(group)'
  <2>1. ShownIfPlaced(group)
    BY <1>2, <1>9 DEF SeatInv, GroupShown
  <2>2. group # None => plan.trip = group.trip /\ plan.fare = Own
                        /\ plan.pickup = group.pickup /\ plan.dest = group.dest
    BY <1>0, <1>1 DEF GroupKeys, SeatPlans, Own
  <2>3. group' = group \/ (group # None /\ group' = plan)
    BY <1>2
  <2>4. CASE group' = group
    BY <1>2, <2>1, <2>4 DEF ShownIfPlaced, Shown
  <2>5. CASE group # None /\ group' = plan
    BY <1>2, <2>1, <2>2, <2>5 DEF ShownIfPlaced, Shown, Placed
  <2>6. QED  BY <2>3, <2>4, <2>5
<1>10. QED  BY <1>2, <1>5, <1>8, <1>9, SeatByHandler, SeatsStay

LEMMA AskSeatKeepsSeats ==
    ASSUME GroupsKnown, HandlersForm, NEW w \in Webhooks, AskSeat(w)
    PROVE  GroupsKnown' /\ (SeatInv /\ Apart' => SeatInv')
<1>0. GroupKeys /\ Len(pool) \in Nat
  BY LenProperties DEF GroupsKnown, GroupKeys
<1>1. at[w].step = "ask" /\ group' = group /\ asker' = asker /\ quoted' = quoted
  BY DEF AskSeat
<1>2. Answering(at[w])
  BY <1>1 DEF GroupsKnown, GroupHand
<1>3. CASE Placed(group)
  <2>1. PICK seat : seat = [status |-> "PENDING", trip |-> group.trip, fare |-> group.fare]
    OBVIOUS
  <2>2. PICK plan : plan = [group EXCEPT !.request = Len(pool) + 1, !.tries = 0]
    OBVIOUS
  <2>3. pool' = Append(pool, seat) /\ Continue(w, "asked", plan) /\ stage' = stage
    BY <1>3, <2>1, <2>2 DEF AskSeat
  <2>4. group # None /\ group \in SeatPlans
    BY <1>0, <1>3 DEF Placed, GroupKeys
  <2>5. seat \in Seats
    <3>1. group.trip \in Nat /\ group.fare \in Int
      BY <2>4 DEF SeatPlans
    <3>2. QED  BY <2>1, <3>1 DEF Seats, SeatStatuses
  <2>6. /\ pool' \in Seq(Seats) /\ Len(pool') = Len(pool) + 1
        /\ \A q \in DOMAIN pool' : pool'[q] = seat \/ (q \in DOMAIN pool /\ pool'[q] = pool[q])
    <3>1. /\ pool' \in Seq(Seats) /\ Len(pool') = Len(pool) + 1
          /\ \A q \in 1..Len(pool) : pool'[q] = pool[q]
          /\ pool'[Len(pool) + 1] = seat
      BY <1>0, <2>3, <2>5, AppendProperties DEF GroupKeys
    <3>2. DOMAIN pool = 1..Len(pool) /\ DOMAIN pool' = 1..Len(pool')
      BY <1>0, <3>1, LenProperties DEF GroupKeys
    <3>3. \A q \in 1..Len(pool') : q = Len(pool) + 1 \/ q \in 1..Len(pool)
      BY <1>0, <3>1
    <3>4. QED  BY <3>1, <3>2, <3>3
  <2>7. 0..Len(pool) \subseteq 0..Len(pool') /\ Len(pool) + 1 \in 0..Len(pool')
        /\ Len(pool) <= Len(pool')
    BY <1>0, <2>6
  <2>8. group \in SeatPlans'
    BY <2>4, <2>7 DEF SeatPlans
  <2>9. plan \in SeatPlans' /\ plan.trip = group.trip /\ plan.fare = group.fare
        /\ plan.pickup = group.pickup /\ plan.dest = group.dest
    BY <2>2, <2>4, <2>7 DEF SeatPlans
  <2>10. GroupKeys'
    <3>1. asker' \in 0..Len(pool')
      BY <1>0, <1>1, <2>7 DEF GroupKeys
    <3>2. QED  BY <1>1, <2>6, <2>8, <3>1 DEF GroupKeys
  <2>11. /\ Untouched(w) /\ at'[w].step = "asked" /\ at'[w].item = plan
         /\ at'[w].text = at[w].text /\ at'[w].stage = at[w].stage
    BY <2>3, GoesOnWithMessage
  <2>12. Answering(at[w])'
    BY <1>2, <2>11, SameMessage
  <2>13. GroupHand(w)'
    BY <2>9, <2>11, <2>12 DEF GroupHand
  <2>14. GroupsKnown'
    BY <2>7, <2>10, <2>11, <2>13, GroupsByHandler
  <2>15. ASSUME SeatInv  PROVE SeatsShown' /\ ShownIfPlaced(at[w].item)'
    <3>1. Shown(group)
      BY <1>2, <1>3, <2>15 DEF SeatInv, GroupShown, ShownIfPlaced
    <3>2. Shown(seat) /\ Shown(plan)
      BY <2>1, <2>9, <3>1 DEF Shown
    <3>3. SeatsShown'
      BY <1>1, <2>6, <2>15, <3>2 DEF SeatInv, SeatsShown, Shown
    <3>4. QED  BY <1>1, <2>11, <3>2, <3>3 DEF ShownIfPlaced, Shown
  <2>16. QED  BY <1>1, <2>3, <2>11, <2>14, <2>15, SeatByHandler
<1>4. CASE ~Placed(group)
  <2>1. stage' = "none" /\ Finish(w) /\ pool' = pool
    BY <1>4 DEF AskSeat
  <2>2. Untouched(w) /\ at'[w] = Listening /\ GroupHand(w)'
    BY <2>1, DoneHasNoSeat
  <2>3. GroupKeys' /\ Len(pool) <= Len(pool')
    BY <1>0, <1>1, <2>1, PlanReplaced DEF GroupKeys
  <2>4. GroupsKnown'
    BY <2>2, <2>3, GroupsByHandler
  <2>5. stage' \notin Asking
    BY <2>1 DEF Asking
  <2>6. QED  BY <1>1, <2>1, <2>2, <2>4, <2>5, ListeningIsQuiet, SeatByHandler, SeatsStay
<1>5. QED  BY <1>3, <1>4

LEMMA SeatAskedKeepsSeats ==
    ASSUME GroupsKnown, HandlersForm, NEW w \in Webhooks, SeatAsked(w)
    PROVE  GroupsKnown' /\ (SeatInv /\ Apart' => SeatInv')
<1>0. GroupKeys
  BY DEF GroupsKnown
<1>1. /\ at[w].step = "asked" /\ group' = at[w].item /\ asker' = at[w].item.request
      /\ quoted' = quoted /\ pool' = pool
      /\ \/ Continue(w, "store", at[w].item.request) /\ stage' = stage
         \/ Finish(w) /\ stage' = "group_awaiting_face_photo"
  BY DEF SeatAsked
<1>2. at[w].item \in SeatPlans /\ Answering(at[w]) /\ at[w].item.request \in 0..Len(pool)
  BY <1>1 DEF GroupsKnown, GroupHand, SeatPlans
<1>3. GroupKeys' /\ Len(pool) <= Len(pool')
  BY <1>0, <1>1, <1>2, PlanReplaced
<1>4. ASSUME SeatInv  PROVE ShownIfPlaced(group)'
  <2>1. ShownIfPlaced(at[w].item)
    BY <1>1, <1>4 DEF SeatInv, SeatHand
  <2>2. QED  BY <1>1, <2>1 DEF ShownIfPlaced, Shown
<1>5. CASE Continue(w, "store", at[w].item.request) /\ stage' = stage
  <2>1. /\ Untouched(w) /\ at'[w].step = "store" /\ at'[w].item = at[w].item.request
        /\ at'[w].text = at[w].text /\ at'[w].stage = at[w].stage
    BY <1>5, GoesOnWithMessage
  <2>2. Answering(at[w])'
    BY <1>2, <2>1, SameMessage
  <2>3. GroupHand(w)'
    BY <1>1, <1>2, <2>1, <2>2 DEF GroupHand
  <2>4. GroupsKnown'
    BY <1>3, <2>1, <2>3, GroupsByHandler
  <2>5. QED  BY <1>1, <1>4, <1>5, <2>1, <2>4, SeatByHandler, SeatsStay
<1>6. CASE Finish(w) /\ stage' = "group_awaiting_face_photo"
  <2>1. Untouched(w) /\ at'[w] = Listening /\ GroupHand(w)'
    BY <1>6, DoneHasNoSeat
  <2>2. GroupsKnown'
    BY <1>3, <2>1, GroupsByHandler
  <2>3. QED  BY <1>1, <1>2, <1>4, <2>1, <2>2, SeatAsking, SeatsStay
<1>7. QED  BY <1>1, <1>5, <1>6

LEMMA CopyFailsKeepsSeats ==
    ASSUME GroupsKnown, HandlersForm, NEW w \in Webhooks, CopyFails(w)
    PROVE  GroupsKnown' /\ (SeatInv /\ Apart' => SeatInv')
<1>1. /\ at[w].step = "store" /\ Finish(w) /\ quoted' = quoted
      /\ group' = group /\ pool' = pool /\ asker' = asker
  BY DEF CopyFails, groupVars
<1>2. Answering(at[w]) /\ GroupKeys
  BY <1>1 DEF GroupsKnown, GroupHand
<1>3. Untouched(w) /\ at'[w] = Listening /\ GroupHand(w)'
  BY <1>1, DoneHasNoSeat
<1>4. GroupsKnown'
  BY <1>1, <1>2, <1>3, SameGroupKeys, GroupsByHandler
<1>5. ASSUME SeatInv  PROVE ShownIfPlaced(group)'
  <2>1. ShownIfPlaced(group)
    BY <1>2, <1>5 DEF SeatInv, GroupShown
  <2>2. QED  BY <1>1, <2>1 DEF ShownIfPlaced, Shown
<1>6. QED  BY <1>1, <1>2, <1>3, <1>4, <1>5, SeatAsking, SeatsStay

LEMMA SendSelfieKeepsSeats ==
    ASSUME GroupsKnown, HandlersForm, NEW w \in Webhooks, SendSelfie(w)
    PROVE  GroupsKnown' /\ (SeatInv /\ Apart' => SeatInv')
<1>0. GroupKeys
  BY DEF GroupsKnown
<1>1. /\ quoted' = quoted /\ group' = group /\ pool' = pool /\ asker' = asker
      /\ Answering(at[w])
      /\ \/ Finish(w) /\ stage' = "none"
         \/ group # None /\ Continue(w, "judge", group) /\ stage' = stage
  BY DEF SendSelfie, groupVars, Reads, In, Answering
<1>2. GroupKeys' /\ Len(pool) <= Len(pool') /\ SeatPlans' = SeatPlans
  BY <1>0, <1>1, PlanReplaced DEF GroupKeys
<1>3. CASE Finish(w) /\ stage' = "none"
  <2>1. Untouched(w) /\ at'[w] = Listening /\ GroupHand(w)'
    BY <1>3, DoneHasNoSeat
  <2>2. GroupsKnown'
    BY <1>2, <2>1, GroupsByHandler
  <2>3. stage' \notin Asking
    BY <1>3 DEF Asking
  <2>4. QED  BY <1>1, <2>1, <2>2, <2>3, ListeningIsQuiet, SeatByHandler, SeatsStay
<1>4. CASE group # None /\ Continue(w, "judge", group) /\ stage' = stage
  <2>1. /\ Untouched(w) /\ at'[w].step = "judge" /\ at'[w].item = group
        /\ at'[w].text = at[w].text /\ at'[w].stage = at[w].stage
    BY <1>4, GoesOnWithMessage
  <2>2. Answering(at[w])' /\ group \in SeatPlans
    BY <1>0, <1>1, <1>4, <2>1, SameMessage DEF GroupKeys
  <2>3. GroupHand(w)'
    <3>1. at'[w].item \in SeatPlans' /\ at'[w].item # None
      BY <1>2, <1>4, <2>1, <2>2
    <3>2. QED  BY <2>1, <2>2, <3>1 DEF GroupHand
  <2>4. GroupsKnown'
    BY <1>2, <2>1, <2>3, GroupsByHandler
  <2>5. ASSUME SeatInv  PROVE ShownIfPlaced(at[w].item)'
    <3>1. ShownIfPlaced(group)
      BY <1>1, <2>5 DEF SeatInv, GroupShown
    <3>2. QED  BY <1>1, <2>1, <3>1 DEF ShownIfPlaced, Shown
  <2>6. QED  BY <1>1, <1>4, <2>1, <2>4, <2>5, SeatByHandler, SeatsStay
<1>5. QED  BY <1>1, <1>3, <1>4

LEMMA JudgeSelfieKeepsSeats ==
    ASSUME GroupsKnown, HandlersForm, NEW w \in Webhooks, JudgeSelfie(w)
    PROVE  GroupsKnown' /\ (SeatInv /\ Apart' => SeatInv')
<1>0. GroupKeys
  BY DEF GroupsKnown
<1>1. PICK plan : plan = [at[w].item EXCEPT !.tries = @ + 1]
  OBVIOUS
<1>2. /\ at[w].step = "judge" /\ stage' = stage /\ quoted' = quoted
      /\ pool' = pool /\ asker' = asker
      /\ \/ Continue(w, "store", at[w].item.request) /\ group' = group
         \/ Continue(w, "leave", None) /\ group' = group
         \/ Finish(w) /\ group' = plan
  BY <1>1 DEF JudgeSelfie
<1>3. at[w].item \in SeatPlans /\ Answering(at[w]) /\ at[w].item.request \in 0..Len(pool)
  BY <1>2 DEF GroupsKnown, GroupHand, SeatPlans
<1>4. /\ plan \in SeatPlans /\ plan.trip = at[w].item.trip /\ plan.fare = at[w].item.fare
      /\ plan.pickup = at[w].item.pickup /\ plan.dest = at[w].item.dest
  BY <1>1, <1>3 DEF SeatPlans
<1>5. GroupKeys' /\ Len(pool) <= Len(pool') /\ SeatPlans' = SeatPlans
  BY <1>0, <1>2, <1>4, PlanReplaced DEF GroupKeys
<1>6. CASE Finish(w) /\ group' = plan
  <2>1. Untouched(w) /\ at'[w] = Listening /\ GroupHand(w)'
    BY <1>6, DoneHasNoSeat
  <2>2. GroupsKnown'
    BY <1>5, <2>1, GroupsByHandler
  <2>3. ASSUME SeatInv  PROVE ShownIfPlaced(group)'
    <3>1. ShownIfPlaced(at[w].item) /\ at[w].item # None
      BY <1>2, <2>3 DEF SeatInv, SeatHand, GroupsKnown, GroupHand
    <3>2. at[w].item.pickup /\ at[w].item.dest => Shown(at[w].item)
      BY <3>1 DEF ShownIfPlaced, Placed
    <3>3. QED  BY <1>2, <1>4, <1>6, <3>2 DEF ShownIfPlaced, Shown, Placed
  <2>4. QED  BY <1>2, <2>1, <2>2, <2>3, ListeningIsQuiet, SeatByHandler, SeatsStay
<1>7. CASE /\ \/ Continue(w, "store", at[w].item.request)
              \/ Continue(w, "leave", None)
           /\ group' = group
  <2>1. /\ Untouched(w) /\ at'[w].text = at[w].text /\ at'[w].stage = at[w].stage
        /\ \/ at'[w].step = "store" /\ at'[w].item = at[w].item.request
           \/ at'[w].step = "leave"
    BY <1>7, GoesOnWithMessage
  <2>2. Answering(at[w])'
    BY <1>3, <2>1, SameMessage
  <2>3. at'[w].step = "store" => at'[w].item \in 0..Len(pool')
    BY <1>2, <1>3, <2>1
  <2>4. GroupHand(w)'
    BY <2>1, <2>2, <2>3 DEF GroupHand
  <2>5. GroupsKnown'
    BY <1>5, <2>1, <2>4, GroupsByHandler
  <2>6. at'[w].step \notin {"asked", "judge"}
    BY <2>1
  <2>7. QED  BY <1>2, <1>7, <2>1, <2>5, <2>6, SeatByHandler, SeatsStay
<1>8. QED  BY <1>2, <1>6, <1>7

(* A request's status changes: what was asked for stays. *)
LEMMA StatusKeepsSeats ==
    ASSUME GroupKeys, NEW q, NEW s, q \in DOMAIN pool => s \in SeatStatuses,
           pool' = [pool EXCEPT ![q].status = s], asker' \in {asker, 0},
           group' \in {group, None}
    PROVE  /\ GroupKeys' /\ Len(pool) <= Len(pool')
           /\ SeatsShown /\ quoted' = quoted => SeatsShown'
<1>1. /\ pool' \in Seq(Seats) /\ Len(pool') = Len(pool) /\ Len(pool) \in Nat
      /\ \A i \in DOMAIN pool' :
            pool'[i].trip = pool[i].trip /\ pool'[i].fare = pool[i].fare
  BY StatusChanges, LenProperties DEF GroupKeys
<1>2. DOMAIN pool' = DOMAIN pool
  BY <1>1, LenProperties DEF GroupKeys
<1>3. SeatPlans' = SeatPlans /\ asker' \in 0..Len(pool')
  <2>1. SeatPlans' = SeatPlans
    BY <1>1 DEF SeatPlans
  <2>2. asker \in 0..Len(pool)
    BY DEF GroupKeys
  <2>3. QED  BY <1>1, <2>1, <2>2
<1>4. GroupKeys'
  BY <1>1, <1>3 DEF GroupKeys
<1>5. ASSUME SeatsShown, quoted' = quoted  PROVE SeatsShown'
  BY <1>1, <1>2, <1>5 DEF SeatsShown, Shown
<1>6. QED  BY <1>1, <1>4, <1>5

LEMMA SeatCancelled ==
    ASSUME GroupKeys, NEW q \in 0..Len(pool), pool' = Cancelled(q), asker' \in {asker, 0},
           group' \in {group, None}
    PROVE  /\ GroupKeys' /\ Len(pool) <= Len(pool')
           /\ SeatsShown /\ quoted' = quoted => SeatsShown'
<1>1. CASE q = 0
  <2>1. pool' = pool /\ Len(pool) \in Nat
    BY <1>1, LenProperties DEF Cancelled, GroupKeys
  <2>2. GroupKeys' /\ Len(pool) <= Len(pool')
    BY <2>1, PlanReplaced DEF GroupKeys
  <2>3. QED  BY <2>1, <2>2 DEF SeatsShown, Shown
<1>2. CASE q # 0
  <2>1. PICK s : s = IF pool[q].status \in OpenStatus THEN "CANCELLED" ELSE pool[q].status
    OBVIOUS
  <2>2. pool' = [pool EXCEPT ![q].status = s]
    BY <1>2, <2>1 DEF Cancelled
  <2>3. q \in DOMAIN pool => s \in SeatStatuses
    <3>1. q \in DOMAIN pool => pool[q] \in Seats
      BY LenProperties DEF GroupKeys
    <3>2. q \in DOMAIN pool => pool[q].status \in SeatStatuses
      BY <3>1 DEF Seats
    <3>3. QED  BY <2>1, <3>2 DEF SeatStatuses
  <2>4. QED  BY <2>2, <2>3, StatusKeepsSeats
<1>3. QED  BY <1>1, <1>2

LEMMA ReadySeatKeepsSeats ==
    ASSUME GroupsKnown, HandlersForm, NEW w \in Webhooks, ReadySeat(w)
    PROVE  GroupsKnown' /\ (SeatInv /\ Apart' => SeatInv')
<1>1. /\ Finish(w) /\ pool' = [pool EXCEPT ![at[w].item].status = "READY"]
      /\ group' = None /\ stage' = "none" /\ quoted' = quoted /\ asker' = asker
  BY DEF ReadySeat
<1>2. GroupKeys' /\ Len(pool) <= Len(pool') /\ (SeatsShown => SeatsShown')
  <2>1. PICK q : q = at[w].item
    OBVIOUS
  <2>2. /\ pool' = [pool EXCEPT ![q].status = "READY"] 
        /\ asker' \in {asker, 0} /\ group' \in {group, None} /\ GroupKeys
    BY <1>1, <2>1 DEF GroupsKnown
  <2>3. "READY" \in SeatStatuses
    BY DEF SeatStatuses
  <2>4. QED  BY <1>1, <2>2, <2>3, StatusKeepsSeats
<1>3. Untouched(w) /\ at'[w] = Listening /\ GroupHand(w)'
  BY <1>1, DoneHasNoSeat
<1>4. GroupsKnown'
  BY <1>2, <1>3, GroupsByHandler
<1>5. ShownIfPlaced(group)' /\ stage' \notin Asking
  BY <1>1 DEF ShownIfPlaced, Placed, Asking
<1>6. QED  BY <1>1, <1>2, <1>3, <1>4, <1>5, ListeningIsQuiet, SeatByHandler DEF SeatInv

LEMMA LeavingKeepsSeats ==
    ASSUME GroupsKnown, HandlersForm, NEW w \in Webhooks, LeaveGroup(w) \/ LeftGroup(w)
    PROVE  GroupsKnown' /\ (SeatInv /\ Apart' => SeatInv')
<1>0. GroupKeys
  BY DEF GroupsKnown
<1>1. CASE LeaveGroup(w)
  <2>1. PICK q : q = IF (IF group = None THEN 0 ELSE group.request) # 0
                     THEN (IF group = None THEN 0 ELSE group.request) ELSE asker
    OBVIOUS
  <2>2. /\ pool' = Cancelled(q) /\ Continue(w, "left", None)
        /\ group' = group /\ stage' = stage /\ quoted' = quoted /\ asker' = asker
    BY <1>1, <2>1 DEF LeaveGroup
  <2>3. q \in 0..Len(pool)
    BY <1>0, <2>1 DEF GroupKeys, SeatPlans
  <2>4. GroupKeys' /\ Len(pool) <= Len(pool') /\ (SeatsShown => SeatsShown')
    BY <1>0, <2>2, <2>3, SeatCancelled
  <2>5. /\ Untouched(w) /\ at'[w].step = "left"
        /\ at'[w].text = at[w].text /\ at'[w].stage = at[w].stage
    BY <2>2, GoesOnWithMessage
  <2>6. GroupHand(w)'
    BY <2>5 DEF GroupHand
  <2>7. GroupsKnown'
    BY <2>4, <2>5, <2>6, GroupsByHandler
  <2>8. QED  BY <2>2, <2>4, <2>5, <2>7, SeatByHandler DEF SeatInv
<1>2. CASE LeftGroup(w)
  <2>1. /\ Finish(w) /\ group' = None /\ asker' = 0 /\ stage' = "none"
        /\ quoted' = quoted /\ pool' = pool /\ 0 \in 0..Len(pool)
    BY <1>0, <1>2, LenProperties DEF LeftGroup, GroupKeys
  <2>2. GroupKeys' /\ Len(pool) <= Len(pool')
    BY <1>0, <2>1, PlanReplaced
  <2>3. Untouched(w) /\ at'[w] = Listening /\ GroupHand(w)'
    BY <2>1, DoneHasNoSeat
  <2>4. GroupsKnown'
    BY <2>2, <2>3, GroupsByHandler
  <2>5. ShownIfPlaced(group)' /\ stage' \notin Asking
    BY <2>1 DEF ShownIfPlaced, Placed, Asking
  <2>6. QED  BY <2>1, <2>3, <2>4, <2>5, ListeningIsQuiet, SeatByHandler, SeatsStay
<1>3. QED  BY <1>1, <1>2

LEMMA GoNormalKeepsSeats ==
    ASSUME GroupsKnown, HandlersForm, NEW w \in Webhooks, GoNormal(w)
    PROVE  GroupsKnown' /\ (SeatInv /\ Apart' => SeatInv')
<1>0. GroupKeys /\ asker \in 0..Len(pool)
  BY DEF GroupsKnown, GroupKeys
<1>1. asker # 0 /\ stage' = stage /\ quoted' = quoted
  BY DEF GoNormal
<1>2. CASE pool[asker].status \in OpenStatus
  <2>1. /\ pool' = Cancelled(asker) /\ asker' = 0 /\ group' = None
        /\ Continue(w, "convert", pool[asker].trip)
    BY <1>2 DEF GoNormal
  <2>2. pool[asker].trip \in Nat
    <3>1. pool[asker] \in Seats
      BY <1>0, <1>1, LenProperties DEF GroupKeys
    <3>2. QED  BY <3>1 DEF Seats
  <2>3. GroupKeys' /\ Len(pool) <= Len(pool') /\ (SeatsShown => SeatsShown')
    BY <1>0, <1>1, <2>1, SeatCancelled
  <2>4. /\ Untouched(w) /\ at'[w].step = "convert" /\ at'[w].item = pool[asker].trip
        /\ at'[w].text = at[w].text /\ at'[w].stage = at[w].stage
    BY <2>1, GoesOnWithMessage
  <2>5. GroupHand(w)'
    BY <2>2, <2>4 DEF GroupHand
  <2>6. GroupsKnown'
    BY <2>3, <2>4, <2>5, GroupsByHandler
  <2>7. ShownIfPlaced(group)'
    BY <2>1 DEF ShownIfPlaced, Placed
  <2>8. QED  BY <1>1, <2>3, <2>4, <2>6, <2>7, SeatByHandler DEF SeatInv
<1>3. CASE pool[asker].status \notin OpenStatus
  <2>1. Finish(w) /\ group' = group /\ pool' = pool /\ asker' = asker
    BY <1>3 DEF GoNormal
  <2>2. Untouched(w) /\ at'[w] = Listening /\ GroupHand(w)'
    BY <2>1, DoneHasNoSeat
  <2>3. GroupsKnown'
    BY <1>0, <2>1, <2>2, SameGroupKeys, GroupsByHandler
  <2>4. QED  BY <1>1, <2>1, <2>2, <2>3, ListeningIsQuiet, SeatByHandler, SeatsStay
<1>4. QED  BY <1>2, <1>3

LEMMA ConvertedKeepsSeats ==
    ASSUME GroupsKnown, HandlersForm, NEW w \in Webhooks, Converted(w)
    PROVE  GroupsKnown' /\ (SeatInv /\ Apart' => SeatInv')
<1>1. /\ Finish(w) /\ stage' = "awaiting_price" /\ quoted \subseteq quoted'
      /\ group' = group /\ pool' = pool /\ asker' = asker
  BY DEF Converted, groupVars
<1>2. Untouched(w) /\ at'[w] = Listening /\ GroupHand(w)'
  BY <1>1, DoneHasNoSeat
<1>3. GroupsKnown'
  BY <1>1, <1>2, SameGroupKeys, GroupsByHandler DEF GroupsKnown
<1>4. stage' \notin Asking
  BY <1>1 DEF Asking
<1>5. QED  BY <1>1, <1>2, <1>3, <1>4, ListeningIsQuiet, SeatByHandler, SeatsStay

LEMMA GroupsKeepRoutes ==
    ASSUME BookedInv, GroupsKnown, HandlersForm, NEW w \in Webhooks, GroupWebhook(w)
    PROVE  BookedInv'
<1>0. planned \in Nat /\ quoted \subseteq Nat
  BY DEF BookedInv
<1>1. CASE Converted(w)
  <2>1. /\ at[w].step = "convert" /\ Finish(w) /\ route'.id = at[w].item
        /\ quoted' = quoted \cup {at[w].item}
        /\ UNCHANGED <<lastRoute, row, booked, meta, planned, active>>
    BY <1>1 DEF Converted, elsewhere, rideKeys, market
  <2>2. at[w].item \in Nat
    BY <2>1 DEF GroupsKnown, GroupHand
  <2>3. QED  BY <2>1, <2>2, QuotingKeepsRoutes
<1>2. CASE ~Converted(w)
  <2>1. /\ route' \in {route, None} /\ UNCHANGED <<lastRoute, row, booked, meta, active>>
        /\ planned' \in {planned, planned + 1}
    BY <1>2 DEF GroupWebhook, StartGroup, Place, ShareQuote, NamePlace, Locate, QuoteSeat,
                ConfirmSeat, AskSeat, SeatAsked, CopyFails, SendSelfie, JudgeSelfie, ReadySeat,
                LeaveGroup, LeftGroup, GoNormal, elsewhere, rideKeys, market
  <2>2. quoted' = quoted \/ (at[w].step = "plan seat" /\ quoted' = quoted \cup {at[w].item.trip})
    BY <1>2 DEF GroupWebhook, StartGroup, ShareQuote, NamePlace, Locate, QuoteSeat,
                ConfirmSeat, AskSeat, SeatAsked, CopyFails, SendSelfie, JudgeSelfie, ReadySeat,
                LeaveGroup, LeftGroup, GoNormal
  <2>3. at[w].step = "plan seat" => at[w].item.trip \in Nat
    BY DEF GroupsKnown, GroupHand, SeatPlans
  <2>4. quoted \subseteq quoted' /\ quoted' \subseteq Nat
    BY <1>0, <2>2, <2>3
  <2>4a. planned' \in Nat
    BY <1>0, <2>1
  <2>5. GroupSteps \cap (BookingSteps \cup {"counter"}) = {}
    BY DEF GroupSteps, BookingSteps
  <2>6. Goes(w, GroupSteps)
    BY GroupGoes
  <2>7. /\ UNCHANGED <<lastRoute, row, booked>> /\ meta' \subseteq meta
        /\ route' \in {route, None} /\ active' \in {active, None}
    BY <2>1
  <2>8. QED  BY <2>4, <2>4a, <2>5, <2>6, <2>7, BookedElsewhere
<1>3. QED  BY <1>1, <1>2

LEMMA GroupsKeepSeats ==
    ASSUME BookedInv, GroupsKnown, HandlersForm, NEW w \in Webhooks, GroupWebhook(w)
    PROVE  GroupsKnown' /\ (SeatInv /\ Apart' => SeatInv')
<1>1. planned \in Nat
  BY DEF BookedInv
<1>2. CASE StartGroup(w) \/ ShareQuote(w) \/ NamePlace(w) \/ Locate(w) \/ QuoteSeat(w)
  BY <1>1, <1>2, StartGroupKeepsSeats, ShareQuoteKeepsSeats, NamePlaceKeepsSeats,
     LocateKeepsSeats, QuoteSeatKeepsSeats
<1>3. CASE ConfirmSeat(w) \/ AskSeat(w) \/ SeatAsked(w) \/ CopyFails(w) \/ SendSelfie(w)
  BY <1>3, ConfirmSeatKeepsSeats, AskSeatKeepsSeats, SeatAskedKeepsSeats, CopyFailsKeepsSeats,
     SendSelfieKeepsSeats
<1>4. CASE JudgeSelfie(w) \/ ReadySeat(w) \/ LeaveGroup(w) \/ LeftGroup(w) \/ GoNormal(w)
           \/ Converted(w)
  BY <1>4, JudgeSelfieKeepsSeats, ReadySeatKeepsSeats, LeavingKeepsSeats, GoNormalKeepsSeats,
     ConvertedKeepsSeats
<1>5. QED  BY <1>2, <1>3, <1>4 DEF GroupWebhook

(* Without a handler's move *)
LEMMA SeatsByOthers ==
    ASSUME GroupsKnown, at' = at, asker' = asker, group' = group, quoted' = quoted,
           stage' = stage \/ stage' = "none",
           \/ pool' = pool
           \/ \E q \in DOMAIN pool : pool' = [pool EXCEPT ![q].status = "GROUPED"]
    PROVE  GroupsKnown' /\ (SeatInv => SeatInv')
<1>0. GroupKeys
  BY DEF GroupsKnown
<1>1. GroupKeys' /\ Len(pool) <= Len(pool') /\ (SeatsShown => SeatsShown')
  <2>1. CASE pool' = pool
    BY <1>0, <2>1, SameGroupKeys DEF SeatsShown, Shown
  <2>2. CASE \E q \in DOMAIN pool : pool' = [pool EXCEPT ![q].status = "GROUPED"]
    <3>1. PICK q \in DOMAIN pool : pool' = [pool EXCEPT ![q].status = "GROUPED"]
      BY <2>2
    <3>2. "GROUPED" \in SeatStatuses
      BY DEF SeatStatuses
    <3>3. QED  BY <1>0, <3>1, <3>2, StatusKeepsSeats
  <2>3. QED  BY <2>1, <2>2
<1>2. GroupsKnown'
  <2>1. Len(pool) \in Nat /\ Len(pool') \in Nat
    BY <1>0, <1>1, LenProperties DEF GroupKeys
  <2>2. SeatPlans \subseteq SeatPlans' /\ 0..Len(pool) \subseteq 0..Len(pool')
    BY <1>1, <2>1 DEF SeatPlans
  <2>3. ASSUME NEW w \in Webhooks  PROVE GroupHand(w)'
    <3>1. at'[w] = at[w] /\ GroupHand(w)
      BY DEF GroupsKnown
    <3>2. QED  BY <2>2, <3>1 DEF GroupHand
  <2>4. QED  BY <1>1, <2>3 DEF GroupsKnown
<1>3. ASSUME SeatInv  PROVE SeatInv'
  <2>1. Apart'
    BY <1>3 DEF SeatInv, Apart
  <2>2. GroupShown'
    BY <1>3 DEF SeatInv, GroupShown, ShownIfPlaced, Shown, Asking
  <2>3. ASSUME NEW w \in Webhooks  PROVE SeatHand(w)'
    <3>1. at'[w] = at[w] /\ SeatHand(w)
      BY <1>3 DEF SeatInv
    <3>2. QED  BY <3>1 DEF SeatHand, ShownIfPlaced, Shown, Asking
  <2>4. QED  BY <1>1, <1>3, <2>1, <2>2, <2>3 DEF SeatInv
<1>4. QED  BY <1>2, <1>3

-----------------------------------------------------------------------------
(* The whole conversation *)

ConversationInv ==
    /\ HandlersForm /\ FareInv /\ BankInv /\ BookedInv
    /\ GroupsKnown /\ (~crossed => SeatInv)

LEMMA ConversationBegins == ConversationInit => ConversationInv
<1> SUFFICES ASSUME ConversationInit  PROVE ConversationInv
  OBVIOUS
<1> USE DEF ConversationInit, WhatsAppInit
<1>1. at = [w \in Webhooks |-> Listening]
  OBVIOUS
<1>2. HandlersForm
  <2>1. \A w \in Webhooks : at[w] = [text |-> at[w].text, ride |-> at[w].ride,
                                     stage |-> at[w].stage, item |-> at[w].item,
                                     step |-> at[w].step]
    BY <1>1 DEF Listening
  <2>2. at = [w \in Webhooks |-> at[w]]
    BY <1>1
  <2>3. QED  BY <2>1, <2>2, Zenon DEF HandlersForm
<1>3. \A w \in Webhooks : at[w].step = "idle" /\ at[w].ride = None /\ ~Placing(at[w])
  <2>1. ASSUME NEW w \in Webhooks
        PROVE  at[w].step = "idle" /\ at[w].ride = None /\ ~Placing(at[w])
    <3>1. at[w] = Listening
      BY <1>1
    <3>2. QED  BY <3>1, ListeningIsQuiet DEF Listening
  <2>2. QED  BY <2>1
<1>4. FareInv
  <2>1. BatchListed
    BY DEF BatchListed, Range
  <2>2. QED  BY <1>3, <2>1 DEF FareInv, FareWasListed
<1>5. BankInv
  BY <1>3 DEF BankInv, PendingSeen, FormInHand, SubmittedAsShown
<1>6. BookedInv
  <2>1. PICK first : first = CHOOSE r \in Rides : TRUE
    OBVIOUS
  <2>2. PICK under : under = IF traffic = "bidding" THEN {first} ELSE {}
    OBVIOUS
  <2>3. first \in Rides
    BY <2>1, WhatsAppAssumption
  <2>4. /\ active = (IF under = {} THEN None ELSE first)
        /\ lastRoute = (IF under = {} THEN None ELSE 1)
        /\ planned = Cardinality(under) /\ quoted = 1..planned /\ meta = under
        /\ row = [r \in Rides |-> IF r \in under THEN "OPEN" ELSE "none"]
        /\ booked = [r \in Rides |-> IF r \in under THEN 1 ELSE 0]
    BY <2>1, <2>2
  <2>5. \/ under = {} /\ planned = 0 /\ quoted = 1..0
        \/ under = {first} /\ planned = 1 /\ quoted = 1..1
    BY <2>2, <2>4, FS_EmptySet, FS_Singleton
  <2>6. RidesKnown /\ RouteKeys
    BY <1>3, <2>3, <2>4, <2>5 DEF RidesKnown, RouteKeys
  <2>7. RowsBooked /\ MetaKnown
    <3>1. /\ DOMAIN row = Rides /\ DOMAIN booked = Rides
          /\ \A r \in Rides \ under : row[r] = "none" /\ booked[r] = 0
          /\ \A r \in Rides \cap under : row[r] = "OPEN" /\ booked[r] = 1
      BY <2>4
    <3>2. \A r \in under : 1 \in quoted /\ r \in Rides
      BY <2>3, <2>5
    <3>3. QED  BY <2>4, <3>1, <3>2 DEF RowsBooked, MetaKnown
  <2>8. \A w \in Webhooks : RouteInHand(w)
    BY <1>3 DEF RouteInHand
  <2>9. planned \in Nat /\ quoted \subseteq Nat
    BY <2>5
  <2>10. QED  BY <2>6, <2>7, <2>8, <2>9 DEF BookedInv
<1>7. GroupsKnown
  <2>1. pool \in Seq(Seats) /\ asker \in 0..Len(pool)
    BY EmptySeq
  <2>2. QED  BY <1>3, <2>1 DEF GroupsKnown, GroupKeys, GroupHand
<1>8. SeatInv
  BY <1>3 DEF SeatInv, Apart, GroupShown, ShownIfPlaced, Placed, SeatsShown, SeatHand
<1>9. QED  BY <1>2, <1>4, <1>5, <1>6, <1>7, <1>8 DEF ConversationInv

LEMMA StepKinds ==
    ASSUME ConversationNext
    PROVE  \/ UNCHANGED groupVars /\ \E w \in Webhooks : Webhook(w)
           \/ \E w \in Webhooks : GroupWebhook(w)
           \/ UNCHANGED groupVars
              /\ \E r \in Rides : Consumer(r) \/ DriverBids(r) \/ RideService(r) \/ Lapse
           \/ Grouped
BY WhatsAppAssumption DEF ConversationNext, Others, Webhook

(* Where no handler is placing while another is, or answers, the flag stays*)
(* down.                                                                   *)
LEMMA CrossedStays ==
    ASSUME ConversationNext, ~crossed'
    PROVE  ~crossed /\ Apart'
<1>1. crossed' = (crossed \/ \E v, w \in Webhooks :
                     v # w /\ Placing(at'[v]) /\ (Placing(at'[w]) \/ Answering(at'[w])))
  BY DEF ConversationNext
<1>2. QED  BY <1>1 DEF Apart, Placing, Answering

LEMMA HandlersKeepForm ==
    ASSUME HandlersForm, NEW w \in Webhooks, Webhook(w) \/ GroupWebhook(w)
    PROVE  HandlersForm'
<1>1. CASE Receive(w)
  BY <1>1, Receiving
<1>2. CASE ~Receive(w)
  <2>1. Goes(w, {}) \/ Goes(w, BookingSteps) \/ Goes(w, BiddingSteps) \/ Goes(w, BankSteps)
        \/ Goes(w, GroupSteps)
    BY <1>2, WebhookKinds, ChattingGoes, GoesOut, BookingGoes, BiddingGoes, BankingGoes, GroupGoes
  <2>2. QED  BY <2>1, Going
<1>3. QED  BY <1>1, <1>2

LEMMA ByWebhook ==
    ASSUME ConversationInv, NEW w \in Webhooks, Webhook(w), UNCHANGED groupVars,
           ~crossed' => ~crossed /\ Apart'
    PROVE  ConversationInv'
<1>1. HandlersForm /\ FareInv /\ BankInv /\ BookedInv /\ GroupsKnown /\ RidesKnown
  BY DEF ConversationInv, BookedInv
<1>2. HandlersForm'
  BY <1>1, HandlersKeepForm
<1>3. CASE Receive(w)
  <2>1. FareInv' /\ BankInv' /\ BookedInv' /\ GroupsKnown'
    BY <1>1, <1>3, ReceivingKeepsFares, ReceivingKeepsPurse, ReceivingKeepsRoutes, OthersKeepGroups
  <2>2. ~crossed' => SeatInv'
    BY <1>1, <1>3, ReceivingKeepsSeats DEF ConversationInv
  <2>3. QED  BY <1>2, <2>1, <2>2 DEF ConversationInv
<1>4. CASE Chatting(w) \/ Booking(w) \/ Bidding(w) \/ Banking(w)
  <2>1. FareInv'
    BY <1>1, <1>4, ChattingKeepsFares, BookingKeepsFares, BiddingKeepsFares, BankingKeepsFares
  <2>2. BankInv'
    BY <1>1, <1>4, OthersKeepPurse, BankingKeepsPurse
  <2>3. BookedInv'
    BY <1>1, <1>4, ChattingKeepsRoutes, BookingKeepsRoutes, BiddingKeepsRoutes, BankingKeepsRoutes
  <2>4. GroupsKnown'
    BY <1>1, <1>4, OthersKeepGroups
  <2>5. ~crossed' => SeatInv'
    BY <1>1, <1>4, OthersKeepSeats DEF ConversationInv
  <2>6. QED  BY <1>2, <2>1, <2>2, <2>3, <2>4, <2>5 DEF ConversationInv
<1>5. QED  BY <1>3, <1>4, WebhookKinds

LEMMA ByGroupWebhook ==
    ASSUME ConversationInv, NEW w \in Webhooks, GroupWebhook(w),
           ~crossed' => ~crossed /\ Apart'
    PROVE  ConversationInv'
<1>1. HandlersForm /\ FareInv /\ BankInv /\ BookedInv /\ GroupsKnown
  BY DEF ConversationInv
<1>2. HandlersForm'
  BY <1>1, HandlersKeepForm
<1>3. FareInv' /\ BankInv' /\ BookedInv'
  BY <1>1, GroupsKeepFares, OthersKeepPurse, GroupsKeepRoutes
<1>4. GroupsKnown' /\ (~crossed' => SeatInv')
  BY <1>1, GroupsKeepSeats DEF ConversationInv
<1>5. QED  BY <1>2, <1>3, <1>4 DEF ConversationInv

LEMMA ByOthers ==
    ASSUME ConversationInv, NEW r \in Rides, UNCHANGED groupVars,
           Consumer(r) \/ DriverBids(r) \/ RideService(r) \/ Lapse,
           ~crossed' => ~crossed
    PROVE  ConversationInv'
<1>1. HandlersForm /\ FareInv /\ BankInv /\ BookedInv /\ GroupsKnown
  BY DEF ConversationInv
<1>2. /\ at' = at /\ quoted' = quoted /\ (stage' = stage \/ stage' = "none")
  BY DEF Consumer, TakeBid, Flush, RideOver, DriverAssigned, DriverBids, RideService, Lapse,
         told, keys
<1>3. HandlersForm'
  BY <1>1, <1>2 DEF HandlersForm
<1>4. FareInv' /\ BankInv' /\ BookedInv'
  BY <1>1, ConsumerKeepsFares, ConsumerKeepsPurse, ConsumerKeepsRoutes
<1>5. GroupsKnown' /\ (SeatInv => SeatInv')
  BY <1>1, <1>2, SeatsByOthers DEF groupVars
<1>6. QED  BY <1>3, <1>4, <1>5 DEF ConversationInv

LEMMA ConversationElsewhere ==
    ASSUME ConversationInv, UNCHANGED whatsappVars, asker' = asker, group' = group,
           \/ pool' = pool
           \/ \E q \in DOMAIN pool : pool' = [pool EXCEPT ![q].status = "GROUPED"],
           ~crossed' => ~crossed
    PROVE  ConversationInv'
<1> USE DEF whatsappVars, keys, rideKeys, told, market, purse
<1>1. HandlersForm'
  BY DEF ConversationInv, HandlersForm
<1>2. FareInv'
  BY DEF ConversationInv, FareInv, BatchListed, FareWasListed
<1>3. BankInv'
  BY DEF ConversationInv, BankInv, PendingSeen, Seen, FormInHand, SubmittedAsShown, Announced,
         OnTheirWay, FormOf, Details
<1>4. BookedInv'
  BY DEF ConversationInv, BookedInv, RidesKnown, RouteKeys, RowsBooked, MetaKnown, RouteInHand
<1>5. GroupsKnown' /\ (SeatInv => SeatInv')
  BY SeatsByOthers DEF ConversationInv
<1>6. QED  BY <1>1, <1>2, <1>3, <1>4, <1>5 DEF ConversationInv

LEMMA ConversationGoesOn ==
    ConversationInv /\ [ConversationNext]_<<whatsappVars, groupVars, crossed>> => ConversationInv'
<1>1. ASSUME ConversationInv, ConversationNext  PROVE ConversationInv'
  <2>1. ~crossed' => ~crossed /\ Apart'
    BY <1>1, CrossedStays
  <2>2. ASSUME NEW w \in Webhooks, Webhook(w), UNCHANGED groupVars  PROVE ConversationInv'
    BY <1>1, <2>1, <2>2, ByWebhook
  <2>3. ASSUME NEW w \in Webhooks, GroupWebhook(w)  PROVE ConversationInv'
    BY <1>1, <2>1, <2>3, ByGroupWebhook
  <2>4. ASSUME NEW r \in Rides, Consumer(r) \/ DriverBids(r) \/ RideService(r) \/ Lapse,
               UNCHANGED groupVars
        PROVE  ConversationInv'
    BY <1>1, <2>1, <2>4, ByOthers
  <2>5. ASSUME Grouped  PROVE ConversationInv'
    <3>1. /\ UNCHANGED whatsappVars /\ asker' = asker /\ group' = group
          /\ \E q \in DOMAIN pool : pool' = [pool EXCEPT ![q].status = "GROUPED"]
      BY <2>5 DEF Grouped
    <3>2. QED  BY <1>1, <2>1, <3>1, ConversationElsewhere
  <2>6. QED  BY <1>1, <2>2, <2>3, <2>4, <2>5, StepKinds
<1>2. ASSUME ConversationInv, UNCHANGED <<whatsappVars, groupVars, crossed>>
      PROVE  ConversationInv'
  <2>1. UNCHANGED whatsappVars /\ asker' = asker /\ group' = group /\ pool' = pool
        /\ crossed' = crossed
    BY <1>2 DEF groupVars
  <2>2. QED  BY <1>2, <2>1, ConversationElsewhere
<1>3. QED  BY <1>1, <1>2

(* However the messages of one rider are handled at once, and with the     *)
(* consumer and the keys that run out: what is in the handlers' hands, in  *)
(* the keys and in the rows hangs together as ConversationInv says.        *)
THEOREM ConversationInvariant == ConversationSpec => []ConversationInv
BY ConversationBegins, ConversationGoesOn, PTL DEF ConversationSpec

(* AskedAsShown for any number of webhooks, messages, rides and requests:  *)
(* no ride is requested over a route its rider has not been shown, no seat *)
(* asked for but at the price quoted for its route or at the rider's own.  *)
THEOREM SeatsAskedAsShown == ConversationSpec => []AskedAsShown
<1>1. ConversationInv => AskedAsShown
  <2>1. ASSUME ConversationInv, NEW r \in Rides, booked[r] # 0  PROVE booked[r] \in quoted
    BY <2>1 DEF ConversationInv, BookedInv, RowsBooked
  <2>2. ASSUME ConversationInv, NEW q \in DOMAIN pool, ~crossed
        PROVE  pool[q].trip \in quoted /\ pool[q].fare \in {pool[q].trip, Own}
    BY <2>2 DEF ConversationInv, SeatInv, SeatsShown, Shown
  <2>3. QED  BY <2>1, <2>2 DEF AskedAsShown, BookedRouteWasShown
<1>2. QED  BY <1>1, ConversationInvariant, PTL

(* FareWasListed: every fare held and agreed in the rider's name is a      *)
(* driver's price the rider was sent for that ride, although the numbered  *)
(* list is rewritten while a choice is handled.                            *)
THEOREM FaresAreListed == ConversationSpec => []FareWasListed
<1>1. ConversationInv => FareWasListed
  BY DEF ConversationInv, FareInv
<1>2. QED  BY <1>1, ConversationInvariant, PTL

(* SubmittedAsShown: the amount, the bank and the account of a withdrawal  *)
(* that is submitted stand together in a form that was sent, is about to   *)
(* be, failed to go out, or had another bank written over it by a late     *)
(* answer; nothing else is ever submitted.                                 *)
THEOREM WithdrawalsAreShown == ConversationSpec => []SubmittedAsShown
<1>1. ConversationInv => SubmittedAsShown
  BY DEF ConversationInv, BankInv
<1>2. QED  BY <1>1, ConversationInvariant, PTL
=============================================================================

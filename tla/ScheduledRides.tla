---------------------------- MODULE ScheduledRides ----------------------------
(***************************************************************************)
(* Scheduled rides: booked now, turned into a live ride when their time    *)
(* comes.  The row's status (scheduled-ride.client.ts) is what everyone    *)
(* agrees on; the BullMQ job of a ride and the recovery scanner of         *)
(* scheduled-rides.handler.ts both dispatch it, and the rider may cancel.  *)
(* A dispatch writes RIDE_REQUESTED to the outbox in the transaction that  *)
(* closes the row, and outbox-publisher.ts of the gateway puts it on the   *)
(* topic.  A referral cashback reserved for the scheduled ride moves to    *)
(* the live one.                                                           *)
(*                                                                         *)
(* A live ride is known by the place of its event in the outbox.           *)
(***************************************************************************)
EXTENDS Naturals, Sequences, FiniteSets

CONSTANTS
    Bookings,   \* ids of scheduled rides
    JobRunners, \* BullMQ processors inside ride-service
    Scanners,   \* runs of the recovery scanner; the timer does not wait for the last
    Attempts,   \* BullMQ attempts of a job
    MaxFaults   \* bound on failed transactions, failed sends and crashes

ASSUME ScheduledRidesAssumption ==
    /\ JobRunners \cap Scanners = {}
    /\ Attempts \in Nat \ {0}
    /\ MaxFaults \in Nat

VARIABLES
    status,     \* ScheduledRide.status ("NONE": no row yet)
    requested,  \* ScheduledRide.requestedRideId, 0 for none
    phase,      \* "early", "due" (within the lead time) or "missed" (24 h past)
    quiet,      \* bookings whose row was last written more than 60 s ago
    job,        \* the BullMQ job of each booking
    tries,      \* attempts it has used
    cashback,   \* the cashback usage row: its status and the live ride it is for
    outbox,     \* OutboxEvent rows: the booking each is for, and publishedAt
    topic,      \* live rides whose RIDE_REQUESTED is on the topic
    dispatcher, \* where each runner and scanner is
    publisher,  \* where the outbox publisher is
    cancelling, \* bookings cancelled, or not made, whose cashback is still to be released
    faults,     \* faults so far, for the bound
    overtaken,  \* bookings whose claim was taken back from someone still at work
    recalled,   \* bookings their rider cancelled while they were being dispatched
    unanswered  \* bookings whose creation failed, or whose answer was lost

rows == <<status, requested>>
jobs == <<job, tries>>
vars == <<rows, phase, quiet, jobs, cashback, outbox, topic, dispatcher,
          publisher, cancelling, faults, overtaken, recalled, unanswered>>

Statuses == {"NONE", "SCHEDULED", "DISPATCHING", "DISPATCHED", "CANCELLED", "EXPIRED"}
Jobs == {"none", "waiting", "active", "done", "failed"}
Cashbacks == {"NONE", "RESERVED", "RELEASED"}
Dispatchers == JobRunners \cup Scanners

Idle == [at |-> "idle", due |-> {}]
Working(at, b, due) == [at |-> at, booking |-> b, due |-> due]
Resting == [at |-> "idle", batch |-> {}, sent |-> {}]

Init ==
    /\ status = [b \in Bookings |-> "NONE"]
    /\ requested = [b \in Bookings |-> 0]
    /\ phase = [b \in Bookings |-> "early"]
    /\ quiet = {}
    /\ job = [b \in Bookings |-> "none"]
    /\ tries = [b \in Bookings |-> 0]
    /\ cashback = [b \in Bookings |-> [status |-> "NONE", ride |-> 0]]
    /\ outbox = <<>>
    /\ topic = {}
    /\ dispatcher = [p \in Dispatchers |-> Idle]
    /\ publisher = Resting
    /\ cancelling = {}
    /\ faults = 0
    /\ overtaken = {}
    /\ recalled = {}
    /\ unanswered = {}

(* Faulty variants, each one slip in the code it stands for. *)
ClaimableWhateverStatus(b) == status[b] \in {"SCHEDULED", "DISPATCHING", "DISPATCHED"}
StuckByBooking(b) == status[b] = "SCHEDULED" /\ b \in quiet
CashbackLeft(b, ride) == cashback' = cashback
MarkWholeBatch == publisher.batch \cup publisher.sent

Fault == faults < MaxFaults /\ faults' = faults + 1

-----------------------------------------------------------------------------
(***************************************************************************)
(* scheduled-ride.client.ts                                                *)
(***************************************************************************)
(* Every write of a row renews its updatedAt. *)
Write(b, s) == status' = [status EXCEPT ![b] = s]
Renew(written) == quiet' = quiet \ written

(* claimForDispatch. *)
Claimable(b) == status[b] = "SCHEDULED"

(* releaseStuckDispatching. *)
Stuck(b) == status[b] = "DISPATCHING" /\ b \in quiet

(* findDueForDispatch. *)
Due(b) == status[b] = "SCHEDULED" /\ phase[b] # "early"

(* The reserved usage of the scheduled ride becomes the live ride's. *)
MoveCashback(b, ride) ==
    cashback' = IF cashback[b] = [status |-> "RESERVED", ride |-> 0]
                THEN [cashback EXCEPT ![b].ride = ride] ELSE cashback

(* releaseRideCashback by the id of the scheduled ride. *)
ReleaseCashback(b) ==
    cashback' = IF cashback[b] = [status |-> "RESERVED", ride |-> 0]
                THEN [cashback EXCEPT ![b].status = "RELEASED"] ELSE cashback

-----------------------------------------------------------------------------
(***************************************************************************)
(* The gateway: POST /scheduled-rides and its cancel                       *)
(***************************************************************************)
Unmade(b) == status[b] = "NONE" /\ b \notin unanswered

(* reserveRideCashback, in a transaction before the row's. *)
Reserve(b) ==
    /\ Unmade(b) /\ cashback[b].status = "NONE"
    /\ cashback' = [cashback EXCEPT ![b].status = "RESERVED"]
    /\ UNCHANGED <<rows, phase, quiet, jobs, outbox, topic, dispatcher, publisher,
                   cancelling, faults, overtaken, recalled, unanswered>>

(* The row, then the job, whose failure to be queued is only logged. *)
Schedule(b) ==
    /\ Unmade(b)
    /\ Write(b, "SCHEDULED")
    /\ job' \in {job, [job EXCEPT ![b] = "waiting"]}
    /\ UNCHANGED <<requested, phase, quiet, tries, cashback, outbox, topic, dispatcher,
                   publisher, cancelling, faults, overtaken, recalled, unanswered>>

(* create() throws, the row written or not.  Its catch gives the cashback  *)
(* back, and no job is queued.                                             *)
ScheduleFails(b) ==
    /\ Unmade(b) /\ Fault
    /\ Write(b, "SCHEDULED") \/ UNCHANGED status
    /\ cancelling' = IF cashback[b].status = "RESERVED" THEN cancelling \cup {b} ELSE cancelling
    /\ unanswered' = unanswered \cup {b}
    /\ UNCHANGED <<requested, phase, quiet, jobs, cashback, outbox, topic, dispatcher,
                   publisher, overtaken, recalled>>

Cancel(b) ==
    /\ status[b] \in {"SCHEDULED", "DISPATCHING"}
    /\ Write(b, "CANCELLED") /\ Renew({b})
    /\ cancelling' = cancelling \cup {b}
    /\ recalled' = IF \E p \in Dispatchers :
                          dispatcher[p].at \in {"claimed", "read"} /\ dispatcher[p].booking = b
                   THEN recalled \cup {b} ELSE recalled
    /\ UNCHANGED <<requested, phase, jobs, cashback, outbox, topic, dispatcher,
                   publisher, faults, overtaken, unanswered>>

(* releaseRideCashback, and the job removed unless it runs.  A release     *)
(* that throws is not tried again (GatewayDies).                           *)
CancelReleases(b) ==
    /\ b \in cancelling
    /\ cancelling' = cancelling \ {b}
    /\ ReleaseCashback(b)
    /\ job' \in {job, [job EXCEPT ![b] = IF @ = "waiting" THEN "none" ELSE @]}
    /\ UNCHANGED <<rows, phase, quiet, tries, outbox, topic, dispatcher,
                   publisher, faults, overtaken, recalled, unanswered>>

-----------------------------------------------------------------------------
(***************************************************************************)
(* Dispatching: a job runner or a scanner with a booking in hand           *)
(***************************************************************************)
(* The job, once its attempt is over. *)
Attempted(p, b, failed) ==
    IF p \notin JobRunners THEN UNCHANGED jobs
    ELSE /\ tries' = [tries EXCEPT ![b] = @ + 1]
         /\ job' = [job EXCEPT ![b] = CASE ~failed -> "done"
                                        [] failed /\ tries[b] + 1 < Attempts -> "waiting"
                                        [] OTHER -> "failed"]

(* Back to the scanner's list; a failed dispatch ends the scan. *)
Onward(p, failed) ==
    dispatcher' = [dispatcher EXCEPT ![p] =
        IF p \in JobRunners \/ failed \/ @.due = {} THEN Idle
        ELSE [at |-> "list", due |-> @.due]]

JobStarts(p, b) ==
    /\ p \in JobRunners /\ dispatcher[p] = Idle
    /\ job[b] = "waiting" /\ phase[b] # "early"
    /\ job' = [job EXCEPT ![b] = "active"]
    /\ dispatcher' = [dispatcher EXCEPT ![p] = Working("taken", b, {})]
    /\ UNCHANGED <<rows, phase, quiet, tries, cashback, outbox, topic, publisher,
                   cancelling, faults, overtaken, recalled, unanswered>>

Claim(p) ==
    /\ dispatcher[p].at = "taken"
    /\ LET b == dispatcher[p].booking
       IN  IF Claimable(b)
           THEN /\ Write(b, "DISPATCHING") /\ Renew({b})
                /\ dispatcher' = [dispatcher EXCEPT ![p].at = "claimed"]
                /\ UNCHANGED jobs
           ELSE /\ Onward(p, FALSE) /\ Attempted(p, b, FALSE)
                /\ UNCHANGED <<status, quiet>>
    /\ UNCHANGED <<requested, phase, cashback, outbox, topic, publisher,
                   cancelling, faults, overtaken, recalled, unanswered>>

(* claimForDispatch reads the row back; a claim gone by then is dropped. *)
ReadBack(p) ==
    /\ dispatcher[p].at = "claimed"
    /\ LET b == dispatcher[p].booking
       IN  IF status[b] = "DISPATCHING"
           THEN dispatcher' = [dispatcher EXCEPT ![p].at = "read"] /\ UNCHANGED jobs
           ELSE Onward(p, FALSE) /\ Attempted(p, b, FALSE)
    /\ UNCHANGED <<rows, phase, quiet, cashback, outbox, topic, publisher,
                   cancelling, faults, overtaken, recalled, unanswered>>

(* markDispatchedWithOutbox, by id and whatever the status.  When its      *)
(* answer is lost, releaseClaim finds nothing to release and the job is    *)
(* tried again.                                                            *)
MarkDispatched(p) ==
    /\ dispatcher[p].at = "read"
    /\ LET b == dispatcher[p].booking
           ride == Len(outbox) + 1
       IN  /\ Write(b, "DISPATCHED") /\ Renew({b})
           /\ requested' = [requested EXCEPT ![b] = ride]
           /\ MoveCashback(b, ride)
           /\ outbox' = Append(outbox, [booking |-> b, published |-> FALSE])
           /\ \/ Onward(p, FALSE) /\ Attempted(p, b, FALSE) /\ UNCHANGED faults
              \/ Onward(p, TRUE) /\ Attempted(p, b, TRUE) /\ Fault
    /\ UNCHANGED <<phase, topic, publisher, cancelling, overtaken, recalled, unanswered>>

(* The transaction rolls back, and releaseClaim takes back whatever claim  *)
(* there is now, or fails as well.                                         *)
DispatchFails(p) ==
    /\ dispatcher[p].at \in {"claimed", "read"} /\ Fault
    /\ LET b == dispatcher[p].booking
           released == dispatcher[p].at = "read" /\ status[b] = "DISPATCHING"
       IN  /\ \/ released /\ Write(b, "SCHEDULED") /\ Renew({b})
              \/ UNCHANGED <<status, quiet>>
           /\ Onward(p, TRUE) /\ Attempted(p, b, TRUE)
           /\ overtaken' = IF \E q \in Dispatchers \ {p} :
                                 dispatcher[q].at \in {"claimed", "read"}
                                     /\ dispatcher[q].booking = b
                           THEN overtaken \cup {b} ELSE overtaken
    /\ UNCHANGED <<requested, phase, cashback, outbox, topic, publisher,
                   cancelling, recalled, unanswered>>

(* runRecoveryScanner, one await after the other. *)
ScanReleases(p) ==
    /\ p \in Scanners /\ dispatcher[p] = Idle
    /\ LET stuck == {b \in Bookings : Stuck(b)}
       IN  /\ status' = [b \in Bookings |-> IF b \in stuck THEN "SCHEDULED" ELSE status[b]]
           /\ Renew(stuck)
           /\ overtaken' = overtaken \cup {b \in stuck : \E q \in Dispatchers :
                               dispatcher[q].at \in {"claimed", "read"}
                                   /\ dispatcher[q].booking = b}
    /\ dispatcher' = [dispatcher EXCEPT ![p].at = "released"]
    /\ UNCHANGED <<requested, phase, jobs, cashback, outbox, topic, publisher,
                   cancelling, faults, recalled, unanswered>>

ScanExpires(p) ==
    /\ dispatcher[p].at = "released"
    /\ LET missed == {b \in Bookings : status[b] = "SCHEDULED" /\ phase[b] = "missed"}
       IN  /\ status' = [b \in Bookings |-> IF b \in missed THEN "EXPIRED" ELSE status[b]]
           /\ Renew(missed)
    /\ dispatcher' = [dispatcher EXCEPT ![p].at = "expired"]
    /\ UNCHANGED <<requested, phase, jobs, cashback, outbox, topic, publisher,
                   cancelling, faults, overtaken, recalled, unanswered>>

ScanFinds(p) ==
    /\ dispatcher[p].at = "expired"
    /\ LET due == {b \in Bookings : Due(b)}
       IN  dispatcher' = [dispatcher EXCEPT ![p] =
               IF due = {} THEN Idle ELSE [at |-> "list", due |-> due]]
    /\ UNCHANGED <<rows, phase, quiet, jobs, cashback, outbox, topic, publisher,
                   cancelling, faults, overtaken, recalled, unanswered>>

ScanTakes(p, b) ==
    /\ dispatcher[p].at = "list" /\ b \in dispatcher[p].due
    /\ dispatcher' = [dispatcher EXCEPT ![p] = Working("taken", b, @.due \ {b})]
    /\ UNCHANGED <<rows, phase, quiet, jobs, cashback, outbox, topic, publisher,
                   cancelling, faults, overtaken, recalled, unanswered>>

(* ride-service dies: claims stay in the rows, and BullMQ hands a stalled  *)
(* job to another runner, once.                                            *)
RideServiceDies ==
    /\ Fault
    /\ \E p \in Dispatchers : dispatcher[p] # Idle
    /\ dispatcher' = [p \in Dispatchers |-> Idle]
    /\ job' \in {[b \in Bookings |-> IF job[b] = "active" THEN o ELSE job[b]] :
                    o \in {"waiting", "failed"}}
    /\ UNCHANGED <<rows, phase, quiet, tries, cashback, outbox, topic, publisher,
                   cancelling, overtaken, recalled, unanswered>>

-----------------------------------------------------------------------------
(***************************************************************************)
(* The outbox publisher                                                    *)
(***************************************************************************)
Unpublished == {i \in 1..Len(outbox) : ~outbox[i].published}

(* The next of the batch, which is in the order of createdAt. *)
Oldest(ride) == \A i \in publisher.batch : ride <= i

PollReads ==
    /\ publisher = Resting /\ Unpublished # {}
    /\ publisher' = [at |-> "sending", batch |-> Unpublished, sent |-> {}]
    /\ UNCHANGED <<rows, phase, quiet, jobs, cashback, outbox, topic, dispatcher,
                   cancelling, faults, overtaken, recalled, unanswered>>

(* A send that fails ends the batch.  It may have reached the topic.       *)
PollSends ==
    /\ publisher.at = "sending"
    /\ \E ride \in publisher.batch :
          /\ Oldest(ride)
          /\ \/ /\ topic' = topic \cup {ride}
                /\ publisher' = [publisher EXCEPT !.batch = @ \ {ride},
                                                 !.sent = @ \cup {ride}]
                /\ UNCHANGED faults
             \/ /\ Fault
                /\ topic' \in {topic, topic \cup {ride}}
                /\ publisher' = [publisher EXCEPT !.at = "broken"]
    /\ UNCHANGED <<rows, phase, quiet, jobs, cashback, outbox, dispatcher,
                   cancelling, overtaken, recalled, unanswered>>

(* The ids collected in published. *)
Marked == publisher.sent

PollMarks ==
    /\ publisher.at = "broken" \/ (publisher.at = "sending" /\ publisher.batch = {})
    /\ \/ /\ outbox' = [i \in 1..Len(outbox) |->
                 IF i \in Marked THEN [outbox[i] EXCEPT !.published = TRUE] ELSE outbox[i]]
          /\ UNCHANGED faults
       \/ Fault /\ UNCHANGED outbox
    /\ publisher' = Resting
    /\ UNCHANGED <<rows, phase, quiet, jobs, cashback, topic, dispatcher,
                   cancelling, overtaken, recalled, unanswered>>

(* The gateway dies: the publisher's batch and the cancellations under way *)
(* are lost.                                                               *)
GatewayDies ==
    /\ Fault
    /\ publisher # Resting \/ cancelling # {}
    /\ publisher' = Resting
    /\ cancelling' = {}
    /\ UNCHANGED <<rows, phase, quiet, jobs, cashback, outbox, topic, dispatcher,
                   overtaken, recalled, unanswered>>

-----------------------------------------------------------------------------
(***************************************************************************)
(* Time                                                                    *)
(***************************************************************************)
Tick(b) ==
    /\ phase[b] # "missed" /\ status[b] # "NONE"
    /\ phase' = [phase EXCEPT ![b] = IF @ = "early" THEN "due" ELSE "missed"]
    /\ UNCHANGED <<rows, quiet, jobs, cashback, outbox, topic, dispatcher,
                   publisher, cancelling, faults, overtaken, recalled, unanswered>>

MinutePasses(b) ==
    /\ status[b] = "DISPATCHING" /\ b \notin quiet
    /\ quiet' = quiet \cup {b}
    /\ UNCHANGED <<rows, phase, jobs, cashback, outbox, topic, dispatcher,
                   publisher, cancelling, faults, overtaken, recalled, unanswered>>

Next ==
    \/ \E b \in Bookings :
          \/ Reserve(b) \/ Schedule(b) \/ ScheduleFails(b)
          \/ Cancel(b) \/ CancelReleases(b)
          \/ Tick(b) \/ MinutePasses(b)
          \/ \E p \in Dispatchers : JobStarts(p, b) \/ ScanTakes(p, b)
    \/ \E p \in Dispatchers :
          \/ Claim(p) \/ ReadBack(p) \/ MarkDispatched(p) \/ DispatchFails(p)
          \/ ScanReleases(p) \/ ScanExpires(p) \/ ScanFinds(p)
    \/ RideServiceDies
    \/ PollReads \/ PollSends \/ PollMarks \/ GatewayDies

Spec == Init /\ [][Next]_vars

(* Handlers that run go on, the scanner and the publisher are interval     *)
(* timers, and time passes.  Nothing is said of riders and of BullMQ.      *)
Fairness ==
    /\ \A p \in Dispatchers :
          WF_vars(Claim(p) \/ ReadBack(p) \/ MarkDispatched(p) \/ ScanReleases(p)
                    \/ ScanExpires(p) \/ ScanFinds(p) \/ \E b \in Bookings : ScanTakes(p, b))
    /\ WF_vars(PollReads \/ PollSends \/ PollMarks)
    /\ \A b \in Bookings : WF_vars(Tick(b)) /\ WF_vars(MinutePasses(b))

FairSpec == Spec /\ Fairness
-----------------------------------------------------------------------------

TypeOK ==
    /\ status \in [Bookings -> Statuses]
    /\ requested \in [Bookings -> 0..Len(outbox)]
    /\ phase \in [Bookings -> {"early", "due", "missed"}]
    /\ quiet \in SUBSET Bookings
    /\ job \in [Bookings -> Jobs]
    /\ tries \in [Bookings -> 0..Attempts]
    /\ cashback \in [Bookings -> [status : Cashbacks, ride : 0..Len(outbox)]]
    /\ outbox \in Seq([booking : Bookings, published : BOOLEAN])
    /\ topic \in SUBSET (1..Len(outbox))
    /\ dispatcher \in [Dispatchers ->
          [at : {"idle", "released", "expired", "list"}, due : SUBSET Bookings]
              \cup [at : {"taken", "claimed", "read"}, booking : Bookings,
                    due : SUBSET Bookings]]
    /\ publisher \in [at : {"idle", "sending", "broken"},
                      batch : SUBSET (1..Len(outbox)), sent : SUBSET (1..Len(outbox))]
    /\ cancelling \in SUBSET Bookings
    /\ faults \in 0..MaxFaults
    /\ overtaken \in SUBSET Bookings
    /\ recalled \in SUBSET Bookings
    /\ unanswered \in SUBSET Bookings

(* A booking becomes one live ride: job and scanner that race for it,      *)
(* transactions that fail, commits whose answer is lost, jobs run again    *)
(* and services that die ask for no second one.  The exception is a claim  *)
(* taken back, after 60 s or by somebody else's releaseClaim, from a       *)
(* dispatcher that still works on it.                                      *)
DispatchedOnce ==
    \A b \in Bookings \ overtaken :
        Cardinality({i \in 1..Len(outbox) : outbox[i].booking = b}) <= 1

(* A live ride asked for at a discounted fare has the rider's cashback     *)
(* reserved for it, under its own id; a booking that is cancelled or       *)
(* expired has none moved.  Not so when rider and dispatcher crossed, or   *)
(* when the booking was made and the gateway told that it failed: then the *)
(* row keeps its discounted fare and the cashback is given back.           *)
CashbackFollowsRide ==
    \A b \in Bookings \ (overtaken \cup recalled \cup unanswered) :
        cashback[b].status # "NONE" =>
            /\ status[b] = "DISPATCHED" =>
                  cashback[b] = [status |-> "RESERVED", ride |-> requested[b]]
            /\ status[b] \in {"CANCELLED", "EXPIRED"} => cashback[b].ride = 0

(* A booking is dispatched, cancelled or expired in the end, with its job  *)
(* never queued, failed or lost, and with whoever claimed it dead.         *)
BookingIsClosed ==
    \A b \in Bookings :
        status[b] = "SCHEDULED" ~> status[b] \in {"DISPATCHED", "CANCELLED", "EXPIRED"}

(* A dispatched booking's ride is asked for on the topic in the end.       *)
RequestReachesTopic ==
    \A b \in Bookings : status[b] = "DISPATCHED" ~> requested[b] \in topic
=============================================================================

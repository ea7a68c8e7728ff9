---------------------------- MODULE Booking_proofs ----------------------------
(***************************************************************************)
(* For every set of calls, sockets, rides and gateways: one                *)
(* Idempotency-Key books one ride, and never answers a request with the    *)
(* response to another one.  The cashback a booking spends plays no part   *)
(* in either, whatever its rows are: the first part of the module.         *)
(*                                                                         *)
(* The rest is about that cashback, for every programme the assumptions    *)
(* allow: a job rewards only whom it should, a cashback's usages add up to *)
(* what was taken from it, and the discount of a ride that was booked once *)
(* is covered by the usages kept for it.  Each has its own inductive       *)
(* invariant, and all of them rest on the types (TypeCorrect).             *)
(***************************************************************************)
EXTENDS Booking, TallyTheorems, SequenceTheorems

(* What the cashback programme does while a key is at work: rides move on, *)
(* but none is asked for.                                                  *)
RidesTyped == ride \in [Rides -> RideStatuses]

KeyTyped == IdempotencyTypeOK /\ RidesTyped

OpenRides == {r \in Rides : ride[r] # "none"}

(* A call's ride is no other request's. *)
LEMMA OwnRide ==
    /\ \A q \in Requests : RideOf[q] \in Rides
    /\ \A c \in Calls : c \in Requests
    /\ \A c \in Calls, q \in Requests : RideOf[c] = RideOf[q] => c = q
BY BookingAssumption, ReferralsAssumption

LEMMA ProgrammeOpensNothing ==
    ASSUME RidesTyped, ProgrammeSteps \/ ProgrammeFaults
    PROVE  RidesTyped' /\ OpenRides' = OpenRides
<1>1. ASSUME UNCHANGED ride
      PROVE  RidesTyped' /\ OpenRides' = OpenRides
    BY <1>1 DEF RidesTyped, OpenRides
<1>2. ASSUME NEW f \in Friends, ApplyCode(f) \/ FriendRides(f) \/ Ages(f)
      PROVE  UNCHANGED ride
    BY <1>2 DEF ApplyCode, FriendRides, Ages, rides
<1>3. ASSUME NEW i \in DOMAIN cashback, Cools(i)
      PROVE  UNCHANGED ride
    BY <1>3 DEF Cools, rides
<1>4. ASSUME NEW g \in Gateways, JobSteps(g) \/ ReleaseWrites(g) \/ JobFails(g)
      PROVE  UNCHANGED ride
    BY <1>4 DEF JobSteps, JobFreezes, JobReads, JobWrites, JobTurns, JobCloses,
                ReleaseWrites, JobFails, rides
<1>5. ASSUME NEW g \in Gateways, NEW r \in Rides, ReleaseReads(g, r)
      PROVE  UNCHANGED ride
    BY <1>5 DEF ReleaseReads, rides
<1>6. ASSUME NEW r \in Rides, RideCompleted(r) \/ RideEnds(r)
      PROVE  RidesTyped' /\ OpenRides' = OpenRides
    BY <1>6 DEF RideCompleted, RideEnds, RidesTyped, RideStatuses, OpenRides
<1>7. ASSUME NEW r \in Rides, DriverWalksOut(r) \/ CompletionSettles(r)
      PROVE  UNCHANGED ride
    BY <1>7 DEF DriverWalksOut, CompletionSettles, rides
<1>8. QED
    BY <1>1, <1>2, <1>3, <1>4, <1>5, <1>6, <1>7 DEF ProgrammeSteps, ProgrammeFaults

(* A ride that is asked for is the ride of who asks. *)
LEMMA RequestOpensItsRide ==
    ASSUME RidesTyped, NEW q \in Requests, RequestSucceeds(q) \/ RequestUnanswered(q)
    PROVE  RidesTyped' /\ OpenRides' = OpenRides \cup {RideOf[q]}
BY OwnRide DEF RequestSucceeds, RequestUnanswered, Opens, RidesTyped, RideStatuses, OpenRides

LEMMA RequestFailsOpensNothing ==
    ASSUME NEW q \in Requests, RequestFails(q)
    PROVE  ride' = ride
BY DEF RequestFails, rides

LEMMA AskingOpensNothing ==
    ASSUME NEW q \in Requests, Asks(q) \/ AsksWithout(q)
    PROVE  ride' = ride /\ UNCHANGED idempotencyVars
BY DEF Asks, AsksWithout, ReserveReads, ReserveWrites, rides
-----------------------------------------------------------------------------
(***************************************************************************)
(* The record and the answers                                              *)
(***************************************************************************)
CallStates == {"client", "look", "again", "executing", "storing", "undoing",
               "answered", "lost"}

LEMMA RecordShapes ==
    /\ NoRecord.state = "none"
    /\ \A c \in Calls :
          /\ Processing(c).state = "processing" /\ Processing(c).body = BodyOf[c]
          /\ Completed(c).state = "completed" /\ Completed(c).body = BodyOf[c]
          /\ Completed(c).result = c
          /\ Processing(c) # NoRecord /\ Completed(c) # NoRecord
BY DEF NoRecord, Processing, Completed

(* What is stored is the response to a request with the stored body, so    *)
(* what a call is told is the response to its own.                         *)
LEMMA StoredIsForBody ==
    ASSUME IdempotencyTypeOK, NEW c \in Calls
    PROVE  /\ Stored(c) \in [kind : {"none", "busy", "mismatch", "failed", "result"},
                             result : Calls \cup {NoCall}]
           /\ Stored(c).kind = "result" => BodyOf[Stored(c).result] = BodyOf[c]
<1>1. CASE record = NoRecord
    <2>1. Stored(c) = Unanswered
        BY <1>1, RecordShapes DEF Stored
    <2>2. QED
        BY <2>1 DEF Unanswered
<1>2. ASSUME NEW d \in Calls, record = Processing(d)
      PROVE  Stored(c) = Mismatch \/ Stored(c) = Busy
    BY <1>2, RecordShapes DEF Stored
<1>3. ASSUME NEW d \in Calls, record = Completed(d)
      PROVE  Stored(c) = Mismatch \/ (Stored(c) = ResultOf(d) /\ BodyOf[d] = BodyOf[c])
    BY <1>3, RecordShapes DEF Stored
<1>4. QED
    BY <1>1, <1>2, <1>3 DEF IdempotencyTypeOK, Mismatch, Busy, ResultOf

AnswerInv == KeyTyped /\ AnswerIsForBody

(* A step of a call or of the record's expiry; the rides are another       *)
(* matter.                                                                 *)
LEMMA IdempotencyKeeps ==
    ASSUME IdempotencyTypeOK, AnswerIsForBody,
           \/ \E c \in Calls : \/ IdempotencySteps(c) \/ IdempotencyFaults(c) \/ Die(c)
                               \/ DoneAndThrown(c)
                               \/ \E ok \in BOOLEAN : Executed(c, ok)
           \/ Expire
           \/ UNCHANGED idempotencyVars
    PROVE  IdempotencyTypeOK' /\ AnswerIsForBody'
<1> USE DEF IdempotencyTypeOK, AnswerIsForBody
<1>1. ASSUME NEW c \in Calls, Arrive(c)
      PROVE  IdempotencyTypeOK' /\ AnswerIsForBody'
    BY <1>1 DEF Arrive, Acquire
<1>2. ASSUME NEW c \in Calls, Look(c)
      PROVE  IdempotencyTypeOK' /\ AnswerIsForBody'
    BY <1>2, StoredIsForBody DEF Look
<1>3. ASSUME NEW c \in Calls, AcquireAgain(c)
      PROVE  IdempotencyTypeOK' /\ AnswerIsForBody'
    <2>1. /\ Busy \in [kind : {"none", "busy", "mismatch", "failed", "result"},
                       result : Calls \cup {NoCall}]
          /\ Busy.kind # "result"
        BY DEF Busy
    <2>2. record' \in {NoRecord} \cup {Processing(x) : x \in Calls} \cup {Completed(x) : x \in Calls}
        BY <1>3 DEF AcquireAgain, Acquire
    <2>3. QED
        BY <1>3, <2>1, <2>2 DEF AcquireAgain, Acquire
<1>4. ASSUME NEW c \in Calls, StoreResponse(c)
      PROVE  IdempotencyTypeOK' /\ AnswerIsForBody'
    <2>1. ResultOf(c) \in [kind : {"none", "busy", "mismatch", "failed", "result"},
                           result : Calls \cup {NoCall}]
        BY DEF ResultOf
    <2>2. ResultOf(c).result = c
        BY DEF ResultOf
    <2>3. QED
        BY <1>4, <2>1, <2>2 DEF StoreResponse
<1>5. ASSUME NEW c \in Calls, DeleteKey(c) \/ DeleteRefused(c)
      PROVE  IdempotencyTypeOK' /\ AnswerIsForBody'
    <2>1. /\ Failed \in [kind : {"none", "busy", "mismatch", "failed", "result"},
                         result : Calls \cup {NoCall}]
          /\ Failed.kind # "result"
        BY DEF Failed
    <2>2. QED
        BY <1>5, <2>1 DEF DeleteKey, DeleteRefused, Undone
<1>6. ASSUME NEW c \in Calls, StoreRefused(c)
      PROVE  IdempotencyTypeOK' /\ AnswerIsForBody'
    BY <1>6 DEF StoreRefused
<1>7. ASSUME NEW c \in Calls, Die(c)
      PROVE  IdempotencyTypeOK' /\ AnswerIsForBody'
    BY <1>7 DEF Die
<1>8. ASSUME NEW c \in Calls, DoneAndThrown(c) \/ \E ok \in BOOLEAN : Executed(c, ok)
      PROVE  IdempotencyTypeOK' /\ AnswerIsForBody'
    BY <1>8 DEF Executed, DoneAndThrown
<1>9. CASE Expire
    BY <1>9 DEF Expire
<1>10. CASE UNCHANGED idempotencyVars
    BY <1>10 DEF idempotencyVars
<1>11. QED
    BY <1>1, <1>2, <1>3, <1>4, <1>5, <1>6, <1>7, <1>8, <1>9, <1>10
    DEF IdempotencySteps, IdempotencyFaults

LEMMA NextIsIdempotent ==
    ASSUME [Next]_vars
    PROVE  \/ \E c \in Calls : \/ IdempotencySteps(c) \/ IdempotencyFaults(c) \/ Die(c)
                               \/ DoneAndThrown(c)
                               \/ \E ok \in BOOLEAN : Executed(c, ok)
           \/ Expire
           \/ UNCHANGED idempotencyVars
BY AskingOpensNothing, Zenon DEF Next, Books, BookingFails, BookingUnanswered, CallDies,
                                 SocketAnswers, SocketFails, vars

LEMMA NextRidesTyped ==
    ASSUME RidesTyped, [Next]_vars
    PROVE  RidesTyped'
<1>1. ASSUME UNCHANGED ride
      PROVE  RidesTyped'
    BY <1>1 DEF RidesTyped
<1>2. ASSUME UNCHANGED referralVars
      PROVE  RidesTyped'
    BY <1>1, <1>2 DEF referralVars, rides
<1>3. ASSUME NEW c \in Calls,
             Books(c) \/ BookingFails(c) \/ BookingUnanswered(c) \/ CallDies(c)
      PROVE  RidesTyped'
    BY <1>1, <1>3, OwnRide, RequestOpensItsRide, RequestFailsOpensNothing
    DEF Books, BookingFails, BookingUnanswered, CallDies, rides
<1>4. ASSUME NEW q \in Requests, Asks(q) \/ AsksWithout(q)
      PROVE  RidesTyped'
    BY <1>1, <1>4, AskingOpensNothing
<1>5. ASSUME NEW q \in Sockets, SocketAnswers(q) \/ SocketFails(q)
      PROVE  RidesTyped'
    BY <1>1, <1>5, BookingAssumption, RequestOpensItsRide, RequestFailsOpensNothing
    DEF SocketAnswers, SocketFails
<1>6. ASSUME ProgrammeSteps \/ ProgrammeFaults
      PROVE  RidesTyped'
    BY <1>6, ProgrammeOpensNothing
<1>7. CASE UNCHANGED vars
    BY <1>2, <1>7 DEF vars
<1>8. QED
    BY <1>2, <1>3, <1>4, <1>5, <1>6, <1>7 DEF Next

LEMMA InitKey == Init => KeyTyped /\ AnswerIsForBody
<1> SUFFICES ASSUME Init
             PROVE  KeyTyped /\ AnswerIsForBody
    OBVIOUS
<1>1. /\ Unanswered \in [kind : {"none", "busy", "mismatch", "failed", "result"},
                         result : Calls \cup {NoCall}]
      /\ Unanswered.kind # "result"
    BY DEF Unanswered
<1>2. PICK T \in Traffic : call = [c \in Calls |-> IF c \in T THEN "client" ELSE "lost"]
    BY DEF Init
<1>3. IdempotencyTypeOK /\ AnswerIsForBody
    BY <1>1, <1>2 DEF Init, IdempotencyInit, IdempotencyTypeOK, AnswerIsForBody
<1>4. RidesTyped
    BY DEF Init, ReferralsInit, RidesTyped, RideStatuses
<1>5. QED
    BY <1>3, <1>4 DEF KeyTyped

LEMMA NextAnswerInv == AnswerInv /\ [Next]_vars => AnswerInv'
BY IdempotencyKeeps, NextIsIdempotent, NextRidesTyped DEF AnswerInv, KeyTyped

(* A key that is used for two different requests, retried while the first  *)
(* is at work, expired or deleted: whatever a call is answered with is its *)
(* own result or that of a call with the same body.                        *)
THEOREM AnswersAreForBody == Spec => []AnswerIsForBody
<1>1. Init => AnswerInv
    BY InitKey DEF AnswerInv
<1>2. AnswerInv => AnswerIsForBody
    BY DEF AnswerInv
<1>3. QED
    BY <1>1, <1>2, NextAnswerInv, PTL DEF Spec
-----------------------------------------------------------------------------
(***************************************************************************)
(* One booking per key.  While no record was lost, the record stands for   *)
(* the one call that is or was at work, and a call that works or that      *)
(* failed has booked nothing.                                              *)
(***************************************************************************)
Holding(c) == call[c] \in {"executing", "storing", "undoing"}
HasBooked(c) == ride[RideOf[c]] # "none"

RecordStandsForWork ==
    record = NoRecord => \A c \in Calls : ~Holding(c) /\ ~HasBooked(c)

OneAtWork ==
    \A c, d \in Calls :
        (Holding(c) \/ HasBooked(c)) /\ (Holding(d) \/ HasBooked(d)) => c = d

NothingYet ==
    \A c \in Calls : call[c] \in {"executing", "undoing"} => ~HasBooked(c)

KeyInv == AnswerInv /\ (~lapsed => RecordStandsForWork /\ OneAtWork /\ NothingYet)

(* What a step may do to the calls that hold the key and to the bookings,  *)
(* as long as the record is not lost.                                      *)
Rests ==
    /\ record' = NoRecord => record = NoRecord
    /\ \A c \in Calls : HasBooked(c)' = HasBooked(c)
    /\ \A c \in Calls : call'[c] = call[c] \/ ~Holding(c)'

Takes(c) ==
    /\ record = NoRecord /\ record' # NoRecord
    /\ \A d \in Calls : HasBooked(d)' = HasBooked(d)
    /\ \A d \in Calls : d # c => call'[d] = call[d]

Ends(c) ==
    /\ call[c] = "executing" /\ record' = record
    /\ \/ call'[c] = "storing" /\ \A d \in Calls : d # c => HasBooked(d)' = HasBooked(d)
       \/ call'[c] = "undoing" /\ \A d \in Calls : HasBooked(d)' = HasBooked(d)
    /\ \A d \in Calls : d # c => call'[d] = call[d]

Gives(c) ==
    /\ call[c] = "undoing" /\ ~Holding(c)' /\ record' = NoRecord
    /\ \A d \in Calls : HasBooked(d)' = HasBooked(d)
    /\ \A d \in Calls : d # c => call'[d] = call[d]

KeyMove == Rests \/ \E c \in Calls : Takes(c) \/ Ends(c) \/ Gives(c)

LEMMA KeyMoveKeeps ==
    ASSUME RecordStandsForWork, OneAtWork, NothingYet, KeyMove
    PROVE  RecordStandsForWork' /\ OneAtWork' /\ NothingYet'
<1> USE DEF RecordStandsForWork, OneAtWork, NothingYet
<1>1. CASE Rests
    <2>1. \A c \in Calls : /\ HasBooked(c)' = HasBooked(c)
                           /\ Holding(c)' => Holding(c) /\ call'[c] = call[c]
        BY <1>1 DEF Rests, Holding
    <2>2. \A c \in Calls : call'[c] \in {"executing", "undoing"} => Holding(c)'
        BY DEF Holding
    <2>3. QED
        BY <1>1, <2>1, <2>2 DEF Rests
<1>2. ASSUME NEW c \in Calls, Takes(c)
      PROVE  RecordStandsForWork' /\ OneAtWork' /\ NothingYet'
    <2>1. \A d \in Calls : ~Holding(d) /\ ~HasBooked(d) /\ ~HasBooked(d)'
        BY <1>2 DEF Takes
    <2>2. \A d \in Calls : d # c => ~Holding(d)'
        BY <1>2, <2>1 DEF Takes, Holding
    <2>3. QED
        BY <1>2, <2>1, <2>2 DEF Takes
<1>3. ASSUME NEW c \in Calls, Ends(c)
      PROVE  RecordStandsForWork' /\ OneAtWork' /\ NothingYet'
    <2>1. Holding(c) /\ ~HasBooked(c) /\ record' # NoRecord
        BY <1>3 DEF Ends, Holding
    <2>2. \A d \in Calls : d # c => /\ ~Holding(d)' /\ ~HasBooked(d)'
                                    /\ call'[d] \notin {"executing", "undoing"}
        BY <1>3, <2>1 DEF Ends, Holding
    <2>3. NothingYet'
        BY <1>3, <2>1, <2>2 DEF Ends
    <2>4. QED
        BY <2>1, <2>2, <2>3
<1>4. ASSUME NEW c \in Calls, Gives(c)
      PROVE  RecordStandsForWork' /\ OneAtWork' /\ NothingYet'
    <2>1. Holding(c) /\ ~HasBooked(c)
        BY <1>4 DEF Gives, Holding
    <2>2. \A d \in Calls : ~HasBooked(d) /\ ~HasBooked(d)'
        BY <1>4, <2>1 DEF Gives
    <2>3. \A d \in Calls : ~Holding(d)'
        BY <1>4, <2>1 DEF Gives, Holding
    <2>4. QED
        BY <2>2, <2>3
<1>5. QED
    BY <1>1, <1>2, <1>3, <1>4 DEF KeyMove

LEMMA OthersDoNotBook ==
    ASSUME OpenRides' = OpenRides, KeyTyped
    PROVE  \A c \in Calls : HasBooked(c)' = HasBooked(c)
<1> SUFFICES ASSUME NEW c \in Calls
             PROVE  HasBooked(c)' = HasBooked(c)
    OBVIOUS
<1>1. RideOf[c] \in Rides
    BY OwnRide
<1>2. RideOf[c] \in OpenRides' <=> RideOf[c] \in OpenRides
    OBVIOUS
<1>3. QED
    BY <1>1, <1>2 DEF HasBooked, OpenRides

LEMMA LostStaysLost ==
    ASSUME [Next]_vars, lapsed
    PROVE  lapsed'
BY NextIsIdempotent
DEF IdempotencySteps, IdempotencyFaults, Arrive, Look, AcquireAgain, StoreResponse, DeleteKey,
    DeleteRefused, Undone, StoreRefused, Die, DoneAndThrown, Executed, Expire,
    idempotencyVars

LEMMA StepMovesKey ==
    ASSUME KeyTyped, [Next]_vars, ~lapsed'
    PROVE  KeyMove
<1> USE DEF KeyTyped
<1>1. ASSUME UNCHANGED idempotencyVars, OpenRides' = OpenRides
      PROVE  Rests
    BY <1>1, OthersDoNotBook DEF Rests, idempotencyVars
<1>2. ASSUME NEW c \in Calls, IdempotencySteps(c), UNCHANGED referralVars
      PROVE  KeyMove
    <2>1. \A d \in Calls : HasBooked(d)' = HasBooked(d)
        BY <1>2 DEF referralVars, rides, HasBooked
    <2>2. ASSUME Arrive(c) \/ AcquireAgain(c)
          PROVE  KeyMove
        <3>1. \A d \in Calls : d # c => call'[d] = call[d]
            BY <2>2 DEF Arrive, AcquireAgain, Acquire, IdempotencyTypeOK
        <3>2. CASE record = NoRecord
            <4>1. record' # NoRecord
                BY <2>2, <3>2, RecordShapes DEF Arrive, AcquireAgain, Acquire
            <4>2. QED
                BY <2>1, <3>1, <3>2, <4>1 DEF KeyMove, Takes
        <3>3. CASE record # NoRecord
            <4>1. record' = record /\ call'[c] \in {"look", "answered"}
                BY <2>2, <3>3 DEF Arrive, AcquireAgain, Acquire, IdempotencyTypeOK
            <4>2. QED
                BY <2>1, <3>1, <3>3, <4>1 DEF KeyMove, Rests, Holding
        <3>4. QED
            BY <3>2, <3>3
    <2>3. CASE Look(c)
        <3>1. /\ record' = record /\ call'[c] \in {"again", "answered"}
              /\ \A d \in Calls : d # c => call'[d] = call[d]
            BY <2>3 DEF Look, IdempotencyTypeOK
        <3>2. QED
            BY <2>1, <3>1 DEF KeyMove, Rests, Holding
    <2>4. CASE StoreResponse(c)
        <3>1. /\ record' # NoRecord /\ call'[c] = "answered"
              /\ \A d \in Calls : d # c => call'[d] = call[d]
            BY <2>4, RecordShapes DEF StoreResponse, IdempotencyTypeOK
        <3>2. QED
            BY <2>1, <3>1 DEF KeyMove, Rests, Holding
    <2>5. CASE DeleteKey(c)
        <3>1. /\ call[c] = "undoing" /\ record' = NoRecord /\ call'[c] = "answered"
              /\ \A d \in Calls : d # c => call'[d] = call[d]
            BY <2>5 DEF DeleteKey, Undone, IdempotencyTypeOK
        <3>2. QED
            BY <2>1, <3>1 DEF KeyMove, Gives, Holding
    <2>6. QED
        BY <1>2, <2>2, <2>3, <2>4, <2>5 DEF IdempotencySteps
<1>3. ASSUME NEW c \in Calls, IdempotencyFaults(c), UNCHANGED referralVars
      PROVE  KeyMove
    <2>1. \A d \in Calls : HasBooked(d)' = HasBooked(d)
        BY <1>3 DEF referralVars, rides, HasBooked
    <2>2. /\ record' = record /\ call'[c] = "answered"
          /\ \A d \in Calls : d # c => call'[d] = call[d]
        BY <1>3 DEF IdempotencyFaults, StoreRefused, DeleteRefused, Undone, IdempotencyTypeOK
    <2>3. QED
        BY <2>1, <2>2 DEF KeyMove, Rests, Holding
<1>4. ASSUME NEW c \in Calls, Books(c)
      PROVE  KeyMove
    <2>1. /\ call[c] = "executing" /\ record' = record /\ call'[c] = "storing"
          /\ \A d \in Calls : d # c => call'[d] = call[d]
        BY <1>4 DEF Books, Executed, IdempotencyTypeOK
    <2>2. \A d \in Calls : d # c => HasBooked(d)' = HasBooked(d)
        <3>1. c \in Requests /\ OpenRides' = OpenRides \cup {RideOf[c]}
            BY <1>4, OwnRide, RequestOpensItsRide DEF Books
        <3>2. \A d \in Calls : d # c => RideOf[d] \in Rides /\ RideOf[d] # RideOf[c]
            BY <3>1, OwnRide
        <3>3. \A d \in Calls : d # c => (RideOf[d] \in OpenRides' <=> RideOf[d] \in OpenRides)
            BY <3>1, <3>2
        <3>4. QED
            BY <3>2, <3>3 DEF HasBooked, OpenRides
    <2>3. QED
        BY <2>1, <2>2 DEF KeyMove, Ends
<1>5. ASSUME NEW c \in Calls, BookingFails(c)
      PROVE  KeyMove
    <2>1. /\ call[c] = "executing" /\ record' = record /\ call'[c] = "undoing"
          /\ \A d \in Calls : d # c => call'[d] = call[d]
        BY <1>5 DEF BookingFails, Executed, IdempotencyTypeOK
    <2>2. \A d \in Calls : HasBooked(d)' = HasBooked(d)
        BY <1>5, OwnRide, RequestFailsOpensNothing DEF BookingFails, HasBooked
    <2>3. QED
        BY <2>1, <2>2 DEF KeyMove, Ends
<1>6. ASSUME NEW c \in Calls, CallDies(c)
      PROVE  KeyMove
    <2>1. /\ record' = record /\ call'[c] = "lost"
          /\ \A d \in Calls : d # c => call'[d] = call[d]
          /\ ride' = ride
        BY <1>6 DEF CallDies, Die, IdempotencyTypeOK, rides
    <2>2. QED
        BY <2>1 DEF KeyMove, Rests, Holding, HasBooked
<1>7. CASE Expire
    BY <1>7 DEF Expire
<1>8. ASSUME NEW q \in Requests, Asks(q) \/ AsksWithout(q)
      PROVE  KeyMove
    BY <1>1, <1>8, AskingOpensNothing DEF KeyMove, OpenRides
<1>9. ASSUME NEW q \in Sockets, UNCHANGED idempotencyVars,
             RequestSucceeds(q) \/ RequestUnanswered(q)
      PROVE  KeyMove
    <2>1. q \in Requests
        BY BookingAssumption
    <2>2. OpenRides' = OpenRides \cup {RideOf[q]}
        BY <1>9, <2>1, RequestOpensItsRide
    <2>3. \A d \in Calls : RideOf[d] \in Rides /\ RideOf[d] # RideOf[q]
        BY <2>1, OwnRide, BookingAssumption
    <2>4. \A d \in Calls : HasBooked(d)' = HasBooked(d)
        <3>1. \A d \in Calls : (RideOf[d] \in OpenRides' <=> RideOf[d] \in OpenRides)
            BY <2>2, <2>3
        <3>2. QED
            BY <2>3, <3>1 DEF HasBooked, OpenRides
    <2>5. QED
        BY <1>9, <2>4 DEF KeyMove, Rests, idempotencyVars
<1>10. ASSUME NEW q \in Sockets, RequestFails(q), UNCHANGED idempotencyVars
       PROVE  KeyMove
    BY <1>1, <1>10, BookingAssumption, RequestFailsOpensNothing DEF KeyMove, OpenRides
<1>14. ASSUME NEW q \in Sockets, SocketAnswers(q) \/ SocketFails(q)
       PROVE  KeyMove
    BY <1>9, <1>10, <1>14 DEF SocketAnswers, SocketFails
<1>15. ASSUME NEW c \in Calls, BookingUnanswered(c)
       PROVE  FALSE
    BY <1>15 DEF BookingUnanswered, DoneAndThrown
<1>11. ASSUME ProgrammeSteps \/ ProgrammeFaults, UNCHANGED idempotencyVars
       PROVE  KeyMove
    BY <1>1, <1>11, ProgrammeOpensNothing DEF KeyMove
<1>12. CASE UNCHANGED vars
    BY <1>1, <1>12 DEF vars, referralVars, rides, OpenRides, KeyMove
<1>13. QED
    BY <1>2, <1>3, <1>4, <1>5, <1>6, <1>7, <1>8, <1>11, <1>12, <1>14, <1>15 DEF Next

LEMMA NextKeyInv == KeyInv /\ [Next]_vars => KeyInv'
<1> SUFFICES ASSUME KeyInv, [Next]_vars
             PROVE  KeyInv'
    OBVIOUS
<1>1. AnswerInv'
    BY NextAnswerInv DEF KeyInv
<1>2. ASSUME ~lapsed'
      PROVE  RecordStandsForWork' /\ OneAtWork' /\ NothingYet'
    BY <1>2, LostStaysLost, StepMovesKey, KeyMoveKeeps DEF KeyInv, AnswerInv
<1>3. QED
    BY <1>1, <1>2 DEF KeyInv

LEMMA InitKeyInv == Init => KeyInv
<1> SUFFICES ASSUME Init
             PROVE  KeyInv
    OBVIOUS
<1>1. PICK T \in Traffic : call = [c \in Calls |-> IF c \in T THEN "client" ELSE "lost"]
    BY DEF Init
<1>2. \A c \in Calls : ~Holding(c)
    BY <1>1 DEF Holding
<1>3. \A c \in Calls : ~HasBooked(c)
    BY OwnRide DEF Init, ReferralsInit, HasBooked
<1>4. RecordStandsForWork /\ OneAtWork /\ NothingYet
    BY <1>2, <1>3 DEF RecordStandsForWork, OneAtWork, NothingYet
<1>5. QED
    BY <1>4, InitKey DEF KeyInv, AnswerInv

LEMMA KeyInvCounts == KeyInv => OneBookingPerKey
<1> SUFFICES ASSUME KeyInv, ~lapsed
             PROVE  Cardinality(Booked) <= 1
    BY DEF OneBookingPerKey
<1>1. \A c, d \in Booked : c = d
    BY DEF KeyInv, OneAtWork, HasBooked, Booked
<1>2. CASE Booked = {}
    BY <1>2, FS_EmptySet
<1>3. ASSUME NEW c \in Booked
      PROVE  Cardinality(Booked) <= 1
    <2>1. Booked = {c}
        BY <1>1, <1>3
    <2>2. Cardinality({c}) = 1
        BY FS_Singleton
    <2>3. QED
        BY <2>1, <2>2
<1>4. QED
    BY <1>2, <1>3

(* One Idempotency-Key books one ride: however many calls carry it, at the *)
(* same time or one after the other, and whichever of them die or fail, as *)
(* long as its record neither runs out nor is refused by Redis, and no     *)
(* booking that was made is taken for one that failed.                     *)
THEOREM OneRidePerKey == Spec => []OneBookingPerKey
BY InitKeyInv, NextKeyInv, KeyInvCounts, PTL DEF Spec

-----------------------------------------------------------------------------
(***************************************************************************)
(* Types.  The rows only ever grow in number, which keeps what points at   *)
(* them in range.                                                          *)
(***************************************************************************)
CashbackRows == [source : Friends, amount : {RideReward, NoRideReward}, remaining : Int,
                 cold : BOOLEAN, thawed : BOOLEAN, status : {"AVAILABLE", "FROZEN", "USED"}]
UsageRows == [amount : 1..Fare, status : {"RESERVED", "SETTLED", "RELEASED"}]

FriendsTyped ==
    /\ referral \in [Friends -> ReferralStatuses] /\ age \in [Friends -> 0..2]
    /\ applied \in Seq(Friends) /\ rode \in SUBSET Friends /\ late \in SUBSET Friends

RowsTyped ==
    /\ cashback \in Seq(CashbackRows)
    /\ DOMAIN usage \subseteq Requests \X DOMAIN cashback
    /\ usage \in [DOMAIN usage -> UsageRows]

FaresTyped == discount \in [Rides -> Nat] /\ dropped \in SUBSET Rides

RequestTyped(p) ==
    /\ p.at \in {"idle", "reserving", "reserved", "done", "failed"} /\ p.off \in Nat
    /\ DOMAIN p.takes \subseteq DOMAIN cashback /\ DOMAIN p.left = DOMAIN p.takes
    /\ p.takes \in [DOMAIN p.takes -> 1..Fare]
    /\ p.left \in [DOMAIN p.takes -> Int]

RequestsTyped == DOMAIN request = Requests /\ \A q \in Requests : RequestTyped(request[q])

GatewayStates == {"down", "idle", "qualify", "expire", "reward", "console", "release"}
GatewayRows ==
    [at : GatewayStates, list : SUBSET Friends, friend : SUBSET Friends,
     rewards : SUBSET DOMAIN cashback, usages : SUBSET DOMAIN usage]
JobsTyped == gateway \in [Gateways -> GatewayRows]

CrossedTyped ==
    crossed \in SUBSET (({"reward"} \X Friends) \cup ({"ride"} \X Rides)
                            \cup ({"spend", "release"} \X DOMAIN cashback))

Typed ==
    RidesTyped /\ FriendsTyped /\ RowsTyped /\ FaresTyped /\ RequestsTyped /\ JobsTyped
        /\ CrossedTyped

LEMMA TypedParts == TypeOK <=> IdempotencyTypeOK /\ Typed /\ faults \in 0..MaxFaults
BY DEF TypeOK, ReferralsTypeOK, Typed, RidesTyped, FriendsTyped, RowsTyped, FaresTyped,
       RequestsTyped, RequestTyped, JobsTyped, GatewayStates, GatewayRows, CrossedTyped,
       CashbackRows, UsageRows

LEMMA RewardsAreAmounts ==
    /\ RideReward \in Nat \ {0} /\ NoRideReward \in Nat \ {0} /\ Fare \in Nat \ {0}
    /\ IsFiniteSet(Requests)
BY ReferralsAssumption

(* A sequence with its elements replaced. *)
LEMMA Rewritten ==
    ASSUME NEW S, NEW s \in Seq(S), NEW t \in [DOMAIN s -> S]
    PROVE  t \in Seq(S) /\ DOMAIN t = DOMAIN s
<1>1. DOMAIN s = 1..Len(s) /\ Len(s) \in Nat
    OBVIOUS
<1>2. t \in [1..Len(s) -> S]
    BY <1>1
<1>3. QED
    BY <1>1, <1>2, SeqDef

(* There are finitely many cashbacks, and usages. *)
LEMMA CashbacksFinite ==
    ASSUME RowsTyped
    PROVE  IsFiniteSet(DOMAIN cashback)
<1>1. DOMAIN cashback = 1..Len(cashback) /\ Len(cashback) \in Nat
    BY DEF RowsTyped
<1>2. QED
    BY <1>1, FS_Interval

LEMMA UsagesFinite ==
    ASSUME RowsTyped, NEW S \in SUBSET DOMAIN usage
    PROVE  IsFiniteSet(S)
<1>1. IsFiniteSet(Requests \X DOMAIN cashback)
    BY CashbacksFinite, RewardsAreAmounts, FS_Product
<1>2. QED
    BY <1>1, FS_Subset DEF RowsTyped

LEMMA RowsOfCashback ==
    ASSUME RowsTyped, NEW i \in DOMAIN cashback
    PROVE  /\ cashback[i] \in CashbackRows /\ cashback[i].remaining \in Int
           /\ cashback[i].amount \in Nat \ {0} /\ cashback[i].source \in Friends
<1>1. cashback[i] \in CashbackRows
    BY DEF RowsTyped
<1>2. QED
    BY <1>1, RewardsAreAmounts DEF CashbackRows

(* A cashback's row with what the transactions write. *)
LEMMA RowChanged ==
    ASSUME NEW row \in CashbackRows
    PROVE  /\ \A n \in Int, t \in {"AVAILABLE", "USED"} :
                  [row EXCEPT !.remaining = n, !.status = t] \in CashbackRows
           /\ [row EXCEPT !.status = "AVAILABLE", !.cold = FALSE, !.thawed = TRUE]
                  \in CashbackRows
           /\ [row EXCEPT !.cold = TRUE] \in CashbackRows
           /\ [row EXCEPT !.status = "FROZEN"] \in CashbackRows
BY DEF CashbackRows

(* What usages amount to, in whichever rows they are. *)
Sum(u, S) == Tally([k \in S |-> u[k].amount], S, Fare)

LEMMA TotalIsSum == \A S : Total(S) = Sum(usage, S)
BY DEF Total, Sum

LEMMA SumType ==
    ASSUME RowsTyped, NEW S \in SUBSET DOMAIN usage
    PROVE  Sum(usage, S) \in Nat
<1>1. IsFiniteSet(S)
    BY UsagesFinite
<1>2. [k \in S |-> usage[k].amount] \in [S -> 0..Fare] /\ Fare \in Nat
    BY RewardsAreAmounts DEF RowsTyped, UsageRows
<1>3. QED
    BY <1>1, <1>2, TallyType DEF Sum

(* What is taken for a ride. *)
LEMMA TakenType ==
    ASSUME RowsTyped, NEW takes, takes \in [DOMAIN takes -> 1..Fare],
           DOMAIN takes \subseteq DOMAIN cashback
    PROVE  IsFiniteSet(DOMAIN takes) /\ Taken(takes) \in Nat
<1>1. IsFiniteSet(DOMAIN takes)
    BY CashbacksFinite, FS_Subset
<1>2. takes \in [DOMAIN takes -> 0..Fare] /\ Fare \in Nat
    BY RewardsAreAmounts
<1>3. QED
    BY <1>1, <1>2, TallyType DEF Taken

LEMMA StepKinds ==
    ASSUME [Next]_vars
    PROVE  \/ UNCHANGED referralVars
           \/ \E q \in Requests :
                 \/ ReserveReads(q) \/ AsksWithout(q) \/ ReserveWrites(q)
                 \/ RequestSucceeds(q) \/ RequestFails(q) \/ RequestUnanswered(q)
           \/ \E c \in Calls : c \in Requests /\ CallDies(c)
           \/ \E f \in Friends : ApplyCode(f) \/ FriendRides(f) \/ Ages(f)
           \/ \E i \in DOMAIN cashback : Cools(i)
           \/ \E g \in Gateways :
                 \/ JobFreezes(g) \/ JobReads(g) \/ JobWrites(g) \/ JobTurns(g)
                 \/ JobCloses(g) \/ JobFails(g) \/ ReleaseWrites(g)
           \/ \E r \in Rides :
                 RideCompleted(r) \/ CompletionSettles(r) \/ RideEnds(r) \/ DriverWalksOut(r)
           \/ \E g \in Gateways, r \in Rides : ReleaseReads(g, r)
<1>1. Calls \subseteq Requests /\ Sockets \subseteq Requests
    BY BookingAssumption
<1>2. CASE Next
    BY <1>1, <1>2, Zenon
    DEF Next, Books, BookingFails, BookingUnanswered, Asks, SocketAnswers, SocketFails,
        ProgrammeSteps, ProgrammeFaults, JobSteps
<1>3. CASE UNCHANGED vars
    BY <1>3 DEF vars
<1>4. QED
    BY <1>2, <1>3

Grows == DOMAIN cashback \subseteq DOMAIN cashback' /\ DOMAIN usage \subseteq DOMAIN usage'

LEMMA ReleaseRowsTyped ==
    ASSUME RowsTyped, NEW S \in SUBSET DOMAIN usage, ReleaseRows(S)
    PROVE  RowsTyped' /\ DOMAIN cashback' = DOMAIN cashback /\ DOMAIN usage' = DOMAIN usage
<1>1. cashback' \in [DOMAIN cashback -> CashbackRows]
    <2>1. \A B \in SUBSET S : Total(B) \in Nat
        BY SumType, TotalIsSum
    <2>2. \A i \in DOMAIN cashback : cashback[i] \in CashbackRows
        BY DEF RowsTyped
    <2>3. ASSUME NEW i \in DOMAIN cashback, NEW B \in SUBSET S
          PROVE  [cashback[i] EXCEPT !.remaining = @ + Total(B), !.status = "AVAILABLE"]
                     \in CashbackRows
        <3>1. cashback[i].remaining + Total(B) \in Int
            BY <2>1, <2>2 DEF CashbackRows
        <3>2. [cashback[i] EXCEPT !.remaining = cashback[i].remaining + Total(B),
                                  !.status = "AVAILABLE"] \in CashbackRows
            BY <2>2, <3>1, RowChanged
        <3>3. QED
            BY <3>2
    <2>4. QED
        BY <2>2, <2>3 DEF ReleaseRows
<1>2. cashback' \in Seq(CashbackRows) /\ DOMAIN cashback' = DOMAIN cashback
    BY <1>1, Rewritten DEF RowsTyped
<1>3. usage' \in [DOMAIN usage -> UsageRows]
    BY DEF RowsTyped, ReleaseRows, UsageRows
<1>4. QED
    BY <1>2, <1>3 DEF RowsTyped

LEMMA SettleUsagesTyped ==
    ASSUME RowsTyped, NEW r \in Rides, SettleUsages(r), UNCHANGED cashback
    PROVE  RowsTyped' /\ DOMAIN usage' = DOMAIN usage
<1>1. usage' \in [DOMAIN usage -> UsageRows]
    BY DEF RowsTyped, SettleUsages, UsageRows
<1>2. QED
    BY <1>1 DEF RowsTyped

LEMMA SpendTyped ==
    ASSUME RowsTyped, RequestsTyped, NEW q \in Requests, ReserveWrites(q)
    PROVE  RowsTyped' /\ DOMAIN cashback' = DOMAIN cashback
               /\ DOMAIN usage' = DOMAIN usage \cup NewUsages(q)
<1> DEFINE p == request[q]
<1>1. /\ DOMAIN p.takes \subseteq DOMAIN cashback /\ DOMAIN p.left = DOMAIN p.takes
      /\ p.takes \in [DOMAIN p.takes -> 1..Fare] /\ p.left \in [DOMAIN p.takes -> Int]
    BY DEF RequestsTyped, RequestTyped
<1>2. cashback' \in [DOMAIN cashback -> CashbackRows]
    <2>1. \A i \in DOMAIN cashback : cashback[i] \in CashbackRows
        BY DEF RowsTyped
    <2>2. ASSUME NEW i \in DOMAIN cashback, NEW n \in Int, NEW t \in {"USED", "AVAILABLE"}
          PROVE  [cashback[i] EXCEPT !.remaining = @ - n, !.status = t] \in CashbackRows
        <3>1. cashback[i].remaining - n \in Int
            BY <2>1 DEF CashbackRows
        <3>2. [cashback[i] EXCEPT !.remaining = cashback[i].remaining - n,
                                  !.status = t] \in CashbackRows
            BY <2>1, <3>1, RowChanged
        <3>3. QED
            BY <3>2
    <2>3. \A i \in DOMAIN p.takes : p.takes[i] \in Int
        BY <1>1, RewardsAreAmounts
    <2>4. cashback' = SpendRows(p)
        BY DEF ReserveWrites
    <2> HIDE DEF p
    <2>5. QED
        BY <2>1, <2>2, <2>3, <2>4 DEF SpendRows
<1>3. cashback' \in Seq(CashbackRows) /\ DOMAIN cashback' = DOMAIN cashback
    BY <1>2, Rewritten DEF RowsTyped
<1>4. NewUsages(q) \subseteq Requests \X DOMAIN cashback
    BY <1>1 DEF NewUsages
<1>5. \A k \in NewUsages(q) : p.takes[k[2]] \in 1..Fare
    BY <1>1 DEF NewUsages
<1>6. usage' \in [DOMAIN usage \cup NewUsages(q) -> UsageRows]
    BY <1>5 DEF RowsTyped, ReserveWrites, UsageRows
<1>7. QED
    BY <1>3, <1>4, <1>6 DEF RowsTyped

LEMMA NextRows ==
    ASSUME Typed, [Next]_vars
    PROVE  RowsTyped' /\ Grows
<1> USE DEF Typed, Grows
<1>1. ASSUME UNCHANGED <<cashback, usage>>
      PROVE  RowsTyped' /\ Grows
    BY <1>1 DEF RowsTyped
<1>2. ASSUME cashback' \in [DOMAIN cashback -> CashbackRows], UNCHANGED usage
      PROVE  RowsTyped' /\ Grows
    BY <1>2, Rewritten DEF RowsTyped
<1>3. ASSUME NEW f \in Friends, ApplyCode(f)
      PROVE  RowsTyped' /\ Grows
    <2>1. cashback \in [DOMAIN cashback -> CashbackRows]
        BY DEF RowsTyped
    <2>2. ASSUME NEW i \in DOMAIN cashback,
                 cashback' = [cashback EXCEPT ![i].status = "AVAILABLE", ![i].cold = FALSE,
                                              ![i].thawed = TRUE]
          PROVE  cashback' \in [DOMAIN cashback -> CashbackRows]
        <3>1. [cashback[i] EXCEPT !.status = "AVAILABLE", !.cold = FALSE, !.thawed = TRUE]
                  \in CashbackRows
            BY <2>1, RowChanged
        <3>2. cashback' = [cashback EXCEPT ![i] =
                              [cashback[i] EXCEPT !.status = "AVAILABLE", !.cold = FALSE,
                                                  !.thawed = TRUE]]
            BY <2>1, <2>2
        <3>3. QED
            BY <2>1, <3>1, <3>2
    <2>3. cashback' \in [DOMAIN cashback -> CashbackRows] /\ UNCHANGED usage
        BY <1>3, <2>1, <2>2 DEF ApplyCode
    <2>4. QED
        BY <1>2, <2>3
<1>4. ASSUME NEW i \in DOMAIN cashback, Cools(i)
      PROVE  RowsTyped' /\ Grows
    <2>1. cashback \in [DOMAIN cashback -> CashbackRows]
        BY DEF RowsTyped
    <2>2. [cashback[i] EXCEPT !.cold = TRUE] \in CashbackRows
        BY <2>1, RowChanged
    <2>3. cashback' \in [DOMAIN cashback -> CashbackRows] /\ UNCHANGED usage
        BY <1>4, <2>1, <2>2 DEF Cools
    <2>4. QED
        BY <1>2, <2>3
<1>5. ASSUME NEW g \in Gateways, JobFreezes(g)
      PROVE  RowsTyped' /\ Grows
    <2>1. \A i \in DOMAIN cashback : cashback[i] \in CashbackRows
        BY DEF RowsTyped
    <2>2. \A i \in DOMAIN cashback : [cashback[i] EXCEPT !.status = "FROZEN"] \in CashbackRows
        BY <2>1, RowChanged
    <2>3. cashback' \in [DOMAIN cashback -> CashbackRows] /\ UNCHANGED usage
        BY <1>5, <2>1, <2>2 DEF JobFreezes
    <2>4. QED
        BY <1>2, <2>3
<1>6. ASSUME NEW g \in Gateways, JobWrites(g)
      PROVE  RowsTyped' /\ Grows
    <2>1. \A f \in Friends, n \in {RideReward, NoRideReward} :
              [source |-> f, amount |-> n, remaining |-> n, cold |-> FALSE,
               thawed |-> FALSE, status |-> "AVAILABLE"] \in CashbackRows
        BY RewardsAreAmounts DEF CashbackRows
    <2>2. gateway[g].friend \subseteq Friends
        BY DEF JobsTyped, GatewayRows
    <2>3. UNCHANGED usage /\ (UNCHANGED cashback \/ \E row \in CashbackRows : cashback' = Append(cashback, row))
        BY <1>6, <2>1, <2>2 DEF JobWrites
    <2>4. cashback' \in Seq(CashbackRows) /\ DOMAIN cashback \subseteq DOMAIN cashback'
        <3>1. cashback \in Seq(CashbackRows)
            BY DEF RowsTyped
        <3>2. ASSUME NEW row \in CashbackRows
              PROVE  /\ Append(cashback, row) \in Seq(CashbackRows)
                     /\ DOMAIN cashback \subseteq DOMAIN Append(cashback, row)
            BY <3>1, AppendProperties
        <3>3. QED
            BY <2>3, <3>1, <3>2
    <2>5. QED
        BY <2>3, <2>4 DEF RowsTyped
<1>7. ASSUME NEW g \in Gateways, ReleaseWrites(g)
      PROVE  RowsTyped' /\ Grows
    <2>1. gateway[g].usages \in SUBSET DOMAIN usage
        BY DEF JobsTyped, GatewayRows
    <2>2. QED
        BY <1>7, <2>1, ReleaseRowsTyped DEF ReleaseWrites
<1>8. ASSUME NEW q \in Requests, RequestFails(q) \/ RequestUnanswered(q)
      PROVE  RowsTyped' /\ Grows
    <2>1. UsagesOf(RideOf[q], {"RESERVED"}) \in SUBSET DOMAIN usage
        BY DEF UsagesOf
    <2>2. QED
        BY <1>1, <1>8, <2>1, ReleaseRowsTyped DEF RequestFails, RequestUnanswered
<1>9. ASSUME NEW q \in Requests, ReserveWrites(q)
      PROVE  RowsTyped' /\ Grows
    BY <1>9, SpendTyped
<1>10. ASSUME NEW r \in Rides, CompletionSettles(r)
       PROVE  RowsTyped' /\ Grows
    BY <1>10, SettleUsagesTyped DEF CompletionSettles
<1>11. ASSUME \/ \E f \in Friends : FriendRides(f) \/ Ages(f)
              \/ \E g \in Gateways : JobReads(g) \/ JobTurns(g) \/ JobCloses(g) \/ JobFails(g)
              \/ \E q \in Requests : ReserveReads(q) \/ AsksWithout(q) \/ RequestSucceeds(q)
              \/ \E c \in Calls : CallDies(c)
              \/ \E r \in Rides : RideCompleted(r) \/ RideEnds(r) \/ DriverWalksOut(r)
              \/ \E g \in Gateways, r \in Rides : ReleaseReads(g, r)
              \/ UNCHANGED referralVars
       PROVE  UNCHANGED <<cashback, usage>>
    BY <1>11 DEF FriendRides, Ages, JobReads, JobTurns, JobCloses, JobFails, ReserveReads,
                 AsksWithout, RequestSucceeds, CallDies, RideCompleted, RideEnds, DriverWalksOut,
                 ReleaseReads, referralVars, rows
<1>12. QED
    BY <1>1, <1>3, <1>4, <1>5, <1>6, <1>7, <1>8, <1>9, <1>10, <1>11, StepKinds

LEMMA NextFriends ==
    ASSUME Typed, [Next]_vars
    PROVE  FriendsTyped'
<1> USE DEF Typed, FriendsTyped
<1>1. ASSUME UNCHANGED <<referral, age, applied, rode, late>>
      PROVE  FriendsTyped'
    BY <1>1
<1>2. ASSUME NEW f \in Friends, ApplyCode(f)
      PROVE  FriendsTyped'
    <2>1. Append(applied, f) \in Seq(Friends)
        BY AppendProperties
    <2>2. QED
        BY <1>2, <2>1 DEF ApplyCode, ReferralStatuses, ghosts
<1>3. ASSUME NEW f \in Friends, FriendRides(f)
      PROVE  FriendsTyped'
    BY <1>3 DEF FriendRides, clocks
<1>4. ASSUME NEW f \in Friends, Ages(f)
      PROVE  FriendsTyped'
    BY <1>4 DEF Ages, rows, ghosts
<1>5. ASSUME NEW g \in Gateways, JobWrites(g)
      PROVE  FriendsTyped'
    BY <1>5 DEF JobWrites, clocks, ReferralStatuses
<1>6. ASSUME NEW g \in Gateways, JobCloses(g)
      PROVE  FriendsTyped'
    BY <1>6 DEF JobCloses, clocks, ghosts, ReferralStatuses
<1>7. ASSUME \/ \E g \in Gateways : JobFreezes(g) \/ JobReads(g) \/ JobTurns(g) \/ JobFails(g)
                                      \/ ReleaseWrites(g)
             \/ \E i \in DOMAIN cashback : Cools(i)
             \/ \E q \in Requests : ReserveReads(q) \/ AsksWithout(q) \/ ReserveWrites(q)
                                      \/ RequestSucceeds(q) \/ RequestFails(q)
                                      \/ RequestUnanswered(q)
             \/ \E c \in Calls : CallDies(c)
             \/ \E r \in Rides : \/ RideCompleted(r) \/ CompletionSettles(r)
                                   \/ RideEnds(r) \/ DriverWalksOut(r)
             \/ \E g \in Gateways, r \in Rides : ReleaseReads(g, r)
             \/ UNCHANGED referralVars
      PROVE  UNCHANGED <<referral, age, applied, rode, late>>
    BY <1>7 DEF JobFreezes, JobReads, JobTurns, JobFails, ReleaseWrites, Cools, ReserveReads,
                AsksWithout, ReserveWrites, RequestSucceeds, RequestFails, RequestUnanswered,
                CallDies, RideCompleted, CompletionSettles, RideEnds, DriverWalksOut, ReleaseReads, referralVars, rows,
                clocks, ghosts
<1>8. QED
    BY <1>1, <1>2, <1>3, <1>4, <1>5, <1>6, <1>7, StepKinds

LEMMA NextFares ==
    ASSUME Typed, [Next]_vars
    PROVE  FaresTyped'
<1> USE DEF Typed, FaresTyped
<1>1. ASSUME UNCHANGED <<discount, dropped>>
      PROVE  FaresTyped'
    BY <1>1
<1>2. ASSUME NEW q \in Requests, RequestSucceeds(q) \/ RequestUnanswered(q)
      PROVE  FaresTyped'
    <2>1. request[q].off \in Nat
        BY DEF RequestsTyped, RequestTyped
    <2>2. QED
        BY <1>2, <2>1 DEF RequestSucceeds, RequestUnanswered, Opens
<1>3. ASSUME NEW r \in Rides, DriverWalksOut(r)
      PROVE  FaresTyped'
    BY <1>3 DEF DriverWalksOut, rides
<1>4. ASSUME \/ \E g \in Gateways : JobFreezes(g) \/ JobReads(g) \/ JobTurns(g) \/ JobFails(g)
                                      \/ ReleaseWrites(g) \/ JobWrites(g) \/ JobCloses(g)
             \/ \E f \in Friends : ApplyCode(f) \/ FriendRides(f) \/ Ages(f)
             \/ \E i \in DOMAIN cashback : Cools(i)
             \/ \E q \in Requests : ReserveReads(q) \/ AsksWithout(q) \/ ReserveWrites(q)
                                      \/ RequestFails(q)
             \/ \E c \in Calls : CallDies(c)
             \/ \E r \in Rides : RideCompleted(r) \/ CompletionSettles(r) \/ RideEnds(r)
             \/ \E g \in Gateways, r \in Rides : ReleaseReads(g, r)
             \/ UNCHANGED referralVars
      PROVE  UNCHANGED <<discount, dropped>>
    BY <1>4 DEF JobFreezes, JobReads, JobTurns, JobFails, ReleaseWrites, JobWrites, JobCloses,
                ApplyCode, FriendRides, Ages, Cools, ReserveReads, AsksWithout,
                ReserveWrites, RequestFails, CallDies, RideCompleted, CompletionSettles,
                RideEnds, ReleaseReads, referralVars, rides, ghosts
<1>5. QED
    BY <1>1, <1>2, <1>3, <1>4, StepKinds

(* A request's reads are of rows that stay. *)
LEMMA QuietTyped ==
    ASSUME NEW at \in {"idle", "reserving", "reserved", "done", "failed"}, NEW off \in Nat
    PROVE  RequestTyped(Quiet(at, off))
BY DEF RequestTyped, Quiet, Nothing

LEMMA ReadTyped ==
    ASSUME Typed, NEW q \in Requests, ReserveReads(q)
    PROVE  /\ RequestsTyped' /\ request'[q].at \in {"reserved", "reserving"}
           /\ \A o \in Requests \ {q} : request'[o] = request[o]
<1> USE DEF Typed
<1> DEFINE r == RideOf[q]
           old == UsagesOf(r, Spent)
<1>1. UNCHANGED cashback
    BY DEF ReserveReads, rows
<1>2. \A o \in Requests : RequestTyped(request[o])'
                              <=> RequestTyped(request'[o])
    BY <1>1 DEF RequestTyped
<1>3. CASE old # {}
    <2>1. Total(old) \in Nat
        BY SumType, TotalIsSum DEF UsagesOf
    <2>2. request' = [request EXCEPT ![q] = Quiet("reserved", Total(old))]
        BY <1>3 DEF ReserveReads
    <2>3. request'[q] = Quiet("reserved", Total(old))
        BY <2>2 DEF RequestsTyped
    <2>4. RequestTyped(request'[q]) /\ request'[q].at = "reserved"
        BY <2>1, <2>3, QuietTyped DEF Quiet
    <2>5. QED
        BY <1>2, <2>2, <2>4 DEF RequestsTyped
<1>4. CASE old = {}
    <2>1. PICK want \in 1..Fare : \E takes \in Greedy(want) :
              request' = [request EXCEPT ![q] =
                  [at |-> "reserving", off |-> 0, takes |-> takes,
                   left |-> [i \in DOMAIN takes |-> cashback[i].remaining - takes[i]]]]
        BY <1>4 DEF ReserveReads
    <2>2. PICK takes \in Greedy(want) :
              request' = [request EXCEPT ![q] =
                  [at |-> "reserving", off |-> 0, takes |-> takes,
                   left |-> [i \in DOMAIN takes |-> cashback[i].remaining - takes[i]]]]
        BY <2>1
    <2>3. want \in Nat /\ want <= Fare
        BY RewardsAreAmounts
    <2>4. /\ takes \in [DOMAIN takes -> 1..want]
          /\ DOMAIN takes \subseteq DOMAIN cashback
        BY DEF Greedy
    <2>5. takes \in [DOMAIN takes -> 1..Fare]
        BY <2>3, <2>4, RewardsAreAmounts
    <2>6. \A i \in DOMAIN takes : cashback[i].remaining - takes[i] \in Int
        BY <2>4, <2>5, RowsOfCashback, RewardsAreAmounts
    <2>7. request'[q] = [at |-> "reserving", off |-> 0, takes |-> takes,
                         left |-> [i \in DOMAIN takes |-> cashback[i].remaining - takes[i]]]
        BY <2>2 DEF RequestsTyped
    <2>8. RequestTyped(request'[q]) /\ request'[q].at = "reserving"
        BY <2>4, <2>5, <2>6, <2>7 DEF RequestTyped
    <2>9. QED
        BY <1>2, <2>2, <2>8 DEF RequestsTyped
<1>5. QED
    BY <1>3, <1>4

LEMMA NextRequests ==
    ASSUME Typed, [Next]_vars
    PROVE  RequestsTyped'
<1> USE DEF Typed
<1>1. \A p : RequestTyped(p) => /\ DOMAIN p.takes \subseteq DOMAIN cashback'
                                /\ p.at \in {"idle", "reserving", "reserved", "done", "failed"}
                                /\ p.off \in Nat /\ DOMAIN p.left = DOMAIN p.takes
                                /\ p.takes \in [DOMAIN p.takes -> 1..Fare]
                                /\ p.left \in [DOMAIN p.takes -> Int]
    BY NextRows DEF RequestTyped, Grows
<1>2. ASSUME UNCHANGED request
      PROVE  RequestsTyped'
    BY <1>1, <1>2 DEF RequestsTyped, RequestTyped
<1>3. ASSUME NEW q \in Requests, NEW p, RequestTyped(p), request' = [request EXCEPT ![q] = p]
      PROVE  RequestsTyped'
    <2>1. \A o \in Requests : RequestTyped(request'[o])
        BY <1>3 DEF RequestsTyped
    <2>2. DOMAIN request' = Requests
        BY <1>3 DEF RequestsTyped
    <2>3. QED
        BY <1>1, <2>1, <2>2 DEF RequestsTyped, RequestTyped
<1>4. ASSUME NEW q \in Requests, ReserveReads(q)
      PROVE  RequestsTyped'
    BY <1>4, ReadTyped
<1>5. ASSUME NEW q \in Requests, AsksWithout(q)
      PROVE  RequestsTyped'
    BY <1>3, <1>5, QuietTyped DEF AsksWithout
<1>6. ASSUME NEW q \in Requests, ReserveWrites(q)
      PROVE  RequestsTyped'
    <2>1. Taken(request[q].takes) \in Nat
        BY TakenType DEF RequestsTyped, RequestTyped
    <2>2. QED
        BY <1>3, <1>6, <2>1, QuietTyped DEF ReserveWrites
<1>7. ASSUME NEW q \in Requests,
             \/ RequestSucceeds(q) \/ RequestFails(q)
             \/ RequestUnanswered(q) \/ CallDies(q)
      PROVE  RequestsTyped'
    BY <1>3, <1>7, QuietTyped
    DEF RequestSucceeds, RequestFails, RequestUnanswered, CallDies, Over
<1>8. ASSUME \/ \E g \in Gateways : JobFreezes(g) \/ JobReads(g) \/ JobTurns(g) \/ JobFails(g)
                                      \/ ReleaseWrites(g) \/ JobWrites(g) \/ JobCloses(g)
             \/ \E f \in Friends : ApplyCode(f) \/ FriendRides(f) \/ Ages(f)
             \/ \E i \in DOMAIN cashback : Cools(i)
             \/ \E r \in Rides : \/ RideCompleted(r) \/ CompletionSettles(r)
                                   \/ RideEnds(r) \/ DriverWalksOut(r)
             \/ \E g \in Gateways, r \in Rides : ReleaseReads(g, r)
             \/ UNCHANGED referralVars
      PROVE  UNCHANGED request
    BY <1>8 DEF JobFreezes, JobReads, JobTurns, JobFails, ReleaseWrites, JobWrites, JobCloses,
                ApplyCode, FriendRides, Ages, Cools, RideCompleted, CompletionSettles, RideEnds, DriverWalksOut,
                ReleaseReads, referralVars
<1>9. QED
    BY <1>2, <1>4, <1>5, <1>6, <1>7, <1>8, StepKinds

LEMMA NextJobs ==
    ASSUME Typed, [Next]_vars
    PROVE  JobsTyped'
<1> USE DEF Typed
<1> DEFINE Row(w) == /\ w.at \in GatewayStates /\ w.list \subseteq Friends
                     /\ w.friend \subseteq Friends
                     /\ w.rewards \subseteq DOMAIN cashback /\ w.usages \subseteq DOMAIN usage
                     /\ w = [at |-> w.at, list |-> w.list, friend |-> w.friend,
                             rewards |-> w.rewards, usages |-> w.usages]
<1>1. \A w : Row(w) => w \in GatewayRows'
    BY NextRows DEF GatewayRows, Grows
<1>2. \A g \in Gateways : Row(gateway[g])
    BY DEF JobsTyped, GatewayRows
<1>3. \A step \in GatewayStates, list \in SUBSET Friends : Row(At(step, list))
    BY DEF At
<1> HIDE DEF Row
<1>4. ASSUME UNCHANGED gateway
      PROVE  JobsTyped'
    BY <1>1, <1>2, <1>4 DEF JobsTyped
<1>5. ASSUME NEW g \in Gateways, NEW w, Row(w), gateway' = [gateway EXCEPT ![g] = w]
      PROVE  JobsTyped'
    BY <1>1, <1>2, <1>5 DEF JobsTyped
<1>6. Row(Idle)
    BY <1>3 DEF Idle, GatewayStates
<1>7. ASSUME NEW g \in Gateways, JobFreezes(g)
      PROVE  JobsTyped'
    <2>1. First(Pending) \in SUBSET Friends
        BY DEF First, Pending
    <2>2. Row(At("qualify", First(Pending)))
        BY <1>3, <2>1 DEF GatewayStates
    <2>3. QED
        BY <1>5, <1>7, <2>2 DEF JobFreezes
<1>8. ASSUME NEW g \in Gateways, JobReads(g)
      PROVE  JobsTyped'
    <2>1. gateway[g].list \subseteq Friends /\ gateway[g].at \in GatewayStates
        BY DEF JobsTyped, GatewayRows
    <2>2. \E f \in Friends, at \in GatewayStates, friend \in SUBSET Friends :
              gateway' = [gateway EXCEPT ![g] =
                  [at |-> at, list |-> gateway[g].list \ {f}, friend |-> friend,
                   rewards |-> {i \in DOMAIN cashback : cashback[i].source = f},
                   usages |-> {}]]
        <3>1. PICK f \in gateway[g].list :
                  LET owed == (gateway[g].at = "qualify") = HasQualifyingRide(f)
                  IN  gateway' = [gateway EXCEPT ![g] =
                          [at |-> IF ~(owed /\ Settles(f)) THEN gateway[g].at
                                  ELSE IF gateway[g].at = "qualify" THEN "reward" ELSE "console",
                           list |-> gateway[g].list \ {f},
                           friend |-> IF owed /\ Settles(f) THEN {f} ELSE {},
                           rewards |-> {i \in DOMAIN cashback : cashback[i].source = f},
                           usages |-> {}]]
            BY <1>8 DEF JobReads
        <3>2. f \in Friends /\ {f} \in SUBSET Friends /\ {} \in SUBSET Friends
            BY <2>1
        <3>3. "reward" \in GatewayStates /\ "console" \in GatewayStates
            BY DEF GatewayStates
        <3>4. QED
            BY <2>1, <3>1, <3>2, <3>3
    <2>3. PICK f \in Friends, at \in GatewayStates, friend \in SUBSET Friends :
              gateway' = [gateway EXCEPT ![g] =
                  [at |-> at, list |-> gateway[g].list \ {f}, friend |-> friend,
                   rewards |-> {i \in DOMAIN cashback : cashback[i].source = f},
                   usages |-> {}]]
        BY <2>2
    <2>4. Row([at |-> at, list |-> gateway[g].list \ {f}, friend |-> friend,
               rewards |-> {i \in DOMAIN cashback : cashback[i].source = f}, usages |-> {}])
        BY <2>1 DEF Row
    <2>5. QED
        BY <1>5, <2>3, <2>4
<1>9. ASSUME NEW g \in Gateways, JobWrites(g)
      PROVE  JobsTyped'
    <2>1. gateway[g].list \in SUBSET Friends
        BY DEF JobsTyped, GatewayRows
    <2>2. Row(At("qualify", gateway[g].list)) /\ Row(At("expire", gateway[g].list))
        BY <1>3, <2>1 DEF GatewayStates
    <2>3. \E at \in {"qualify", "expire"} :
              gateway' = [gateway EXCEPT ![g] = At(at, gateway[g].list)]
        BY <1>9 DEF JobWrites
    <2>4. QED
        BY <1>5, <2>2, <2>3
<1>10. ASSUME NEW g \in Gateways, JobTurns(g)
       PROVE  JobsTyped'
    <2>1. First({f \in Pending : age[f] > 0}) \in SUBSET Friends
        BY DEF First, Pending
    <2>2. Row(At("expire", First({f \in Pending : age[f] > 0})))
        BY <1>3, <2>1 DEF GatewayStates
    <2>3. QED
        BY <1>5, <1>10, <2>2 DEF JobTurns
<1>11. ASSUME NEW g \in Gateways, JobCloses(g) \/ JobFails(g) \/ ReleaseWrites(g)
       PROVE  JobsTyped'
    BY <1>5, <1>6, <1>11 DEF JobCloses, JobFails, ReleaseWrites
<1>12. ASSUME NEW g \in Gateways, NEW r \in Rides, ReleaseReads(g, r)
       PROVE  JobsTyped'
    <2>1. Row([at |-> "release", list |-> {}, friend |-> {}, rewards |-> {},
               usages |-> UsagesOf(r, {"RESERVED"})])
        BY DEF Row, UsagesOf, GatewayStates
    <2>2. [At("release", {}) EXCEPT !.usages = UsagesOf(r, {"RESERVED"})]
              = [at |-> "release", list |-> {}, friend |-> {}, rewards |-> {},
                 usages |-> UsagesOf(r, {"RESERVED"})]
        BY DEF At
    <2>3. QED
        BY <1>5, <1>12, <2>1, <2>2 DEF ReleaseReads
<1>13. ASSUME \/ \E f \in Friends : ApplyCode(f) \/ FriendRides(f) \/ Ages(f)
              \/ \E i \in DOMAIN cashback : Cools(i)
              \/ \E q \in Requests : ReserveReads(q) \/ AsksWithout(q) \/ ReserveWrites(q)
                                       \/ RequestSucceeds(q) \/ RequestFails(q)
                                       \/ RequestUnanswered(q)
              \/ \E c \in Calls : CallDies(c)
              \/ \E r \in Rides : \/ RideCompleted(r) \/ CompletionSettles(r)
                                   \/ RideEnds(r) \/ DriverWalksOut(r)
              \/ UNCHANGED referralVars
       PROVE  UNCHANGED gateway
    BY <1>13 DEF ApplyCode, FriendRides, Ages, Cools, ReserveReads, AsksWithout, ReserveWrites,
                 RequestSucceeds, RequestFails, RequestUnanswered, CallDies, RideCompleted, CompletionSettles, RideEnds,
                 DriverWalksOut, referralVars
<1>14. QED
    BY <1>4, <1>7, <1>8, <1>9, <1>10, <1>11, <1>12, <1>13, StepKinds

(* What a step adds to what two transactions worked on at once. *)
LEMMA NextCrossed ==
    ASSUME Typed, [Next]_vars
    PROVE  CrossedTyped' /\ crossed \subseteq crossed'
<1> USE DEF Typed, CrossedTyped
<1>1. DOMAIN cashback \subseteq DOMAIN cashback'
    BY NextRows DEF Grows
<1>2. ASSUME UNCHANGED crossed
      PROVE  CrossedTyped' /\ crossed \subseteq crossed'
    BY <1>1, <1>2
<1>3. ASSUME NEW q \in Requests, crossed' = crossed \cup {<<"ride", RideOf[q]>>}
      PROVE  CrossedTyped' /\ crossed \subseteq crossed'
    BY <1>1, <1>3, OwnRide
<1>4. ASSUME NEW g \in Gateways, JobWrites(g)
      PROVE  CrossedTyped' /\ crossed \subseteq crossed'
    <2>1. gateway[g].friend \subseteq Friends
        BY DEF JobsTyped, GatewayRows
    <2>2. \E E \in SUBSET Friends : crossed' = crossed \cup {<<"reward", e>> : e \in E}
        BY <1>4, <2>1 DEF JobWrites
    <2>3. QED
        BY <1>1, <2>2
<1>5. ASSUME NEW q \in Requests, ReserveWrites(q)
      PROVE  CrossedTyped' /\ crossed \subseteq crossed'
    <2>1. DOMAIN request[q].takes \subseteq DOMAIN cashback /\ RideOf[q] \in Rides
        BY OwnRide DEF RequestsTyped, RequestTyped
    <2>2. PICK I \in SUBSET DOMAIN request[q].takes, R \in SUBSET {RideOf[q]} :
              crossed' = crossed \cup {<<"spend", i>> : i \in I} \cup {<<"ride", r>> : r \in R}
        BY <1>5 DEF ReserveWrites
    <2>3. QED
        BY <1>1, <2>1, <2>2
<1>6. ASSUME NEW g \in Gateways, ReleaseWrites(g)
      PROVE  CrossedTyped' /\ crossed \subseteq crossed'
    <2>1. \A k \in gateway[g].usages : k[2] \in DOMAIN cashback
        BY DEF JobsTyped, GatewayRows, RowsTyped
    <2>2. PICK K \in SUBSET gateway[g].usages :
              crossed' = crossed \cup {<<"release", k[2]>> : k \in K}
        BY <1>6 DEF ReleaseWrites
    <2>3. QED
        BY <1>1, <2>1, <2>2
<1>7. ASSUME NEW q \in Requests,
             RequestSucceeds(q) \/ RequestFails(q) \/ RequestUnanswered(q)
      PROVE  crossed' = crossed \/ crossed' = crossed \cup {<<"ride", RideOf[q]>>}
    BY <1>7 DEF RequestSucceeds, RequestFails, RequestUnanswered, Meets
<1>8. ASSUME \/ \E g \in Gateways : JobFreezes(g) \/ JobReads(g) \/ JobTurns(g) \/ JobFails(g)
                                      \/ JobCloses(g)
             \/ \E f \in Friends : ApplyCode(f) \/ FriendRides(f) \/ Ages(f)
             \/ \E i \in DOMAIN cashback : Cools(i)
             \/ \E q \in Requests : ReserveReads(q) \/ AsksWithout(q)
             \/ \E c \in Calls : CallDies(c)
             \/ \E r \in Rides : \/ RideCompleted(r) \/ CompletionSettles(r)
                                   \/ RideEnds(r) \/ DriverWalksOut(r)
             \/ \E g \in Gateways, r \in Rides : ReleaseReads(g, r)
             \/ UNCHANGED referralVars
      PROVE  UNCHANGED crossed
    BY <1>8 DEF JobFreezes, JobReads, JobTurns, JobFails, JobCloses, ApplyCode, FriendRides,
                Ages, Cools, ReserveReads, AsksWithout, CallDies, RideCompleted, CompletionSettles, RideEnds,
                DriverWalksOut, ReleaseReads, referralVars, ghosts
<1>9. QED
    BY <1>2, <1>3, <1>4, <1>5, <1>6, <1>7, <1>8, StepKinds

LEMMA NextTyped == Typed /\ [Next]_vars => Typed'
BY NextRidesTyped, NextRows, NextFriends, NextFares, NextRequests, NextJobs, NextCrossed
DEF Typed

LEMMA InitTyped == Init => Typed
<1> SUFFICES ASSUME Init
             PROVE  Typed
    OBVIOUS
<1>1. PICK T \in Traffic :
          /\ request = [q \in Requests |-> IF q \in T THEN Waiting ELSE Over("failed")]
          /\ referral = [f \in Friends |-> IF f \in T THEN "NONE" ELSE "ELSEWHERE"]
          /\ gateway = [g \in Gateways |-> IF g \in T THEN Idle ELSE At("down", {})]
    BY DEF Init
<1>2. RidesTyped
    BY InitKey DEF KeyTyped
<1>3. FriendsTyped
    <2>1. <<>> \in Seq(Friends)
        BY EmptySeq
    <2>2. QED
        BY <1>1, <2>1 DEF Init, ReferralsInit, FriendsTyped, ReferralStatuses
<1>4. RowsTyped
    <2>1. cashback = <<>> /\ usage = Nothing
        BY DEF Init, ReferralsInit
    <2>2. <<>> \in Seq(CashbackRows)
        BY EmptySeq
    <2>3. QED
        BY <2>1, <2>2 DEF Nothing, RowsTyped
<1>5. FaresTyped
    BY DEF Init, ReferralsInit, FaresTyped
<1>6. RequestsTyped
    <2>1. RequestTyped(Waiting) /\ RequestTyped(Over("failed"))
        BY QuietTyped DEF Waiting, Over
    <2>2. QED
        BY <1>1, <2>1 DEF RequestsTyped
<1>7. JobsTyped
    <2>1. Idle \in GatewayRows /\ At("down", {}) \in GatewayRows
        BY DEF Idle, At, GatewayRows, GatewayStates
    <2>2. QED
        BY <1>1, <2>1 DEF JobsTyped
<1>8. CrossedTyped
    BY DEF Init, ReferralsInit, CrossedTyped
<1>9. QED
    BY <1>2, <1>3, <1>4, <1>5, <1>6, <1>7, <1>8 DEF Typed

LEMMA NextFaults ==
    ASSUME faults \in 0..MaxFaults, [Next]_vars
    PROVE  faults' \in 0..MaxFaults
<1>1. MaxFaults \in Nat
    BY BookingAssumption
<1>2. ASSUME Fault
      PROVE  faults' \in 0..MaxFaults
    BY <1>1, <1>2 DEF Fault
<1>3. Fault \/ UNCHANGED faults
    BY DEF Next, Books, BookingFails, BookingUnanswered, CallDies, Asks, AsksWithout,
           SocketAnswers, SocketFails, vars
<1>4. QED
    BY <1>2, <1>3

(* The calls of one key, the rows of the referral programme and the        *)
(* requests and gateways at work on them keep their shapes: what a request *)
(* or a gateway read before it writes stays within the rows there are.     *)
THEOREM TypeCorrect == Spec => []TypeOK
<1> DEFINE Shapes == AnswerInv /\ Typed /\ faults \in 0..MaxFaults
<1>1. Init => Shapes
    BY InitKey, InitTyped, BookingAssumption DEF AnswerInv, Init
<1>2. Shapes /\ [Next]_vars => Shapes'
    BY NextAnswerInv, NextTyped, NextFaults
<1>3. Shapes => TypeOK
    BY TypedParts DEF AnswerInv, KeyTyped
<1>4. QED
    BY <1>1, <1>2, <1>3, PTL DEF Spec
-----------------------------------------------------------------------------
(***************************************************************************)
(* Rewards.  While no two gateways settled a friend's referral at once: a  *)
(* gateway that is about to reward a friend saw no reward and there is     *)
(* none, and what it saw of the friend's rides and of the deadline still   *)
(* holds.                                                                  *)
(***************************************************************************)
RewardsOf(f) == {i \in DOMAIN cashback : cashback[i].source = f}

RewardAhead ==
    \A g \in Gateways, f \in Friends :
        f \in gateway[g].friend /\ <<"reward", f>> \notin crossed =>
            /\ gateway[g].rewards = {} /\ RewardsOf(f) = {}
            /\ referral[f] \in {"PENDING", "CLOSED"}

JobLooked ==
    \A g \in Gateways :
        /\ gateway[g].at = "reward" => gateway[g].friend \subseteq rode
        /\ gateway[g].at = "console" => \A f \in gateway[g].friend : age[f] > 0 /\ (f \in rode => f \in late)
        /\ gateway[g].at \in {"expire", "console"} => \A f \in gateway[g].list : age[f] > 0

ExpiredIsOld == \A f \in Friends : referral[f] = "EXPIRED_NO_RIDE" => age[f] > 0

RewardInv == RewardFitsOutcome /\ RewardAhead /\ JobLooked /\ ExpiredIsOld

(* The outcome of one friend's referral, case by case. *)
Fits(f) ==
    /\ referral[f] = "QUALIFIED_RIDE" =>
          f \in rode /\ \E i \in RewardsOf(f) : RewardsOf(f) = {i} /\ cashback[i].amount = RideReward
    /\ referral[f] = "EXPIRED_NO_RIDE" =>
          /\ f \in rode => f \in late
          /\ \E i \in RewardsOf(f) : RewardsOf(f) = {i} /\ cashback[i].amount = NoRideReward
    /\ referral[f] \notin {"QUALIFIED_RIDE", "EXPIRED_NO_RIDE"} => RewardsOf(f) = {}

LEMMA FitsEach ==
    RewardFitsOutcome <=> \A f \in Friends : <<"reward", f>> \notin crossed => Fits(f)
BY DEF RewardFitsOutcome, Fits, RewardsOf

LEMMA FitsEachNext ==
    RewardFitsOutcome' <=> (\A f \in Friends : <<"reward", f>> \notin crossed => Fits(f))'
BY FitsEach, PTL

(* Whose cashback it is and how much it was stay as they were granted.  *)
LEMMA GrantsStay ==
    ASSUME Typed, [Next]_vars
    PROVE  /\ \A i \in DOMAIN cashback : /\ cashback'[i].source = cashback[i].source
                                         /\ cashback'[i].amount = cashback[i].amount
           /\ (\E g \in Gateways : JobWrites(g)) \/ DOMAIN cashback' = DOMAIN cashback
<1> DEFINE Stay == /\ \A i \in DOMAIN cashback : /\ cashback'[i].source = cashback[i].source
                                                 /\ cashback'[i].amount = cashback[i].amount
                   /\ DOMAIN cashback' = DOMAIN cashback
<1> SUFFICES ASSUME ~Stay
             PROVE  /\ \A i \in DOMAIN cashback : /\ cashback'[i].source = cashback[i].source
                                                  /\ cashback'[i].amount = cashback[i].amount
                    /\ \E g \in Gateways : JobWrites(g)
    OBVIOUS
<1> USE DEF Typed
<1>1. \A i \in DOMAIN cashback : cashback[i] \in CashbackRows
    BY RowsOfCashback
<1>2. ~ UNCHANGED cashback
    OBVIOUS
<1>3. ASSUME NEW f \in Friends, ApplyCode(f)
      PROVE  FALSE
    <2>1. PICK j \in DOMAIN cashback :
              cashback' = [cashback EXCEPT ![j].status = "AVAILABLE", ![j].cold = FALSE,
                                           ![j].thawed = TRUE]
        BY <1>2, <1>3 DEF ApplyCode
    <2>2. cashback' = [cashback EXCEPT ![j] =
                          [cashback[j] EXCEPT !.status = "AVAILABLE", !.cold = FALSE,
                                              !.thawed = TRUE]]
        BY <2>1
    <2>3. QED
        BY <1>1, <2>2 DEF CashbackRows
<1>4. ASSUME NEW i \in DOMAIN cashback, Cools(i)
      PROVE  FALSE
    BY <1>1, <1>4 DEF Cools, CashbackRows
<1>5. ASSUME NEW g \in Gateways, JobFreezes(g)
      PROVE  FALSE
    BY <1>1, <1>5 DEF JobFreezes, CashbackRows
<1>6. ASSUME NEW S, ReleaseRows(S)
      PROVE  FALSE
    BY <1>1, <1>6 DEF ReleaseRows, CashbackRows
<1>7. ASSUME NEW g \in Gateways, ReleaseWrites(g)
      PROVE  FALSE
    BY <1>6, <1>7 DEF ReleaseWrites
<1>8. ASSUME NEW q \in Requests, RequestFails(q) \/ RequestUnanswered(q)
      PROVE  FALSE
    BY <1>2, <1>6, <1>8 DEF RequestFails, RequestUnanswered
<1>9. ASSUME NEW q \in Requests, ReserveWrites(q)
      PROVE  FALSE
    BY <1>1, <1>9 DEF ReserveWrites, SpendRows, CashbackRows
<1>10. ASSUME NEW g \in Gateways, JobWrites(g)
       PROVE  /\ \A i \in DOMAIN cashback : /\ cashback'[i].source = cashback[i].source
                                            /\ cashback'[i].amount = cashback[i].amount
    <2>1. PICK row : cashback' = Append(cashback, row)
        BY <1>2, <1>10 DEF JobWrites
    <2>2. cashback \in Seq(CashbackRows)
        BY DEF RowsTyped
    <2>3. \A i \in DOMAIN cashback : Append(cashback, row)[i] = cashback[i]
        BY <2>2
    <2>4. QED
        BY <2>1, <2>3
<1>11. ASSUME \/ \E f \in Friends : FriendRides(f) \/ Ages(f)
              \/ \E g \in Gateways : JobReads(g) \/ JobTurns(g) \/ JobCloses(g) \/ JobFails(g)
              \/ \E q \in Requests : ReserveReads(q) \/ AsksWithout(q) \/ RequestSucceeds(q)
              \/ \E c \in Calls : CallDies(c)
              \/ \E r \in Rides : \/ RideCompleted(r) \/ CompletionSettles(r)
                                    \/ RideEnds(r) \/ DriverWalksOut(r)
              \/ \E g \in Gateways, r \in Rides : ReleaseReads(g, r)
              \/ UNCHANGED referralVars
       PROVE  FALSE
    BY <1>2, <1>11 DEF FriendRides, Ages, JobReads, JobTurns, JobCloses, JobFails, ReserveReads,
                 AsksWithout, RequestSucceeds, CallDies, RideEnds, DriverWalksOut,
                 RideCompleted, CompletionSettles, ReleaseReads, referralVars, rows
<1> HIDE DEF Stay
<1>12. QED
    BY <1>3, <1>4, <1>5, <1>7, <1>8, <1>9, <1>10, <1>11, StepKinds

LEMMA RewardsStay ==
    ASSUME Typed, [Next]_vars, \A g \in Gateways : ~JobWrites(g)
    PROVE  \A f \in Friends : /\ RewardsOf(f)' = RewardsOf(f)
                              /\ \A i \in RewardsOf(f) : cashback'[i].amount = cashback[i].amount
BY GrantsStay DEF RewardsOf

(* A step that writes no reward keeps what is known of the rewards when it *)
(* changes no outcome, and what it makes a gateway know is so.             *)
LEMMA NoRewardWritten ==
    ASSUME Typed, [Next]_vars, RewardInv, \A g \in Gateways : ~JobWrites(g),
           \A f \in Friends :
               /\ Fits(f) => Fits(f)'
               /\ referral[f] \in {"PENDING", "CLOSED"} => referral'[f] \in {"PENDING", "CLOSED"}
               /\ referral'[f] = "EXPIRED_NO_RIDE" => referral[f] = "EXPIRED_NO_RIDE"
               /\ age[f] > 0 => age'[f] > 0,
           \A g \in Gateways : UNCHANGED gateway[g] \/ gateway'[g].friend = {},
           JobLooked'
    PROVE  RewardInv'
<1>1. crossed \subseteq crossed'
    BY NextCrossed
<1>2. RewardFitsOutcome'
    <2>1. \A f \in Friends : <<"reward", f>> \notin crossed' => Fits(f)'
        BY <1>1, FitsEach DEF RewardInv
    <2>2. QED
        BY <2>1, FitsEachNext
<1>3. RewardAhead'
    <2> SUFFICES ASSUME NEW g \in Gateways, NEW f \in Friends,
                        f \in gateway'[g].friend, <<"reward", f>> \notin crossed'
                 PROVE  /\ gateway'[g].rewards = {} /\ RewardsOf(f)' = {}
                        /\ referral'[f] \in {"PENDING", "CLOSED"}
        BY DEF RewardAhead
    <2>1. gateway'[g] = gateway[g]
        OBVIOUS
    <2>2. QED
        BY <1>1, <2>1, RewardsStay DEF RewardInv, RewardAhead
<1>4. ExpiredIsOld'
    BY DEF RewardInv, ExpiredIsOld
<1>5. QED
    BY <1>2, <1>3, <1>4 DEF RewardInv

(* Nor does a step that leaves the friends and the jobs alone. *)
LEMMA FriendsRest ==
    ASSUME Typed, [Next]_vars, RewardInv, \A g \in Gateways : ~JobWrites(g),
           UNCHANGED <<referral, age, rode, late>>,
           \A g \in Gateways : \/ UNCHANGED gateway[g]
                               \/ /\ gateway'[g].friend = {}
                                  /\ gateway'[g].at \in {"expire", "console"} =>
                                        \A f \in gateway'[g].list : age[f] > 0
    PROVE  RewardInv'
<1>1. \A f \in Friends : Fits(f) => Fits(f)'
    BY RewardsStay DEF Fits
<1>2. JobLooked'
    BY DEF RewardInv, JobLooked
<1>3. QED
    BY <1>1, <1>2, NoRewardWritten

(* The reward itself: the friend's only one, unless another gateway is at  *)
(* it too.                                                                 *)
LEMMA RewardWritten ==
    ASSUME Typed, [Next]_vars, RewardInv, NEW g \in Gateways, JobWrites(g)
    PROVE  RewardInv'
<1> USE DEF Typed
<1> DEFINE won == gateway[g].at = "reward"
           amount == IF won THEN RideReward ELSE NoRideReward
<1>1. PICK f \in gateway[g].friend :
          /\ cashback' = IF gateway[g].rewards # {} THEN cashback
                         ELSE Append(cashback, [source |-> f, amount |-> amount,
                                                remaining |-> amount, cold |-> FALSE,
                                                thawed |-> FALSE, status |-> "AVAILABLE"])
          /\ referral' = [referral EXCEPT ![f] = IF won THEN "QUALIFIED_RIDE" ELSE "EXPIRED_NO_RIDE"]
          /\ crossed' = crossed \cup {<<"reward", e>> : e \in
                 {f} \cap UNION {gateway[h].friend : h \in Gateways \ {g}}}
          /\ gateway' = [gateway EXCEPT ![g] =
                             At(IF won THEN "qualify" ELSE "expire", gateway[g].list)]
    BY DEF JobWrites
<1>2. /\ UNCHANGED <<age, rode, late>> /\ f \in Friends
      /\ gateway[g].at \in {"reward", "console"}
    BY DEF JobWrites, clocks, JobsTyped, GatewayRows
<1>3. crossed \subseteq crossed'
    BY NextCrossed
<1>4. /\ referral'[f] = IF won THEN "QUALIFIED_RIDE" ELSE "EXPIRED_NO_RIDE"
      /\ \A e \in Friends \ {f} : referral'[e] = referral[e]
    BY <1>1, <1>2 DEF FriendsTyped
<1>5. /\ gateway'[g] = At(IF won THEN "qualify" ELSE "expire", gateway[g].list)
      /\ \A h \in Gateways \ {g} : gateway'[h] = gateway[h]
    BY <1>1 DEF JobsTyped
<1>6. /\ cashback \in Seq(CashbackRows)
      /\ DOMAIN cashback = 1..Len(cashback) /\ Len(cashback) \in Nat
    BY DEF RowsTyped
<1>7. \A e \in Friends \ {f} :
          /\ RewardsOf(e)' = RewardsOf(e)
          /\ \A i \in RewardsOf(e) : cashback'[i].amount = cashback[i].amount
    <2>1. CASE gateway[g].rewards # {}
        BY <1>1, <2>1 DEF RewardsOf
    <2>2. CASE gateway[g].rewards = {}
        <3>1. PICK row : /\ row.source = f
                         /\ cashback' = Append(cashback, row)
            BY <1>1, <2>2
        <3>2. /\ DOMAIN cashback' = DOMAIN cashback \cup {Len(cashback) + 1}
              /\ cashback'[Len(cashback) + 1] = row
              /\ \A i \in DOMAIN cashback : cashback'[i] = cashback[i]
            BY <1>6, <3>1
        <3>3. QED
            BY <3>1, <3>2 DEF RewardsOf
    <2>3. QED
        BY <2>1, <2>2
<1>8. ASSUME <<"reward", f>> \notin crossed'
      PROVE  /\ RewardsOf(f)' = {Len(cashback) + 1}
             /\ cashback'[Len(cashback) + 1].amount = amount
             /\ \A h \in Gateways : f \notin gateway'[h].friend
    <2>1. gateway[g].rewards = {} /\ RewardsOf(f) = {}
        BY <1>1, <1>2, <1>3, <1>8 DEF RewardInv, RewardAhead
    <2>2. PICK row : /\ row.source = f /\ row.amount = amount
                     /\ cashback' = Append(cashback, row)
        BY <1>1, <2>1
    <2>3. /\ DOMAIN cashback' = DOMAIN cashback \cup {Len(cashback) + 1}
          /\ cashback'[Len(cashback) + 1] = row
          /\ \A i \in DOMAIN cashback : cashback'[i] = cashback[i]
        BY <1>6, <2>2
    <2>4. RewardsOf(f)' = {Len(cashback) + 1}
        BY <2>1, <2>2, <2>3 DEF RewardsOf
    <2>5. \A h \in Gateways \ {g} : f \notin gateway[h].friend
        BY <1>1, <1>8
    <2>6. gateway'[g].friend = {}
        BY <1>5 DEF At
    <2>7. QED
        BY <1>5, <2>2, <2>3, <2>4, <2>5, <2>6
<1>9. /\ won => f \in rode
      /\ ~won => age[f] > 0 /\ (f \in rode => f \in late)
    BY <1>1, <1>2 DEF RewardInv, JobLooked
<1>10. \A e \in Friends : <<"reward", e>> \notin crossed' => Fits(e)'
    <2>1. ASSUME NEW e \in Friends, e # f, <<"reward", e>> \notin crossed'
          PROVE  Fits(e)'
        <3>1. Fits(e)
            BY <1>3, <2>1, FitsEach DEF RewardInv
        <3>2. QED
            BY <1>2, <1>4, <1>7, <2>1, <3>1 DEF Fits
    <2>2. ASSUME <<"reward", f>> \notin crossed'
          PROVE  Fits(f)'
        BY <1>2, <1>4, <1>8, <1>9, <2>2 DEF Fits
    <2>3. QED
        BY <1>2, <2>1, <2>2
<1>11. RewardFitsOutcome'
    BY <1>10, FitsEachNext
<1>12. RewardAhead'
    <2> SUFFICES ASSUME NEW h \in Gateways, NEW e \in Friends,
                        e \in gateway'[h].friend, <<"reward", e>> \notin crossed'
                 PROVE  /\ gateway'[h].rewards = {} /\ RewardsOf(e)' = {}
                        /\ referral'[e] \in {"PENDING", "CLOSED"}
        BY DEF RewardAhead
    <2>1. h # g
        BY <1>5 DEF At
    <2>2. e # f
        BY <1>8
    <2>3. QED
        BY <1>3, <1>4, <1>5, <1>7, <2>1, <2>2 DEF RewardInv, RewardAhead
<1>13. JobLooked'
    <2>1. \A h \in Gateways \ {g} : gateway'[h] = gateway[h]
        BY <1>5
    <2>2. /\ gateway'[g].at \in {"qualify", "expire"} /\ gateway'[g].list = gateway[g].list
          /\ gateway'[g].at = "expire" => gateway[g].at = "console"
        BY <1>2, <1>5 DEF At
    <2>3. QED
        BY <1>2, <2>1, <2>2 DEF RewardInv, JobLooked
<1>14. ExpiredIsOld'
    BY <1>2, <1>4, <1>9 DEF RewardInv, ExpiredIsOld
<1>15. QED
    BY <1>11, <1>12, <1>13, <1>14 DEF RewardInv

LEMMA NextRewardInv == Typed /\ RewardInv /\ [Next]_vars => RewardInv'
<1> SUFFICES ASSUME Typed, RewardInv, [Next]_vars
             PROVE  RewardInv'
    OBVIOUS
<1> USE DEF Typed
<1>1. ASSUME NEW g \in Gateways, JobWrites(g)
      PROVE  RewardInv'
    BY <1>1, RewardWritten
<1> SUFFICES ASSUME \A g \in Gateways : ~JobWrites(g)
             PROVE  RewardInv'
    BY <1>1
<1>2. ASSUME NEW f \in Friends, ApplyCode(f)
      PROVE  RewardInv'
    <2>1. /\ referral[f] = "NONE" /\ referral'[f] = "PENDING"
          /\ \A e \in Friends \ {f} : referral'[e] = referral[e]
          /\ UNCHANGED <<age, rode, late, gateway>>
        BY <1>2 DEF ApplyCode, FriendsTyped, ghosts
    <2>2. \A e \in Friends : Fits(e) => Fits(e)'
        BY <2>1, RewardsStay DEF Fits
    <2>3. JobLooked'
        BY <2>1 DEF RewardInv, JobLooked
    <2>4. QED
        BY <2>1, <2>2, <2>3, NoRewardWritten
<1>3. ASSUME NEW f \in Friends, FriendRides(f)
      PROVE  RewardInv'
    <2>1. /\ UNCHANGED <<referral, age, gateway>>
          /\ rode' = rode \cup {f} /\ f \notin rode
          /\ late' = IF age[f] > 0 THEN late \cup {f} ELSE late
        BY <1>3 DEF FriendRides, clocks
    <2>2. \A e \in Friends : Fits(e) => Fits(e)'
        BY <2>1, RewardsStay DEF Fits, RewardInv, ExpiredIsOld
    <2>3. JobLooked'
        BY <2>1 DEF RewardInv, JobLooked
    <2>4. QED
        BY <2>1, <2>2, <2>3, NoRewardWritten
<1>4. ASSUME NEW f \in Friends, Ages(f)
      PROVE  RewardInv'
    <2>1. /\ UNCHANGED <<referral, rode, late, gateway>>
          /\ \A e \in Friends : age[e] > 0 => age'[e] > 0
        BY <1>4 DEF Ages, rows, ghosts, FriendsTyped
    <2>2. \A e \in Friends : Fits(e) => Fits(e)'
        BY <2>1, RewardsStay DEF Fits
    <2>3. JobLooked'
        <3>1. \A g \in Gateways : gateway[g].list \subseteq Friends /\ gateway[g].friend \subseteq Friends
            BY DEF JobsTyped, GatewayRows
        <3>2. QED
            BY <2>1, <3>1 DEF RewardInv, JobLooked
    <2>4. QED
        BY <2>1, <2>2, <2>3, NoRewardWritten
<1>5. ASSUME NEW g \in Gateways, JobCloses(g)
      PROVE  RewardInv'
    <2>1. /\ UNCHANGED <<age, rode, late>> /\ gateway' = [gateway EXCEPT ![g] = Idle]
          /\ \A e \in Friends : \/ referral'[e] = referral[e]
                                \/ referral[e] = "PENDING" /\ referral'[e] = "CLOSED"
        BY <1>5 DEF JobCloses, clocks, ghosts
    <2>2. \A e \in Friends : Fits(e) => Fits(e)'
        BY <2>1, RewardsStay DEF Fits
    <2>3. /\ gateway'[g].friend = {} /\ gateway'[g].at = "idle"
          /\ \A h \in Gateways \ {g} : gateway'[h] = gateway[h]
        BY <2>1 DEF Idle, At, JobsTyped
    <2>4. JobLooked'
        BY <2>1, <2>3 DEF RewardInv, JobLooked
    <2>5. QED
        BY <2>1, <2>2, <2>3, <2>4, NoRewardWritten
<1>6. ASSUME NEW g \in Gateways, NEW w, gateway' = [gateway EXCEPT ![g] = w],
             w.friend = {}, w.at \in {"expire", "console"} => \A f \in w.list : age[f] > 0,
             UNCHANGED <<referral, age, rode, late>>
      PROVE  RewardInv'
    <2>1. gateway'[g] = w /\ \A h \in Gateways \ {g} : gateway'[h] = gateway[h]
        BY <1>6 DEF JobsTyped
    <2>2. QED
        BY <1>6, <2>1, FriendsRest
<1>7. ASSUME NEW g \in Gateways, JobFreezes(g) \/ JobTurns(g) \/ JobFails(g) \/ ReleaseWrites(g)
      PROVE  RewardInv'
    <2>1. UNCHANGED <<referral, age, rode, late>>
        BY <1>7 DEF JobFreezes, JobTurns, JobFails, ReleaseWrites, rows, clocks, ghosts
    <2>2. \A step, list : At(step, list).friend = {} /\ At(step, list).at = step
                              /\ At(step, list).list = list
        BY DEF At
    <2>3. CASE JobTurns(g)
        <3>1. \A f \in First({f \in Pending : age[f] > 0}) : age[f] > 0
            BY DEF First
        <3>2. QED
            BY <1>6, <2>1, <2>2, <2>3, <3>1 DEF JobTurns
    <2>4. CASE JobFreezes(g)
        <3>1. PICK w : /\ w = At("qualify", First(Pending))
                       /\ gateway' = [gateway EXCEPT ![g] = w]
            BY <2>4 DEF JobFreezes
        <3>2. w.friend = {} /\ w.at = "qualify"
            BY <2>2, <3>1
        <3>3. QED
            BY <1>6, <2>1, <3>1, <3>2
    <2>5. CASE JobFails(g) \/ ReleaseWrites(g)
        BY <1>6, <2>1, <2>2, <2>5 DEF JobFails, ReleaseWrites, Idle
    <2>6. QED
        BY <1>7, <2>3, <2>4, <2>5
<1>8. ASSUME NEW g \in Gateways, NEW r \in Rides, ReleaseReads(g, r)
      PROVE  RewardInv'
    <2>1. UNCHANGED <<referral, age, rode, late>>
        BY <1>8 DEF ReleaseReads, rows, clocks, ghosts
    <2>2. PICK w : /\ w = [At("release", {}) EXCEPT !.usages = UsagesOf(r, {"RESERVED"})]
                   /\ gateway' = [gateway EXCEPT ![g] = w]
        BY <1>8 DEF ReleaseReads
    <2>3. w.friend = {} /\ w.at = "release"
        BY <2>2 DEF At
    <2>4. QED
        BY <1>6, <2>1, <2>2, <2>3
<1>9. ASSUME NEW g \in Gateways, JobReads(g)
      PROVE  RewardInv'
    <2>1. UNCHANGED <<referral, age, rode, late, cashback, crossed>>
        BY <1>9 DEF JobReads, rows, clocks, ghosts
    <2>2. PICK f \in gateway[g].list :
              LET owed == (gateway[g].at = "qualify") = HasQualifyingRide(f)
              IN  gateway' = [gateway EXCEPT ![g] =
                      [at |-> IF ~(owed /\ Settles(f)) THEN gateway[g].at
                              ELSE IF gateway[g].at = "qualify" THEN "reward" ELSE "console",
                       list |-> gateway[g].list \ {f},
                       friend |-> IF owed /\ Settles(f) THEN {f} ELSE {},
                       rewards |-> {i \in DOMAIN cashback : cashback[i].source = f},
                       usages |-> {}]]
        BY <1>9 DEF JobReads
    <2>3. gateway[g].at \in {"qualify", "expire"} /\ f \in Friends
        BY <1>9 DEF JobReads, JobsTyped, GatewayRows
    <2> DEFINE owed == (gateway[g].at = "qualify") = HasQualifyingRide(f)
               w == [at |-> IF ~(owed /\ Settles(f)) THEN gateway[g].at
                            ELSE IF gateway[g].at = "qualify" THEN "reward" ELSE "console",
                     list |-> gateway[g].list \ {f},
                     friend |-> IF owed /\ Settles(f) THEN {f} ELSE {},
                     rewards |-> {i \in DOMAIN cashback : cashback[i].source = f},
                     usages |-> {}]
    <2>4. gateway' = [gateway EXCEPT ![g] = w]
        BY <2>2
    <2>5. CASE ~(owed /\ Settles(f))
        <3>1. w.friend = {} /\ w.at = gateway[g].at /\ w.list \subseteq gateway[g].list
            BY <2>5
        <3>2. w.at \in {"expire", "console"} => \A e \in w.list : age[e] > 0
            BY <3>1 DEF RewardInv, JobLooked
        <3> HIDE DEF w
        <3>3. QED
            BY <1>6, <2>1, <2>4, <3>1, <3>2
    <2>6. CASE owed /\ Settles(f)
        <3>1. /\ w.friend = {f} /\ w.rewards = RewardsOf(f) /\ w.list \subseteq gateway[g].list
              /\ gateway[g].at = "qualify" => w.at = "reward" /\ f \in rode
              /\ gateway[g].at = "expire" => w.at = "console" /\ f \notin rode
            BY <2>3, <2>6 DEF RewardsOf, HasQualifyingRide
        <3> HIDE DEF w
        <3>2. gateway'[g] = w /\ \A h \in Gateways \ {g} : gateway'[h] = gateway[h]
            BY <2>4 DEF JobsTyped
        <3>3. <<"reward", f>> \notin crossed => RewardsOf(f) = {} /\ referral[f] = "PENDING"
            BY <2>3, <2>6, FitsEach DEF RewardInv, Fits, Settles
        <3>4. RewardFitsOutcome'
            BY <2>1 DEF RewardInv, RewardFitsOutcome
        <3>5. \A e : RewardsOf(e)' = RewardsOf(e)
            BY <2>1 DEF RewardsOf
        <3>6. RewardAhead'
            BY <2>1, <2>3, <3>1, <3>2, <3>3, <3>5 DEF RewardInv, RewardAhead
        <3>7. gateway[g].at = "expire" => \A e \in gateway[g].list : age[e] > 0
            BY DEF RewardInv, JobLooked
        <3>8. JobLooked'
            BY <2>1, <2>3, <3>1, <3>2, <3>7 DEF RewardInv, JobLooked
        <3>9. ExpiredIsOld'
            BY <2>1 DEF RewardInv, ExpiredIsOld
        <3>10. QED
            BY <3>4, <3>6, <3>8, <3>9 DEF RewardInv
    <2>7. QED
        BY <2>5, <2>6
<1>10. ASSUME \/ \E i \in DOMAIN cashback : Cools(i)
              \/ \E q \in Requests : ReserveReads(q) \/ AsksWithout(q) \/ ReserveWrites(q)
                                       \/ RequestSucceeds(q) \/ RequestFails(q)
                                       \/ RequestUnanswered(q)
              \/ \E c \in Calls : CallDies(c)
              \/ \E r \in Rides : \/ RideCompleted(r) \/ CompletionSettles(r)
                                    \/ RideEnds(r) \/ DriverWalksOut(r)
              \/ UNCHANGED referralVars
       PROVE  UNCHANGED <<referral, age, rode, late, gateway>>
    BY <1>10 DEF Cools, ReserveReads, AsksWithout, ReserveWrites, RequestSucceeds, RequestFails,
                 RequestUnanswered, CallDies, RideCompleted, CompletionSettles, RideEnds,
                 DriverWalksOut, referralVars, rows, clocks, ghosts
<1>11. ASSUME UNCHANGED <<referral, age, rode, late, gateway>>
       PROVE  RewardInv'
    BY <1>11, FriendsRest
<1>12. QED
    BY <1>2, <1>3, <1>4, <1>5, <1>7, <1>8, <1>9, <1>10, <1>11, StepKinds

LEMMA InitRewardInv == Init => RewardInv
<1> SUFFICES ASSUME Init
             PROVE  RewardInv
    OBVIOUS
<1>1. PICK T \in Traffic :
          /\ referral = [f \in Friends |-> IF f \in T THEN "NONE" ELSE "ELSEWHERE"]
          /\ gateway = [g \in Gateways |-> IF g \in T THEN Idle ELSE At("down", {})]
    BY DEF Init
<1>2. cashback = <<>>
    BY DEF Init, ReferralsInit
<1>3. \A f \in Friends : /\ RewardsOf(f) = {}
                         /\ referral[f] \notin {"QUALIFIED_RIDE", "EXPIRED_NO_RIDE"}
    BY <1>1, <1>2 DEF RewardsOf
<1>4. RewardFitsOutcome
    BY <1>3, FitsEach DEF Fits
<1>5. \A g \in Gateways : gateway[g].friend = {} /\ gateway[g].at \in {"idle", "down"}
    BY <1>1 DEF Idle, At
<1>6. QED
    BY <1>3, <1>4, <1>5 DEF RewardInv, RewardAhead, JobLooked, ExpiredIsOld

(* A friend brings the rider one reward, and the one the referral came to: *)
(* with the jobs of every gateway running side by side, dying half-way and *)
(* run again, over rides that are stored long after they ended.  Only two  *)
(* gateways that settle one referral at once reward it twice.              *)
THEOREM RewardsFit == Spec => []RewardFitsOutcome
<1>1. Init => Typed /\ RewardInv
    BY InitTyped, InitRewardInv
<1>2. Typed /\ RewardInv /\ [Next]_vars => (Typed /\ RewardInv)'
    BY NextTyped, NextRewardInv
<1>3. RewardInv => RewardFitsOutcome
    BY DEF RewardInv
<1>4. QED
    BY <1>1, <1>2, <1>3, PTL DEF Spec
-----------------------------------------------------------------------------
(***************************************************************************)
(* Conservation.  Who has usages has asked and reserved, so what a request *)
(* reserves is new; and while no two requests took from a cashback at      *)
(* once, what a request read of it is still there.                         *)
(***************************************************************************)
Reservers == {"reserved", "done", "failed"}

UsagesOfAsked == \A k \in DOMAIN usage : request[k[1]].at \in Reservers

TakesAreThere ==
    \A q \in Requests : request[q].at = "reserving" =>
        \A i \in DOMAIN request[q].takes :
            <<"spend", i>> \notin crossed => request[q].takes[i] <= cashback[i].remaining

ConserveInv == CashbackConserved /\ UsagesOfAsked /\ TakesAreThere

(* The usages of cashback i that hold or spent something of it. *)
HoldingOf(u, i) == {k \in DOMAIN u : k[2] = i /\ u[k].status \in Spent}

Balanced(i) ==
    /\ <<"release", i>> \notin crossed =>
          cashback[i].remaining + Sum(usage, HoldingOf(usage, i)) = cashback[i].amount
    /\ <<"spend", i>> \notin crossed => cashback[i].remaining >= 0

LEMMA ConservedEach == CashbackConserved <=> \A i \in DOMAIN cashback : Balanced(i)
BY TotalIsSum DEF CashbackConserved, Balanced, HoldingOf

LEMMA ConservedEachNext ==
    CashbackConserved' <=> (\A i \in DOMAIN cashback : Balanced(i))'
BY ConservedEach, PTL

(* The laws of sums of usages. *)
LEMMA SumAgree ==
    ASSUME NEW u, NEW v, NEW S, \A k \in S : u[k].amount = v[k].amount
    PROVE  Sum(u, S) = Sum(v, S)
BY DEF Sum

LEMMA SumEmpty == \A u : Sum(u, {}) = 0
BY TallyOfNothing, RewardsAreAmounts DEF Sum

LEMMA SumSplit ==
    ASSUME NEW u, NEW S, NEW T, IsFiniteSet(S), IsFiniteSet(T), S \cap T = {},
           \A k \in S \cup T : u[k].amount \in 0..Fare
    PROVE  /\ Sum(u, S \cup T) = Sum(u, S) + Sum(u, T)
           /\ Sum(u, S) \in Nat /\ Sum(u, T) \in Nat
<1> DEFINE a == [k \in S \cup T |-> u[k].amount]
           b == [k \in S |-> u[k].amount]
           c == [k \in T |-> u[k].amount]
<1>1. Fare \in Nat
    BY RewardsAreAmounts
<1>2. \A k \in S \cup T : a[k] \in 0..Fare
    OBVIOUS
<1>3. (\A k \in S : b[k] = a[k]) /\ (\A k \in T : c[k] = a[k])
    OBVIOUS
<1>4. b \in [S -> 0..Fare] /\ c \in [T -> 0..Fare]
    OBVIOUS
<1> HIDE DEF a, b, c
<1>5. Tally(a, S \cup T, Fare) = Tally(a, S, Fare) + Tally(a, T, Fare)
    BY <1>1, <1>2, TallySplit
<1>6. Tally(b, S, Fare) = Tally(a, S, Fare) /\ Tally(c, T, Fare) = Tally(a, T, Fare)
    BY <1>1, <1>3, TallyAgree
<1>7. Tally(b, S, Fare) \in Nat /\ Tally(c, T, Fare) \in Nat
    BY <1>1, <1>4, TallyType
<1>8. QED
    BY <1>5, <1>6, <1>7 DEF Sum, a, b, c

LEMMA SumOne ==
    ASSUME NEW u, NEW k, u[k].amount \in 0..Fare
    PROVE  Sum(u, {k}) = u[k].amount
<1>1. Fare \in Nat /\ [j \in {k} |-> u[j].amount][k] = u[k].amount
    BY RewardsAreAmounts
<1>2. QED
    BY <1>1, TallyOfOne DEF Sum

LEMMA AmountsTyped ==
    ASSUME RowsTyped, NEW k \in DOMAIN usage
    PROVE  /\ usage[k].amount \in 1..Fare /\ usage[k].amount \in 0..Fare
           /\ usage[k].amount \in Nat
           /\ usage[k].status \in {"RESERVED", "SETTLED", "RELEASED"}
           /\ usage[k] \in UsageRows
           /\ k[1] \in Requests /\ k[2] \in DOMAIN cashback
<1>1. usage[k] \in UsageRows
    BY DEF RowsTyped
<1>2. QED
    BY <1>1, RewardsAreAmounts DEF RowsTyped, UsageRows

(* How money moves: not at all, granted, reserved or given back. *)
MoneyRests ==
    /\ DOMAIN cashback' = DOMAIN cashback /\ DOMAIN usage' = DOMAIN usage
    /\ \A i \in DOMAIN cashback : cashback'[i].remaining = cashback[i].remaining
    /\ \A k \in DOMAIN usage : /\ usage'[k].amount = usage[k].amount
                               /\ usage'[k].status \in Spent <=> usage[k].status \in Spent

GivesBack(S) ==
    /\ ReleaseRows(S)
    /\ \A k \in S : usage[k].status = "RESERVED" \/ <<"release", k[2]>> \in crossed'

LEMMA MoneyMoves ==
    ASSUME Typed, [Next]_vars
    PROVE  \/ MoneyRests
           \/ \E g \in Gateways : JobWrites(g)
           \/ \E q \in Requests : ReserveWrites(q)
           \/ \E S \in SUBSET DOMAIN usage : GivesBack(S)
<1> USE DEF Typed
<1>1. \A i \in DOMAIN cashback : cashback[i] \in CashbackRows
    BY RowsOfCashback
<1>2. ASSUME UNCHANGED <<cashback, usage>>
      PROVE  MoneyRests
    BY <1>2 DEF MoneyRests
<1>3. ASSUME NEW f \in Friends, ApplyCode(f)
      PROVE  MoneyRests
    <2>1. UNCHANGED usage
        BY <1>3 DEF ApplyCode
    <2>2. ASSUME NEW j \in DOMAIN cashback,
                 cashback' = [cashback EXCEPT ![j].status = "AVAILABLE", ![j].cold = FALSE,
                                              ![j].thawed = TRUE]
          PROVE  MoneyRests
        <3>1. cashback' = [cashback EXCEPT ![j] =
                              [cashback[j] EXCEPT !.status = "AVAILABLE", !.cold = FALSE,
                                                  !.thawed = TRUE]]
            BY <2>2
        <3>2. QED
            BY <1>1, <2>1, <3>1 DEF CashbackRows, MoneyRests
    <2>3. QED
        BY <1>2, <1>3, <2>1, <2>2 DEF ApplyCode
<1>4. ASSUME NEW i \in DOMAIN cashback, Cools(i)
      PROVE  MoneyRests
    BY <1>1, <1>4 DEF Cools, CashbackRows, MoneyRests
<1>5. ASSUME NEW g \in Gateways, JobFreezes(g)
      PROVE  MoneyRests
    BY <1>1, <1>5 DEF JobFreezes, CashbackRows, MoneyRests
<1>6. ASSUME NEW g \in Gateways, ReleaseWrites(g)
      PROVE  \E S \in SUBSET DOMAIN usage : GivesBack(S)
    <2>1. gateway[g].usages \in SUBSET DOMAIN usage
        BY DEF JobsTyped, GatewayRows
    <2>2. QED
        BY <1>6, <2>1 DEF ReleaseWrites, GivesBack
<1>7. ASSUME NEW q \in Requests, RequestFails(q) \/ RequestUnanswered(q)
      PROVE  MoneyRests \/ \E S \in SUBSET DOMAIN usage : GivesBack(S)
    <2>1. \A k \in UsagesOf(RideOf[q], {"RESERVED"}) :
              k \in DOMAIN usage /\ usage[k].status = "RESERVED"
        BY DEF UsagesOf
    <2>2. QED
        BY <1>2, <1>7, <2>1 DEF RequestFails, RequestUnanswered, GivesBack
<1>8. ASSUME NEW r \in Rides, CompletionSettles(r)
      PROVE  MoneyRests
    BY <1>8, AmountsTyped DEF CompletionSettles, SettleUsages, UsageRows, MoneyRests, Spent
<1>9. ASSUME \/ \E f \in Friends : FriendRides(f) \/ Ages(f)
             \/ \E g \in Gateways : JobReads(g) \/ JobTurns(g) \/ JobCloses(g) \/ JobFails(g)
             \/ \E q \in Requests : ReserveReads(q) \/ AsksWithout(q) \/ RequestSucceeds(q)
             \/ \E c \in Calls : CallDies(c)
             \/ \E r \in Rides : RideCompleted(r) \/ RideEnds(r) \/ DriverWalksOut(r)
             \/ \E g \in Gateways, r \in Rides : ReleaseReads(g, r)
             \/ UNCHANGED referralVars
      PROVE  UNCHANGED <<cashback, usage>>
    BY <1>9 DEF FriendRides, Ages, JobReads, JobTurns, JobCloses, JobFails, ReserveReads,
                AsksWithout, RequestSucceeds, CallDies, RideCompleted, RideEnds,
                DriverWalksOut, ReleaseReads, referralVars, rows
<1>10. QED
    BY <1>2, <1>3, <1>4, <1>5, <1>6, <1>7, <1>8, <1>9, StepKinds

LEMMA RestBalances ==
    ASSUME Typed, [Next]_vars, MoneyRests, NEW i \in DOMAIN cashback, Balanced(i)
    PROVE  Balanced(i)'
<1>1. crossed \subseteq crossed' /\ cashback'[i].amount = cashback[i].amount
    BY NextCrossed, GrantsStay
<1>2. HoldingOf(usage', i) = HoldingOf(usage, i)
    BY DEF HoldingOf, MoneyRests
<1>3. Sum(usage', HoldingOf(usage, i)) = Sum(usage, HoldingOf(usage, i))
    <2>1. \A k \in HoldingOf(usage, i) : usage'[k].amount = usage[k].amount
        BY DEF HoldingOf, MoneyRests
    <2>2. QED
        BY <2>1, SumAgree
<1>4. QED
    BY <1>1, <1>2, <1>3 DEF Balanced, MoneyRests

LEMMA GrantBalances ==
    ASSUME Typed, [Next]_vars, NEW g \in Gateways, JobWrites(g), CashbackConserved,
           NEW i \in DOMAIN cashback'
    PROVE  Balanced(i)'
<1> USE DEF Typed
<1>1. crossed \subseteq crossed' /\ usage' = usage
    BY NextCrossed DEF JobWrites
<1>2. \A j \in DOMAIN cashback : Balanced(j)
    BY ConservedEach
<1>3. CASE i \in DOMAIN cashback /\ cashback'[i] = cashback[i]
    BY <1>1, <1>2, <1>3 DEF Balanced
<1>4. cashback \in Seq(CashbackRows) /\ DOMAIN cashback = 1..Len(cashback) /\ Len(cashback) \in Nat
    BY DEF RowsTyped
<1>5. CASE i \notin DOMAIN cashback \/ cashback'[i] # cashback[i]
    <2>1. PICK row : /\ row.amount = row.remaining /\ row.amount \in Nat
                     /\ cashback' = Append(cashback, row)
        BY <1>5, RewardsAreAmounts DEF JobWrites
    <2>2. i \notin DOMAIN cashback /\ cashback'[i] = row
        BY <1>4, <1>5, <2>1
    <2>3. HoldingOf(usage, i) = {}
        BY <2>2, AmountsTyped DEF HoldingOf
    <2>4. Sum(usage, HoldingOf(usage, i)) = 0
        BY <2>3, SumEmpty
    <2>5. QED
        BY <1>1, <2>1, <2>2, <2>4 DEF Balanced
<1>6. QED
    BY <1>3, <1>5

LEMMA SpendBalances ==
    ASSUME Typed, [Next]_vars, NEW q \in Requests, ReserveWrites(q), UsagesOfAsked,
           TakesAreThere, NEW i \in DOMAIN cashback, Balanced(i)
    PROVE  Balanced(i)'
<1> USE DEF Typed
<1> DEFINE p == request[q]
<1>1. crossed \subseteq crossed' /\ cashback'[i].amount = cashback[i].amount
    BY NextCrossed, GrantsStay
<1>2. /\ p.at = "reserving" /\ cashback' = SpendRows(p)
      /\ usage' = [k \in DOMAIN usage \cup NewUsages(q) |->
             IF k \in NewUsages(q) THEN [amount |-> p.takes[k[2]], status |-> "RESERVED"]
             ELSE usage[k]]
    BY DEF ReserveWrites
<1>3. NewUsages(q) = {<<q, j>> : j \in DOMAIN p.takes}
    BY DEF NewUsages
<1>4. DOMAIN usage \cap NewUsages(q) = {}
    BY <1>2, <1>3 DEF UsagesOfAsked, Reservers
<1>5. /\ p.takes \in [DOMAIN p.takes -> 1..Fare]
      /\ cashback[i] \in CashbackRows /\ cashback[i].remaining \in Int
      /\ cashback[i].amount \in Int
    BY RowsOfCashback DEF RequestsTyped, RequestTyped
<1>6. \A k \in HoldingOf(usage, i) : usage'[k] = usage[k] /\ usage[k].amount \in 0..Fare
    BY <1>2, <1>4, AmountsTyped DEF HoldingOf
<1>7. Sum(usage', HoldingOf(usage, i)) = Sum(usage, HoldingOf(usage, i))
    BY <1>6, SumAgree
<1>8. Sum(usage, HoldingOf(usage, i)) \in Nat
    BY SumType DEF HoldingOf
<1>9. CASE i \notin DOMAIN p.takes
    <2>1. HoldingOf(usage', i) = HoldingOf(usage, i)
        BY <1>2, <1>3, <1>4, <1>9 DEF HoldingOf
    <2>2. cashback'[i] = cashback[i]
        BY <1>2, <1>9 DEF SpendRows
    <2>3. QED
        BY <1>1, <1>7, <2>1, <2>2 DEF Balanced
<1>10. CASE i \in DOMAIN p.takes
    <2>1. PICK new : new = <<q, i>>
        OBVIOUS
    <2>2. /\ new \in NewUsages(q) /\ new[2] = i
          /\ \A k \in NewUsages(q) : k[2] = i => k = new
        BY <1>3, <1>10, <2>1
    <2>3. usage'[new] = [amount |-> p.takes[i], status |-> "RESERVED"]
        BY <1>2, <2>2
    <2>4. /\ p.takes[i] \in 0..Fare /\ p.takes[i] \in Nat
          /\ usage'[new].amount = p.takes[i] /\ usage'[new].status = "RESERVED"
        BY <1>5, <1>10, <2>3, RewardsAreAmounts
    <2>5. HoldingOf(usage', i) = HoldingOf(usage, i) \cup {new}
        BY <1>2, <1>4, <2>2, <2>4 DEF HoldingOf, Spent
    <2>6. HoldingOf(usage, i) \cap {new} = {}
        BY <1>4, <2>2 DEF HoldingOf
    <2>7. Sum(usage', HoldingOf(usage', i))
              = Sum(usage, HoldingOf(usage, i)) + p.takes[i]
        <3>1. IsFiniteSet(HoldingOf(usage, i)) /\ IsFiniteSet({new})
            BY UsagesFinite, FS_Singleton DEF HoldingOf
        <3>2. \A k \in HoldingOf(usage, i) \cup {new} : usage'[k].amount \in 0..Fare
            BY <1>6, <2>4
        <3>3. Sum(usage', HoldingOf(usage, i) \cup {new})
                  = Sum(usage', HoldingOf(usage, i)) + Sum(usage', {new})
            BY <2>6, <3>1, <3>2, SumSplit
        <3>4. Sum(usage', {new}) = p.takes[i]
            BY <2>4, SumOne
        <3>5. QED
            BY <1>7, <2>5, <3>3, <3>4
    <2>8. cashback'[i].remaining = cashback[i].remaining - p.takes[i]
        <3>1. cashback'[i].remaining
                  = [cashback[i] EXCEPT !.remaining = cashback[i].remaining - p.takes[i],
                        !.status = IF p.left[i] <= 0 THEN "USED" ELSE "AVAILABLE"].remaining
            BY <1>2, <1>10 DEF SpendRows
        <3> HIDE DEF p
        <3>2. QED
            BY <1>5, <3>1 DEF CashbackRows
    <2>9. <<"spend", i>> \notin crossed => p.takes[i] <= cashback[i].remaining
        BY <1>2, <1>10 DEF TakesAreThere
    <2> HIDE DEF p
    <2>10. QED
        BY <1>1, <1>5, <1>8, <2>4, <2>7, <2>8, <2>9 DEF Balanced
<1>11. QED
    BY <1>9, <1>10

LEMMA BackBalances ==
    ASSUME Typed, [Next]_vars, NEW S \in SUBSET DOMAIN usage, GivesBack(S),
           NEW i \in DOMAIN cashback, Balanced(i)
    PROVE  Balanced(i)'
<1> USE DEF Typed
<1>1. crossed \subseteq crossed' /\ cashback'[i].amount = cashback[i].amount
    BY NextCrossed, GrantsStay
<1>2. PICK back : back = {k \in S : k[2] = i}
    OBVIOUS
<1>3. PICK held : held = HoldingOf(usage, i)
    OBVIOUS
<1>4. cashback'[i] = IF back = {} THEN cashback[i]
                     ELSE [cashback[i] EXCEPT !.remaining = @ + Total(back), !.status = "AVAILABLE"]
    BY <1>2 DEF GivesBack, ReleaseRows
<1>5. Total(back) = Sum(usage, back) /\ Sum(usage, back) \in Nat
    BY <1>2, SumType, TotalIsSum
<1>6. cashback[i] \in CashbackRows /\ cashback[i].remaining \in Int /\ cashback[i].amount \in Int
    BY RowsOfCashback
<1>7. cashback'[i].remaining = cashback[i].remaining + Sum(usage, back)
    <2>1. CASE back = {}
        <3>1. Sum(usage, back) = 0
            BY <2>1, SumEmpty
        <3>2. QED
            BY <1>4, <1>6, <2>1, <3>1
    <2>2. CASE back # {}
        <3>1. cashback'[i] = [cashback[i] EXCEPT !.remaining = cashback[i].remaining + Total(back),
                                                 !.status = "AVAILABLE"]
            BY <1>4, <2>2
        <3>2. QED
            BY <1>5, <1>6, <3>1 DEF CashbackRows
    <2>3. QED
        BY <2>1, <2>2
<1>8. /\ DOMAIN usage' = DOMAIN usage
      /\ \A k \in DOMAIN usage \ S : usage'[k] = usage[k]
      /\ \A k \in S : usage'[k].amount = usage[k].amount /\ usage'[k].status = "RELEASED"
    BY AmountsTyped DEF GivesBack, ReleaseRows, UsageRows
<1>9. HoldingOf(usage', i) = held \ back
    BY <1>2, <1>3, <1>8 DEF HoldingOf, Spent
<1>10. Sum(usage', held \ back) = Sum(usage, held \ back)
    <2>1. \A k \in held \ back : usage'[k].amount = usage[k].amount
        BY <1>3, <1>8 DEF HoldingOf
    <2>2. QED
        BY <2>1, SumAgree
<1>11. ASSUME <<"release", i>> \notin crossed'
       PROVE  /\ Sum(usage, held) = Sum(usage, back) + Sum(usage, held \ back)
              /\ Sum(usage, held \ back) \in Nat
    <2>1. back \subseteq held
        BY <1>2, <1>3, <1>11 DEF GivesBack, HoldingOf, Spent
    <2>2. IsFiniteSet(back) /\ IsFiniteSet(held \ back)
        BY <1>2, <1>3, UsagesFinite DEF HoldingOf
    <2>3. \A k \in back \cup (held \ back) : usage[k].amount \in 0..Fare
        BY <1>2, <1>3, AmountsTyped DEF HoldingOf
    <2>4. back \cup (held \ back) = held /\ back \cap (held \ back) = {}
        BY <2>1
    <2>5. /\ Sum(usage, back \cup (held \ back)) = Sum(usage, back) + Sum(usage, held \ back)
          /\ Sum(usage, held \ back) \in Nat
        BY <2>2, <2>3, <2>4, SumSplit
    <2>6. QED
        BY <2>4, <2>5
<1>12. <<"release", i>> \notin crossed' =>
           cashback'[i].remaining + Sum(usage', HoldingOf(usage', i)) = cashback'[i].amount
    <2> SUFFICES ASSUME <<"release", i>> \notin crossed'
                 PROVE  cashback'[i].remaining + Sum(usage', HoldingOf(usage', i)) = cashback'[i].amount
        OBVIOUS
    <2>1. cashback[i].remaining + Sum(usage, held) = cashback[i].amount
        BY <1>1, <1>3 DEF Balanced
    <2>2. Sum(usage', HoldingOf(usage', i)) = Sum(usage, held \ back)
        BY <1>9, <1>10
    <2>3. (cashback[i].remaining + Sum(usage, back)) + Sum(usage, held \ back) = cashback[i].amount
        BY <1>5, <1>6, <1>11, <2>1
    <2>4. QED
        BY <1>1, <1>7, <2>2, <2>3
<1>13. <<"spend", i>> \notin crossed' => cashback'[i].remaining >= 0
    BY <1>1, <1>5, <1>6, <1>7 DEF Balanced
<1>14. QED
    BY <1>12, <1>13 DEF Balanced

(* A step moves one request at most, and only by a step of its own. *)
LEMMA OnlyMover ==
    ASSUME Typed, [Next]_vars, NEW o \in Requests
    PROVE  \/ request'[o] = request[o]
           \/ ReserveReads(o) \/ AsksWithout(o) \/ ReserveWrites(o)
           \/ RequestSucceeds(o) \/ RequestFails(o) \/ RequestUnanswered(o)
           \/ o \in Calls /\ CallDies(o)
<1> USE DEF Typed, RequestsTyped
<1>1. ASSUME NEW q \in Requests, NEW p, request' = [request EXCEPT ![q] = p], q # o
      PROVE  request'[o] = request[o]
    BY <1>1
<1>2. ASSUME NEW q \in Requests, q # o, ReserveReads(q)
      PROVE  request'[o] = request[o]
    BY <1>2, ReadTyped
<1>3. ASSUME NEW q \in Requests, q # o,
             \/ AsksWithout(q) \/ ReserveWrites(q) \/ RequestSucceeds(q)
             \/ RequestFails(q) \/ RequestUnanswered(q) \/ CallDies(q)
      PROVE  request'[o] = request[o]
    BY <1>1, <1>3 DEF AsksWithout, ReserveWrites, RequestSucceeds, RequestFails,
                      RequestUnanswered, CallDies
<1>4. ASSUME \/ \E g \in Gateways : JobFreezes(g) \/ JobReads(g) \/ JobTurns(g) \/ JobFails(g)
                                      \/ ReleaseWrites(g) \/ JobWrites(g) \/ JobCloses(g)
             \/ \E f \in Friends : ApplyCode(f) \/ FriendRides(f) \/ Ages(f)
             \/ \E i \in DOMAIN cashback : Cools(i)
             \/ \E r \in Rides : \/ RideCompleted(r) \/ CompletionSettles(r)
                                   \/ RideEnds(r) \/ DriverWalksOut(r)
             \/ \E g \in Gateways, r \in Rides : ReleaseReads(g, r)
             \/ UNCHANGED referralVars
      PROVE  UNCHANGED request
    BY <1>4 DEF JobFreezes, JobReads, JobTurns, JobFails, ReleaseWrites, JobWrites, JobCloses,
                ApplyCode, FriendRides, Ages, Cools, RideCompleted, CompletionSettles,
                RideEnds, DriverWalksOut, ReleaseReads, referralVars
<1>5. QED
    BY <1>2, <1>3, <1>4, StepKinds

(* Where a request is after its own step. *)
LEMMA MoverEnds ==
    ASSUME Typed, NEW o \in Requests
    PROVE  /\ AsksWithout(o) => request[o].at = "idle" /\ request'[o] = Quiet("reserved", 0)
           /\ ReserveWrites(o) => /\ request[o].at = "reserving"
                                  /\ request'[o] = Quiet("reserved", Taken(request[o].takes))
           /\ RequestSucceeds(o) => request[o].at = "reserved" /\ request'[o] = Quiet("done", 0)
           /\ RequestFails(o) \/ RequestUnanswered(o) =>
                 request[o].at = "reserved" /\ request'[o] = Quiet("failed", 0)
           /\ CallDies(o) => request'[o] = Quiet("failed", 0)
           /\ \A at, off : Quiet(at, off).at = at /\ Quiet(at, off).off = off
<1> USE DEF Typed, RequestsTyped
<1>1. \A at, off : Quiet(at, off).at = at /\ Quiet(at, off).off = off
    BY DEF Quiet
<1>2. Waiting.at = "idle"
    BY <1>1 DEF Waiting
<1>3. QED
    BY <1>1, <1>2 DEF AsksWithout, ReserveWrites, RequestSucceeds, RequestFails,
                      RequestUnanswered, CallDies, Over

(* What a request that reads takes: no more than there is, and nothing     *)
(* when the ride has its usages already.                                   *)
LEMMA ReadTakes ==
    ASSUME Typed, NEW q \in Requests, ReserveReads(q)
    PROVE  /\ request[q].at = "idle" /\ UNCHANGED <<rows, rides, ghosts>>
           /\ \/ /\ UsagesOf(RideOf[q], Spent) = {} /\ request'[q].at = "reserving"
                 /\ \A i \in DOMAIN request'[q].takes :
                       request'[q].takes[i] <= cashback[i].remaining
              \/ request'[q] = Quiet("reserved", Total(UsagesOf(RideOf[q], Spent)))
<1> USE DEF Typed, RequestsTyped
<1>1. request[q].at = "idle" /\ UNCHANGED <<rows, rides, ghosts>>
    BY DEF ReserveReads, Waiting, Quiet
<1>2. CASE UsagesOf(RideOf[q], Spent) # {}
    BY <1>1, <1>2 DEF ReserveReads
<1>3. CASE UsagesOf(RideOf[q], Spent) = {}
    <2>1. PICK want \in 1..Fare : \E takes \in Greedy(want) :
              request' = [request EXCEPT ![q] =
                  [at |-> "reserving", off |-> 0, takes |-> takes,
                   left |-> [i \in DOMAIN takes |-> cashback[i].remaining - takes[i]]]]
        BY <1>3 DEF ReserveReads
    <2>2. PICK takes \in Greedy(want) :
              request' = [request EXCEPT ![q] =
                  [at |-> "reserving", off |-> 0, takes |-> takes,
                   left |-> [i \in DOMAIN takes |-> cashback[i].remaining - takes[i]]]]
        BY <2>1
    <2>3. request'[q].at = "reserving" /\ request'[q].takes = takes
        BY <2>2
    <2>4. \A i \in DOMAIN takes : takes[i] <= cashback[i].remaining
        BY DEF Greedy
    <2>5. QED
        BY <1>1, <1>3, <2>3, <2>4
<1>4. QED
    BY <1>2, <1>3

LEMMA NextUsagesOfAsked ==
    ASSUME Typed, [Next]_vars, UsagesOfAsked
    PROVE  UsagesOfAsked'
<1> USE DEF Typed
<1>1. \A o \in Requests : request[o].at \in Reservers => request'[o].at \in Reservers
    BY OnlyMover, MoverEnds, ReadTakes DEF Reservers
<1>2. ASSUME DOMAIN usage' = DOMAIN usage
      PROVE  UsagesOfAsked'
    BY <1>1, <1>2, AmountsTyped DEF UsagesOfAsked
<1>3. ASSUME NEW q \in Requests, ReserveWrites(q)
      PROVE  UsagesOfAsked'
    <2>1. \A k \in NewUsages(q) : k[1] = q
        BY DEF NewUsages
    <2>2. request'[q].at \in Reservers
        BY <1>3, MoverEnds DEF Reservers
    <2>3. DOMAIN usage' = DOMAIN usage \cup NewUsages(q)
        BY <1>3, SpendTyped
    <2>4. QED
        BY <1>1, <2>1, <2>2, <2>3, AmountsTyped DEF UsagesOfAsked
<1>4. ASSUME NEW g \in Gateways, JobWrites(g)
      PROVE  DOMAIN usage' = DOMAIN usage
    BY <1>4 DEF JobWrites
<1>5. QED
    BY <1>2, <1>3, <1>4, MoneyMoves, ReleaseRowsTyped DEF MoneyRests, GivesBack

LEMMA NextTakesAreThere ==
    ASSUME Typed, [Next]_vars, TakesAreThere
    PROVE  TakesAreThere'
<1> USE DEF Typed
<1> SUFFICES ASSUME NEW q \in Requests, request'[q].at = "reserving",
                    NEW i \in DOMAIN request'[q].takes, <<"spend", i>> \notin crossed'
             PROVE  request'[q].takes[i] <= cashback'[i].remaining
    BY DEF TakesAreThere
<1>1. <<"spend", i>> \notin crossed
    BY NextCrossed
<1>2. CASE ReserveReads(q)
    BY <1>2, ReadTakes, MoverEnds DEF rows
<1>3. CASE request'[q] = request[q]
    <2>1. /\ i \in DOMAIN cashback /\ request[q].takes[i] \in Int
          /\ request[q].takes[i] <= cashback[i].remaining
        BY <1>1, <1>3, RewardsAreAmounts DEF TakesAreThere, RequestsTyped, RequestTyped
    <2>2. cashback[i] \in CashbackRows /\ cashback[i].remaining \in Int
        BY <2>1, RowsOfCashback
    <2>3. CASE MoneyRests
        BY <1>3, <2>1, <2>3 DEF MoneyRests
    <2>4. ASSUME NEW g \in Gateways, JobWrites(g)
          PROVE  cashback'[i] = cashback[i]
        <3>1. cashback \in Seq(CashbackRows) /\ i \in 1..Len(cashback)
            BY <2>1 DEF RowsTyped
        <3>2. \A row : Append(cashback, row)[i] = cashback[i]
            BY <3>1
        <3>3. QED
            BY <2>4, <3>2 DEF JobWrites
    <2>5. ASSUME NEW o \in Requests, ReserveWrites(o)
          PROVE  cashback'[i] = cashback[i]
        <3>1. o # q
            BY <2>5, MoverEnds
        <3>2. i \notin DOMAIN request[o].takes
            <4>1. q \in {x \in Requests \ {o} : request[x].at = "reserving"}
                BY <1>3, <3>1
            <4>2. i \in UNION {DOMAIN request[x].takes :
                                  x \in {x \in Requests \ {o} : request[x].at = "reserving"}}
                BY <1>3, <4>1
            <4>3. QED
                BY <2>5, <4>2 DEF ReserveWrites
        <3>3. QED
            BY <2>1, <2>5, <3>2 DEF ReserveWrites, SpendRows
    <2>6. ASSUME NEW S \in SUBSET DOMAIN usage, GivesBack(S)
          PROVE  /\ cashback'[i].remaining \in Int
                 /\ cashback'[i].remaining >= cashback[i].remaining
        <3>1. PICK back : /\ back = {k \in S : k[2] = i}
                          /\ cashback'[i] = IF back = {} THEN cashback[i]
                                 ELSE [cashback[i] EXCEPT !.remaining = @ + Total(back),
                                                          !.status = "AVAILABLE"]
            BY <2>1, <2>6 DEF GivesBack, ReleaseRows
        <3>2. Total(back) \in Nat
            BY <3>1, SumType, TotalIsSum
        <3>3. CASE back = {}
            BY <2>2, <3>1, <3>3
        <3>4. CASE back # {}
            <4>1. cashback'[i] = [cashback[i] EXCEPT !.remaining = cashback[i].remaining + Total(back),
                                                     !.status = "AVAILABLE"]
                BY <3>1, <3>4
            <4>2. cashback'[i].remaining = cashback[i].remaining + Total(back)
                BY <2>2, <4>1 DEF CashbackRows
            <4>3. QED
                BY <2>2, <3>2, <4>2
        <3>5. QED
            BY <3>3, <3>4
    <2>7. ASSUME NEW S \in SUBSET DOMAIN usage, GivesBack(S)
          PROVE  request'[q].takes[i] <= cashback'[i].remaining
        BY <1>3, <2>1, <2>2, <2>6, <2>7
    <2>8. QED
        BY <1>3, <2>1, <2>3, <2>4, <2>5, <2>7, MoneyMoves
<1>4. QED
    BY <1>2, <1>3, OnlyMover, MoverEnds

LEMMA NextConserveInv == Typed /\ ConserveInv /\ [Next]_vars => ConserveInv'
<1> SUFFICES ASSUME Typed, ConserveInv, [Next]_vars
             PROVE  ConserveInv'
    OBVIOUS
<1>1. \A i \in DOMAIN cashback : Balanced(i)
    BY ConservedEach DEF ConserveInv
<1>2. \A i \in DOMAIN cashback' : Balanced(i)'
    <2>1. CASE MoneyRests
        BY <1>1, <2>1, RestBalances DEF MoneyRests
    <2>2. ASSUME NEW g \in Gateways, JobWrites(g)
          PROVE  \A i \in DOMAIN cashback' : Balanced(i)'
        BY <2>2, GrantBalances DEF ConserveInv
    <2>3. ASSUME NEW q \in Requests, ReserveWrites(q)
          PROVE  \A i \in DOMAIN cashback' : Balanced(i)'
        BY <1>1, <2>3, SpendBalances, SpendTyped DEF ConserveInv, Typed
    <2>4. ASSUME NEW S \in SUBSET DOMAIN usage, GivesBack(S)
          PROVE  \A i \in DOMAIN cashback' : Balanced(i)'
        BY <1>1, <2>4, BackBalances, ReleaseRowsTyped DEF GivesBack, Typed
    <2>5. QED
        BY <2>1, <2>2, <2>3, <2>4, MoneyMoves
<1>3. CashbackConserved'
    BY <1>2, ConservedEachNext
<1>4. QED
    BY <1>3, NextUsagesOfAsked, NextTakesAreThere DEF ConserveInv

LEMMA InitConserveInv == Init => ConserveInv
<1> SUFFICES ASSUME Init
             PROVE  ConserveInv
    OBVIOUS
<1>1. PICK T \in Traffic :
          request = [q \in Requests |-> IF q \in T THEN Waiting ELSE Over("failed")]
    BY DEF Init
<1>2. cashback = <<>> /\ DOMAIN usage = {}
    BY DEF Init, ReferralsInit, Nothing
<1>3. \A q \in Requests : request[q].at # "reserving"
    BY <1>1 DEF Waiting, Over, Quiet
<1>4. QED
    BY <1>2, <1>3, ConservedEach DEF ConserveInv, UsagesOfAsked, TakesAreThere

(* Cashback is neither minted nor lost, and never overspent: whatever      *)
(* requests, releases, retries and jobs are at work on its rows, what is   *)
(* left of it and what its usages hold make up what was granted.  Only two *)
(* transactions that read the same row at once break it.                   *)
THEOREM CashbackIsConserved == Spec => []CashbackConserved
<1>1. Init => Typed /\ ConserveInv
    BY InitTyped, InitConserveInv
<1>2. Typed /\ ConserveInv /\ [Next]_vars => (Typed /\ ConserveInv)'
    BY NextTyped, NextConserveInv
<1>3. ConserveInv => CashbackConserved
    BY DEF ConserveInv
<1>4. QED
    BY <1>1, <1>2, <1>3, PTL DEF Spec
-----------------------------------------------------------------------------
(***************************************************************************)
(* Discounts.  A ride that is not asked for yet, and whose requests did    *)
(* not meet, has no usages while a request reads for it, the usages its    *)
(* one reserved request counts on, and none when no request is at work.    *)
(* Usages are settled with the ride and released once it is over.          *)
(***************************************************************************)
SettledIsCompleted ==
    \A k \in DOMAIN usage : usage[k].status = "SETTLED" => ride[RideOfUsage(k)] = "completed"

ReleaseIsDue ==
    \A g \in Gateways : gateway[g].at = "release" =>
        \A k \in gateway[g].usages :
            ride[RideOfUsage(k)] = "cancelled" \/ RideOfUsage(k) \in dropped

Alone(r) == r \notin dropped /\ <<"ride", r>> \notin crossed
RequestsFor(r) == {q \in Requests : RideOf[q] = r}
ReservedFor(r) == {q \in RequestsFor(r) : request[q].at = "reserved"}

AskingFindsNothing(r) ==
    \A q \in RequestsFor(r) : request[q].at = "reserving" => UsagesOf(r, Spent) = {}

AskedForItAll(r) ==
    \A q \in RequestsFor(r) :
        ReservedFor(r) = {q} => request[q].off = Sum(usage, UsagesOf(r, {"RESERVED"}))

NothingIsKept(r) ==
    \A q \in RequestsFor(r) :
        request[q].at = "idle" /\ ReservedFor(r) = {} => UsagesOf(r, {"RESERVED"}) = {}

Backed(r) ==
    /\ ride[r] = "none" => AskingFindsNothing(r) /\ AskedForItAll(r) /\ NothingIsKept(r)
    /\ ride[r] = "open" => Sum(usage, UsagesOf(r, {"RESERVED"})) = discount[r]
    /\ ride[r] = "completed" =>
          \/ /\ UsagesOf(r, {"SETTLED"}) = {}
             /\ Sum(usage, UsagesOf(r, {"RESERVED"})) = discount[r]
          \/ /\ UsagesOf(r, {"RESERVED"}) = {}
             /\ Sum(usage, UsagesOf(r, {"SETTLED"})) = discount[r]

BackedInv ==
    /\ UsagesOfAsked /\ SettledIsCompleted /\ ReleaseIsDue
    /\ \A r \in Rides : Alone(r) => Backed(r)

LEMMA BackedIsBacked == BackedInv => DiscountIsBacked
BY TotalIsSum DEF BackedInv, Backed, Alone, DiscountIsBacked, Spent

(* What the writes do to usages.  *)
LEMMA Released ==
    ASSUME Typed, NEW S \in SUBSET DOMAIN usage, ReleaseRows(S)
    PROVE  /\ DOMAIN usage' = DOMAIN usage
           /\ \A k \in DOMAIN usage \ S : usage'[k] = usage[k]
           /\ \A k \in S : usage'[k].amount = usage[k].amount /\ usage'[k].status = "RELEASED"
BY AmountsTyped DEF Typed, ReleaseRows, UsageRows

LEMMA SettledWith ==
    ASSUME Typed, NEW r \in Rides, CompletionSettles(r)
    PROVE  /\ DOMAIN usage' = DOMAIN usage
           /\ \A k \in DOMAIN usage :
                 IF k \in UsagesOf(r, {"RESERVED"})
                 THEN usage'[k].amount = usage[k].amount /\ usage'[k].status = "SETTLED"
                 ELSE usage'[k] = usage[k]
BY AmountsTyped DEF Typed, CompletionSettles, SettleUsages, UsageRows, UsagesOf

LEMMA ReservedNew ==
    ASSUME Typed, UsagesOfAsked, NEW q \in Requests, ReserveWrites(q)
    PROVE  /\ DOMAIN usage' = DOMAIN usage \cup NewUsages(q)
           /\ DOMAIN usage \cap NewUsages(q) = {}
           /\ \A k \in DOMAIN usage : usage'[k] = usage[k]
           /\ \A k \in NewUsages(q) : /\ usage'[k].amount = request[q].takes[k[2]]
                                      /\ usage'[k].status = "RESERVED"
                                      /\ RideOfUsage(k) = RideOf[q]
<1>1. request[q].at = "reserving"
    BY DEF ReserveWrites
<1>2. \A k \in NewUsages(q) : k[1] = q /\ RideOfUsage(k) = RideOf[q]
    BY DEF NewUsages, RideOfUsage
<1>3. DOMAIN usage \cap NewUsages(q) = {}
    BY <1>1, <1>2 DEF UsagesOfAsked, Reservers
<1>4. QED
    BY <1>2, <1>3 DEF ReserveWrites

LEMMA UsagesMove ==
    ASSUME Typed, [Next]_vars
    PROVE  \/ UNCHANGED usage
           \/ \E q \in Requests : ReserveWrites(q)
           \/ \E r \in Rides : CompletionSettles(r)
           \/ \E g \in Gateways : ReleaseWrites(g)
           \/ \E q \in Requests : RequestFails(q) \/ RequestUnanswered(q)
<1>1. ASSUME \/ \E f \in Friends : ApplyCode(f) \/ FriendRides(f) \/ Ages(f)
             \/ \E i \in DOMAIN cashback : Cools(i)
             \/ \E g \in Gateways : JobFreezes(g) \/ JobReads(g) \/ JobTurns(g) \/ JobCloses(g)
                                      \/ JobFails(g) \/ JobWrites(g)
             \/ \E q \in Requests : ReserveReads(q) \/ AsksWithout(q) \/ RequestSucceeds(q)
             \/ \E c \in Calls : CallDies(c)
             \/ \E r \in Rides : RideCompleted(r) \/ RideEnds(r) \/ DriverWalksOut(r)
             \/ \E g \in Gateways, r \in Rides : ReleaseReads(g, r)
             \/ UNCHANGED referralVars
      PROVE  UNCHANGED usage
    BY <1>1 DEF ApplyCode, Cools, JobFreezes, JobWrites, FriendRides, Ages, JobReads, JobTurns,
                JobCloses, JobFails, ReserveReads, AsksWithout, RequestSucceeds, CallDies,
                RideCompleted, RideEnds, DriverWalksOut, ReleaseReads, referralVars, rows
<1>2. QED
    BY <1>1, StepKinds

(* A ride opens with its request, and then ends one way or the other. *)
LEMMA RidesMove ==
    ASSUME Typed, [Next]_vars, NEW r \in Rides
    PROVE  /\ \/ UNCHANGED <<ride[r], discount[r]>>
              \/ /\ ride[r] = "none"
                 /\ \E q \in RequestsFor(r) : RequestSucceeds(q) \/ RequestUnanswered(q)
              \/ RideCompleted(r)
              \/ RideEnds(r)
           /\ ride[r] \in {"completed", "cancelled"} => ride'[r] = ride[r]
           /\ dropped \subseteq dropped'
<1> USE DEF Typed, RidesTyped, FaresTyped
<1>1. ASSUME UNCHANGED <<ride[r], discount[r]>>, dropped \subseteq dropped'
      PROVE  /\ ride[r] \in {"completed", "cancelled"} => ride'[r] = ride[r]
             /\ dropped \subseteq dropped'
    BY <1>1
<1>2. ASSUME NEW q \in Requests, RequestSucceeds(q) \/ RequestUnanswered(q)
      PROVE  /\ \/ UNCHANGED <<ride[r], discount[r]>>
                \/ q \in RequestsFor(r) /\ ride[r] = "none"
             /\ ride[r] \in {"completed", "cancelled"} => ride'[r] = ride[r]
             /\ dropped \subseteq dropped'
    <2>1. RideOf[q] \in Rides /\ UNCHANGED dropped
        BY <1>2, OwnRide DEF RequestSucceeds, RequestUnanswered
    <2>2. CASE RideOf[q] # r
        BY <1>2, <2>1, <2>2 DEF RequestSucceeds, RequestUnanswered, Opens
    <2>3. CASE RideOf[q] = r
        BY <1>2, <2>1, <2>3 DEF RequestSucceeds, RequestUnanswered, Opens, RequestsFor
    <2>4. QED
        BY <2>2, <2>3
<1>3. ASSUME NEW x \in Rides, RideCompleted(x) \/ RideEnds(x)
      PROVE  /\ \/ UNCHANGED <<ride[r], discount[r]>>
                \/ x = r
             /\ ride[r] \in {"completed", "cancelled"} => ride'[r] = ride[r]
             /\ dropped \subseteq dropped'
    BY <1>3 DEF RideCompleted, RideEnds, ghosts
<1>4. ASSUME \/ \E f \in Friends : ApplyCode(f) \/ FriendRides(f) \/ Ages(f)
             \/ \E i \in DOMAIN cashback : Cools(i)
             \/ \E g \in Gateways : JobFreezes(g) \/ JobReads(g) \/ JobTurns(g) \/ JobCloses(g)
                                      \/ JobFails(g) \/ JobWrites(g) \/ ReleaseWrites(g)
             \/ \E q \in Requests : ReserveReads(q) \/ AsksWithout(q) \/ ReserveWrites(q)
                                      \/ RequestFails(q)
             \/ \E c \in Calls : CallDies(c)
             \/ \E x \in Rides : CompletionSettles(x) \/ DriverWalksOut(x)
             \/ \E g \in Gateways, x \in Rides : ReleaseReads(g, x)
             \/ UNCHANGED referralVars
      PROVE  UNCHANGED rides /\ dropped \subseteq dropped'
    BY <1>4 DEF ApplyCode, Cools, JobFreezes, JobWrites, FriendRides, Ages, JobReads, JobTurns,
                JobCloses, JobFails, ReserveReads, AsksWithout, ReserveWrites, RequestFails,
                CallDies, CompletionSettles, DriverWalksOut, ReleaseReads, ReleaseWrites,
                referralVars, ghosts
<1>5. UNCHANGED rides => UNCHANGED <<ride[r], discount[r]>>
    BY DEF rides
<1>6. QED
    BY <1>1, <1>2, <1>3, <1>4, <1>5, StepKinds

LEMMA NextSettledIsCompleted ==
    ASSUME Typed, [Next]_vars, UsagesOfAsked, SettledIsCompleted
    PROVE  SettledIsCompleted'
<1> USE DEF Typed
<1>1. \A k \in DOMAIN usage : RideOfUsage(k) \in Rides
    BY AmountsTyped, OwnRide DEF RideOfUsage
<1>2. \A k \in DOMAIN usage : ride[RideOfUsage(k)] = "completed" => ride'[RideOfUsage(k)] = "completed"
    BY <1>1, RidesMove
<1>3. ASSUME \A k \in DOMAIN usage' : usage'[k].status = "SETTLED" => k \in DOMAIN usage /\ usage[k].status = "SETTLED"
      PROVE  SettledIsCompleted'
    BY <1>2, <1>3 DEF SettledIsCompleted, RideOfUsage
<1>4. ASSUME NEW q \in Requests, ReserveWrites(q)
      PROVE  SettledIsCompleted'
    BY <1>3, <1>4, ReservedNew
<1>5. ASSUME NEW r \in Rides, CompletionSettles(r)
      PROVE  SettledIsCompleted'
    <2>1. ride'[r] = "completed"
        BY <1>5 DEF CompletionSettles, rides
    <2>2. \A k \in DOMAIN usage : usage'[k].status = "SETTLED"
              => usage[k].status = "SETTLED" \/ RideOfUsage(k) = r
        BY <1>5, SettledWith DEF UsagesOf
    <2>3. DOMAIN usage' = DOMAIN usage
        BY <1>5, SettledWith
    <2>4. QED
        BY <1>2, <2>1, <2>2, <2>3 DEF SettledIsCompleted, RideOfUsage
<1>6. ASSUME NEW S \in SUBSET DOMAIN usage, ReleaseRows(S)
      PROVE  SettledIsCompleted'
    <2>1. \A k \in DOMAIN usage : usage'[k].status = "SETTLED" => k \notin S
        BY <1>6, Released
    <2>2. QED
        BY <1>3, <1>6, <2>1, Released
<1>7. ASSUME NEW g \in Gateways, ReleaseWrites(g)
      PROVE  SettledIsCompleted'
    <2>1. gateway[g].usages \in SUBSET DOMAIN usage
        BY DEF JobsTyped, GatewayRows
    <2>2. QED
        BY <1>6, <1>7, <2>1 DEF ReleaseWrites
<1>8. ASSUME NEW q \in Requests, RequestFails(q) \/ RequestUnanswered(q)
      PROVE  SettledIsCompleted'
    BY <1>3, <1>6, <1>8 DEF RequestFails, RequestUnanswered, UsagesOf
<1>9. QED
    BY <1>3, <1>4, <1>5, <1>7, <1>8, UsagesMove

LEMMA NextReleaseIsDue ==
    ASSUME Typed, [Next]_vars, ReleaseIsDue
    PROVE  ReleaseIsDue'
<1> USE DEF Typed
<1> SUFFICES ASSUME NEW g \in Gateways, gateway'[g].at = "release", NEW k \in gateway'[g].usages
             PROVE  ride'[RideOfUsage(k)] = "cancelled" \/ RideOfUsage(k) \in dropped'
    BY DEF ReleaseIsDue, RideOfUsage
<1>1. ASSUME gateway'[g] = gateway[g]
      PROVE  ride'[RideOfUsage(k)] = "cancelled" \/ RideOfUsage(k) \in dropped'
    <2>1. k \in DOMAIN usage
        BY <1>1 DEF JobsTyped, GatewayRows
    <2>2. RideOfUsage(k) \in Rides
        BY <2>1, AmountsTyped, OwnRide DEF RideOfUsage
    <2>3. ride[RideOfUsage(k)] = "cancelled" \/ RideOfUsage(k) \in dropped
        BY <1>1 DEF ReleaseIsDue
    <2>4. QED
        BY <2>2, <2>3, RidesMove
<1>2. ASSUME NEW r \in Rides, ReleaseReads(g, r)
      PROVE  ride'[RideOfUsage(k)] = "cancelled" \/ RideOfUsage(k) \in dropped'
    <2>1. gateway'[g] = [At("release", {}) EXCEPT !.usages = UsagesOf(r, {"RESERVED"})]
        BY <1>2 DEF ReleaseReads, JobsTyped
    <2>2. gateway'[g].usages = UsagesOf(r, {"RESERVED"})
        BY <2>1 DEF At
    <2>3. RideOfUsage(k) = r
        BY <2>2 DEF UsagesOf
    <2>4. QED
        BY <1>2, <2>3 DEF ReleaseReads, rides, ghosts
<1>3. ASSUME NEW h \in Gateways, NEW w, gateway' = [gateway EXCEPT ![h] = w], w.at # "release"
      PROVE  gateway'[g] = gateway[g]
    BY <1>3 DEF JobsTyped
<1>4. \A step, list : At(step, list).at = step
    BY DEF At
<1>5. ASSUME NEW h \in Gateways, JobFreezes(h) \/ JobTurns(h) \/ JobCloses(h) \/ JobFails(h)
                                    \/ ReleaseWrites(h) \/ JobWrites(h)
      PROVE  gateway'[g] = gateway[g]
    <2>1. \E step \in {"qualify", "expire", "idle"} : \E list :
              gateway' = [gateway EXCEPT ![h] = At(step, list)]
        BY <1>5, Zenon DEF JobFreezes, JobTurns, JobCloses, JobFails, ReleaseWrites, JobWrites, Idle
    <2>2. PICK step \in {"qualify", "expire", "idle"} : \E list :
              gateway' = [gateway EXCEPT ![h] = At(step, list)]
        BY <2>1
    <2>3. PICK list : gateway' = [gateway EXCEPT ![h] = At(step, list)]
        BY <2>2
    <2>4. QED
        BY <1>3, <1>4, <2>3
<1>6. ASSUME NEW h \in Gateways, JobReads(h)
      PROVE  gateway'[g] = gateway[g]
    <2>1. PICK w : gateway' = [gateway EXCEPT ![h] = w]
                      /\ w.at \in {gateway[h].at, "reward", "console"}
        BY <1>6 DEF JobReads
    <2>2. gateway[h].at \in {"qualify", "expire"}
        BY <1>6 DEF JobReads
    <2>3. QED
        BY <1>3, <2>1, <2>2
<1>7. ASSUME NEW h \in Gateways, NEW r \in Rides, ReleaseReads(h, r), h # g
      PROVE  gateway'[g] = gateway[g]
    BY <1>7 DEF ReleaseReads, JobsTyped
<1>8. ASSUME \/ \E f \in Friends : ApplyCode(f) \/ FriendRides(f) \/ Ages(f)
             \/ \E i \in DOMAIN cashback : Cools(i)
             \/ \E q \in Requests : ReserveReads(q) \/ AsksWithout(q) \/ ReserveWrites(q)
                                      \/ RequestSucceeds(q) \/ RequestFails(q)
                                      \/ RequestUnanswered(q)
             \/ \E c \in Calls : CallDies(c)
             \/ \E r \in Rides : \/ RideCompleted(r) \/ CompletionSettles(r)
                                   \/ RideEnds(r) \/ DriverWalksOut(r)
             \/ UNCHANGED referralVars
      PROVE  gateway' = gateway
    BY <1>8 DEF ApplyCode, FriendRides, Ages, Cools, ReserveReads, AsksWithout, ReserveWrites,
                RequestSucceeds, RequestFails, RequestUnanswered, CallDies, RideCompleted,
                CompletionSettles, RideEnds, DriverWalksOut, referralVars
<1>9. QED
    BY <1>1, <1>2, <1>5, <1>6, <1>7, <1>8, StepKinds

(* A ride that a step does not concern: its usages and its requests. *)
UsagesRest(r) ==
    \A k \in DOMAIN usage \cup DOMAIN usage' : RideOfUsage(k) = r =>
        k \in DOMAIN usage /\ k \in DOMAIN usage' /\ usage'[k] = usage[k]

RequestsRest(r) == \A q \in RequestsFor(r) : request'[q] = request[q]

LEMMA UsagesStay ==
    ASSUME NEW r \in Rides, UsagesRest(r)
    PROVE  \A statuses : /\ UsagesOf(r, statuses)' = UsagesOf(r, statuses)
                         /\ Sum(usage', UsagesOf(r, statuses)) = Sum(usage, UsagesOf(r, statuses))
<1> SUFFICES ASSUME NEW statuses
             PROVE  /\ UsagesOf(r, statuses)' = UsagesOf(r, statuses)
                    /\ Sum(usage', UsagesOf(r, statuses)) = Sum(usage, UsagesOf(r, statuses))
    OBVIOUS
<1>1. UsagesOf(r, statuses)' = UsagesOf(r, statuses)
    BY DEF UsagesOf, UsagesRest, RideOfUsage
<1>2. \A k \in UsagesOf(r, statuses) : usage'[k].amount = usage[k].amount
    BY DEF UsagesOf, UsagesRest
<1>3. QED
    BY <1>1, <1>2, SumAgree

LEMMA OthersUsagesRest ==
    ASSUME Typed, [Next]_vars, UsagesOfAsked, ReleaseIsDue, NEW r \in Rides, Alone(r),
           ride[r] # "cancelled", ~CompletionSettles(r),
           \A q \in RequestsFor(r) :
               ~ReserveWrites(q) /\ ~RequestFails(q) /\ ~RequestUnanswered(q)
    PROVE  UsagesRest(r)
<1> USE DEF Typed
<1>1. ASSUME NEW S \in SUBSET DOMAIN usage, ReleaseRows(S), \A k \in S : RideOfUsage(k) # r
      PROVE  UsagesRest(r)
    BY <1>1, Released DEF UsagesRest
<1>2. ASSUME NEW g \in Gateways, ReleaseWrites(g)
      PROVE  UsagesRest(r)
    <2>1. gateway[g].usages \in SUBSET DOMAIN usage
        BY DEF JobsTyped, GatewayRows
    <2>2. \A k \in gateway[g].usages : RideOfUsage(k) # r
        BY <1>2 DEF ReleaseWrites, ReleaseIsDue, Alone
    <2>3. QED
        BY <1>1, <1>2, <2>1, <2>2 DEF ReleaseWrites
<1>3. ASSUME NEW q \in Requests, RequestFails(q) \/ RequestUnanswered(q)
      PROVE  UsagesRest(r)
    <2>1. RideOf[q] # r
        BY <1>3 DEF RequestsFor
    <2>2. CASE UNCHANGED usage
        BY <2>2 DEF UsagesRest
    <2>3. QED
        BY <1>1, <1>3, <2>1, <2>2 DEF RequestFails, RequestUnanswered, UsagesOf
<1>4. ASSUME NEW q \in Requests, ReserveWrites(q)
      PROVE  UsagesRest(r)
    <2>1. RideOf[q] # r
        BY <1>4 DEF RequestsFor
    <2>2. QED
        <3>1. /\ DOMAIN usage' = DOMAIN usage \cup NewUsages(q)
              /\ \A k \in DOMAIN usage : usage'[k] = usage[k]
              /\ \A k \in NewUsages(q) : RideOfUsage(k) # r
            BY <1>4, <2>1, ReservedNew
        <3>2. QED
            BY <3>1 DEF UsagesRest
<1>5. ASSUME NEW x \in Rides, CompletionSettles(x)
      PROVE  UsagesRest(r)
    <2>1. x # r
        BY <1>5
    <2>2. \A k \in DOMAIN usage : RideOfUsage(k) = r => k \notin UsagesOf(x, {"RESERVED"})
        BY <2>1 DEF UsagesOf
    <2>3. QED
        BY <1>5, <2>2, SettledWith DEF UsagesRest
<1>6. CASE UNCHANGED usage
    BY <1>6 DEF UsagesRest
<1>7. QED
    BY <1>2, <1>3, <1>4, <1>5, <1>6, UsagesMove

LEMMA RestBacked ==
    ASSUME NEW r \in Rides, UsagesRest(r), RequestsRest(r), UNCHANGED <<ride[r], discount[r]>>,
           Backed(r)
    PROVE  Backed(r)'
<1>1. ReservedFor(r)' = ReservedFor(r) /\ RequestsFor(r)' = RequestsFor(r)
    BY DEF ReservedFor, RequestsFor, RequestsRest
<1>2. \A statuses : /\ UsagesOf(r, statuses)' = UsagesOf(r, statuses)
                    /\ Sum(usage', UsagesOf(r, statuses)) = Sum(usage, UsagesOf(r, statuses))
    BY UsagesStay
<1>3. AskingFindsNothing(r) => AskingFindsNothing(r)'
    BY <1>1, <1>2 DEF AskingFindsNothing, RequestsRest, Spent
<1>4. AskedForItAll(r) => AskedForItAll(r)'
    BY <1>1, <1>2 DEF AskedForItAll, RequestsRest
<1>5. NothingIsKept(r) => NothingIsKept(r)'
    BY <1>1, <1>2 DEF NothingIsKept, RequestsRest
<1>6. QED
    BY <1>2, <1>3, <1>4, <1>5 DEF Backed

(* The steps that concern a ride, one by one. *)
LEMMA ReadsBacked ==
    ASSUME Typed, [Next]_vars, SettledIsCompleted, NEW r \in Rides, Backed(r),
           NEW q \in RequestsFor(r), ReserveReads(q), UsagesRest(r)
    PROVE  Backed(r)'
<1> USE DEF Typed
<1>1. q \in Requests /\ RideOf[q] = r /\ RequestsFor(r)' = RequestsFor(r)
    BY DEF RequestsFor
<1>2. request[q].at = "idle" /\ UNCHANGED <<rows, rides>>
    BY <1>1, ReadTakes
<1>3. \A o \in RequestsFor(r) \ {q} : request'[o] = request[o]
    BY <1>1, ReadTyped DEF RequestsFor
<1>4. UsagesOf(r, {"RESERVED"})' = UsagesOf(r, {"RESERVED"})
        /\ UsagesOf(r, {"SETTLED"})' = UsagesOf(r, {"SETTLED"})
        /\ UsagesOf(r, Spent)' = UsagesOf(r, Spent)
    BY <1>2 DEF rows, UsagesOf
<1>5. CASE ride[r] = "none"
    <2>1. UsagesOf(r, Spent) = UsagesOf(r, {"RESERVED"})
        BY <1>5 DEF SettledIsCompleted, UsagesOf, Spent
    <2>2. AskingFindsNothing(r) /\ AskedForItAll(r) /\ NothingIsKept(r)
        BY <1>5 DEF Backed
    <2>3. CASE UsagesOf(r, Spent) = {} /\ request'[q].at = "reserving"
        <3>1. ReservedFor(r)' = ReservedFor(r)
            BY <1>1, <1>2, <1>3, <2>3 DEF ReservedFor
        <3>2. AskingFindsNothing(r)'
            BY <1>4, <2>3 DEF AskingFindsNothing
        <3>3. AskedForItAll(r)'
            <4>1. q \notin ReservedFor(r)
                BY <1>2 DEF ReservedFor
            <4>2. QED
                BY <1>1, <1>2, <1>3, <1>4, <2>2, <3>1, <4>1 DEF AskedForItAll, rows
        <3>4. NothingIsKept(r)'
            BY <1>4, <2>1, <2>3 DEF NothingIsKept
        <3>5. QED
            BY <1>2, <1>5, <3>2, <3>3, <3>4 DEF Backed, rides
    <2>4. CASE request'[q] = Quiet("reserved", Total(UsagesOf(r, Spent)))
        <3>1. /\ request'[q].at = "reserved"
              /\ request'[q].off = Sum(usage, UsagesOf(r, {"RESERVED"}))
            BY <1>1, <2>1, <2>4, MoverEnds, TotalIsSum
        <3>2. q \in ReservedFor(r)'
            BY <1>1, <3>1 DEF ReservedFor
        <3>3. AskingFindsNothing(r)'
            BY <1>1, <1>3, <1>4, <2>2, <3>1 DEF AskingFindsNothing
        <3>4. AskedForItAll(r)'
            BY <1>2, <1>4, <3>1, <3>2 DEF AskedForItAll, rows
        <3>5. NothingIsKept(r)'
            BY <3>2 DEF NothingIsKept
        <3>6. QED
            BY <1>2, <1>5, <3>3, <3>4, <3>5 DEF Backed, rides
    <2>5. QED
        BY <1>1, <2>3, <2>4, ReadTakes
<1>6. CASE ride[r] # "none"
    BY <1>2, <1>4, <1>6 DEF Backed, rows, rides
<1>7. QED
    BY <1>5, <1>6

LEMMA WithoutBacked ==
    ASSUME Typed, [Next]_vars, NEW r \in Rides, Backed(r),
           NEW q \in RequestsFor(r), AsksWithout(q)
    PROVE  Backed(r)'
<1> USE DEF Typed
<1>1. q \in Requests /\ RideOf[q] = r /\ RequestsFor(r)' = RequestsFor(r)
    BY DEF RequestsFor
<1>2. request[q].at = "idle" /\ request'[q].at = "reserved" /\ request'[q].off = 0
    BY <1>1, MoverEnds
<1>3. \A o \in RequestsFor(r) \ {q} : request'[o] = request[o]
    BY <1>1 DEF AsksWithout, RequestsFor, RequestsTyped
<1>4. UNCHANGED <<usage, ride, discount>>
    BY DEF AsksWithout, rows, rides
<1>5. UsagesOf(r, {"RESERVED"})' = UsagesOf(r, {"RESERVED"})
        /\ UsagesOf(r, {"SETTLED"})' = UsagesOf(r, {"SETTLED"})
        /\ UsagesOf(r, Spent)' = UsagesOf(r, Spent)
    BY <1>4 DEF UsagesOf
<1>6. ReservedFor(r)' = ReservedFor(r) \cup {q} /\ q \notin ReservedFor(r)
    BY <1>1, <1>2, <1>3 DEF ReservedFor
<1>7. CASE ride[r] = "none"
    <2>1. AskingFindsNothing(r) /\ AskedForItAll(r) /\ NothingIsKept(r)
        BY <1>7 DEF Backed
    <2>2. AskingFindsNothing(r)'
        BY <1>1, <1>2, <1>3, <1>5, <2>1 DEF AskingFindsNothing
    <2>3. AskedForItAll(r)'
        <3> SUFFICES ASSUME NEW o \in RequestsFor(r), ReservedFor(r)' = {o}
                     PROVE  request'[o].off = Sum(usage', UsagesOf(r, {"RESERVED"})')
            BY <1>1 DEF AskedForItAll
        <3>1. o = q /\ ReservedFor(r) = {}
            BY <1>6
        <3>2. UsagesOf(r, {"RESERVED"}) = {}
            BY <1>2, <2>1, <3>1 DEF NothingIsKept
        <3>3. Sum(usage, {}) = 0
            BY SumEmpty
        <3>4. QED
            BY <1>2, <1>4, <1>5, <3>1, <3>2, <3>3
    <2>4. NothingIsKept(r)'
        BY <1>6 DEF NothingIsKept
    <2>5. QED
        BY <1>4, <1>7, <2>2, <2>3, <2>4 DEF Backed
<1>8. CASE ride[r] # "none"
    BY <1>4, <1>5, <1>8 DEF Backed
<1>9. QED
    BY <1>7, <1>8

LEMMA SucceedsBacked ==
    ASSUME Typed, [Next]_vars, NEW r \in Rides, Backed(r), Alone(r)',
           NEW q \in RequestsFor(r), RequestSucceeds(q)
    PROVE  Backed(r)'
<1> USE DEF Typed
<1>1. q \in Requests /\ RideOf[q] = r /\ RequestsFor(r)' = RequestsFor(r)
    BY DEF RequestsFor
<1>2. request[q].at = "reserved" /\ UNCHANGED usage
    BY <1>1, MoverEnds DEF RequestSucceeds, rows
<1>3. /\ ride'[r] = IF ride[r] = "none" THEN "open" ELSE ride[r]
      /\ discount'[r] = IF ride[r] = "none" THEN request[q].off ELSE discount[r]
    BY <1>1 DEF RequestSucceeds, Opens, RidesTyped, FaresTyped
<1>4. UsagesOf(r, {"RESERVED"})' = UsagesOf(r, {"RESERVED"})
        /\ UsagesOf(r, {"SETTLED"})' = UsagesOf(r, {"SETTLED"})
    BY <1>2 DEF UsagesOf
<1>5. \A o \in Requests \ {q} : RideOf[o] = r => request[o].at \notin {"reserving", "reserved"}
    BY <1>1 DEF RequestSucceeds, Meets, Alone
<1>6. ReservedFor(r) = {q}
    BY <1>1, <1>2, <1>5 DEF ReservedFor, RequestsFor
<1>7. CASE ride[r] = "none"
    <2>1. request[q].off = Sum(usage, UsagesOf(r, {"RESERVED"}))
        BY <1>6, <1>7 DEF Backed, AskedForItAll
    <2>2. QED
        BY <1>2, <1>3, <1>4, <1>7, <2>1 DEF Backed
<1>8. CASE ride[r] # "none"
    BY <1>2, <1>3, <1>4, <1>8 DEF Backed
<1>9. QED
    BY <1>7, <1>8

LEMMA FailsBacked ==
    ASSUME Typed, [Next]_vars, NEW r \in Rides, Backed(r), Alone(r)',
           NEW q \in RequestsFor(r), RequestFails(q)
    PROVE  Backed(r)'
<1> USE DEF Typed
<1>1. q \in Requests /\ RideOf[q] = r /\ RequestsFor(r)' = RequestsFor(r)
    BY DEF RequestsFor
<1>2. /\ request[q].at = "reserved" /\ request'[q].at = "failed"
      /\ UNCHANGED <<ride, discount>>
    <2>1. request[q].at = "reserved" /\ request'[q] = Quiet("failed", 0)
        BY <1>1, MoverEnds
    <2>2. Quiet("failed", 0).at = "failed"
        BY DEF Quiet
    <2>3. UNCHANGED <<ride, discount>>
        BY DEF RequestFails, rides
    <2>4. QED
        BY <2>1, <2>2, <2>3
<1>3. /\ ride[r] = "none"
      /\ ReleaseRows(IF request[q].off > 0 THEN UsagesOf(r, {"RESERVED"}) ELSE {})
      /\ \A o \in Requests \ {q} : RideOf[o] = r => request[o].at # "reserved"
    BY <1>1 DEF RequestFails, Meets, Alone
<1>4. PICK S \in SUBSET DOMAIN usage :
          /\ S = IF request[q].off > 0 THEN UsagesOf(r, {"RESERVED"}) ELSE {}
          /\ ReleaseRows(S)
    BY <1>3 DEF UsagesOf
<1>5. UsagesOf(r, {"RESERVED"}) \subseteq S
    <2>1. request[q].off = Sum(usage, UsagesOf(r, {"RESERVED"}))
        <3>1. ReservedFor(r) = {q}
            BY <1>1, <1>2, <1>3 DEF ReservedFor, RequestsFor
        <3>2. QED
            BY <1>3, <3>1 DEF Backed, AskedForItAll
    <2>2. CASE request[q].off > 0
        BY <1>4, <2>2
    <2>3. CASE request[q].off = 0
        <3>1. PICK T : T = UsagesOf(r, {"RESERVED"})
            OBVIOUS
        <3>2. T \in SUBSET DOMAIN usage
            BY <3>1 DEF UsagesOf
        <3>3. [k \in T |-> usage[k].amount] \in [T -> 1..Fare] /\ Fare \in Nat /\ IsFiniteSet(T)
            BY <3>2, AmountsTyped, UsagesFinite, RewardsAreAmounts
        <3>4. T = {}
            BY <2>1, <2>3, <3>1, <3>3, TallyIsZero DEF Sum
        <3>5. QED
            BY <3>1, <3>4
    <2>4. request[q].off \in Nat
        BY <1>1 DEF RequestsTyped, RequestTyped
    <2>5. QED
        BY <2>2, <2>3, <2>4
<1>6. UsagesOf(r, {"RESERVED"})' = {} /\ UsagesOf(r, Spent)' \subseteq UsagesOf(r, Spent)
    BY <1>4, <1>5, Released DEF UsagesOf, Spent, RideOfUsage
<1>7. \A o \in RequestsFor(r) \ {q} : request'[o] = request[o]
    BY <1>1 DEF RequestFails, RequestsFor, RequestsTyped
<1>8. ReservedFor(r)' = {}
    BY <1>1, <1>2, <1>3, <1>7 DEF ReservedFor, RequestsFor
<1>9. AskingFindsNothing(r)'
    BY <1>1, <1>2, <1>3, <1>6, <1>7 DEF Backed, AskingFindsNothing
<1>10. AskedForItAll(r)' /\ NothingIsKept(r)'
    BY <1>6, <1>8 DEF AskedForItAll, NothingIsKept
<1>11. QED
    BY <1>2, <1>3, <1>9, <1>10 DEF Backed

(* What the new usages hold is what was taken. *)
LEMMA NewUsagesSum ==
    ASSUME Typed, UsagesOfAsked, NEW q \in Requests, ReserveWrites(q)
    PROVE  Sum(usage', NewUsages(q)) = Taken(request[q].takes)
<1> USE DEF Typed
<1>1. PICK takes : takes = request[q].takes
    OBVIOUS
<1>2. PICK new : new = NewUsages(q)
    OBVIOUS
<1>3. /\ DOMAIN takes \subseteq DOMAIN cashback /\ takes \in [DOMAIN takes -> 1..Fare]
      /\ Fare \in Nat
    BY <1>1, RewardsAreAmounts DEF RequestsTyped, RequestTyped
<1>4. IsFiniteSet(DOMAIN takes) /\ takes \in [DOMAIN takes -> 0..Fare]
    BY <1>3, TakenType
<1>5. new = {<<q, i>> : i \in DOMAIN takes}
    BY <1>1, <1>2 DEF NewUsages
<1>6. PICK h : h = [i \in DOMAIN takes |-> <<q, i>>]
    OBVIOUS
<1>7. /\ h \in [DOMAIN takes -> new]
      /\ \A i, j \in DOMAIN takes : h[i] = h[j] => i = j
      /\ \A k \in new : \E i \in DOMAIN takes : k = h[i]
    BY <1>5, <1>6
<1>8. PICK a : a = [k \in new |-> usage'[k].amount]
    OBVIOUS
<1>9. \A i \in DOMAIN takes : a[h[i]] = takes[i]
    <2> SUFFICES ASSUME NEW i \in DOMAIN takes
                 PROVE  a[h[i]] = takes[i]
        OBVIOUS
    <2>1. h[i] \in new /\ h[i][2] = i
        BY <1>5, <1>6
    <2>2. usage'[h[i]].amount = takes[i]
        <3>1. \A k \in NewUsages(q) : usage'[k].amount = request[q].takes[k[2]]
            BY ReservedNew
        <3>2. PICK k : k = h[i]
            OBVIOUS
        <3>3. k \in NewUsages(q) /\ k[2] = i
            BY <1>2, <2>1, <3>2
        <3>4. usage'[k].amount = takes[i]
            BY <1>1, <3>1, <3>3
        <3>5. QED
            BY <3>2, <3>4
    <2>3. QED
        BY <1>8, <2>1, <2>2
<1>10. Tally(a, new, Fare) = Tally(takes, DOMAIN takes, Fare)
    BY <1>3, <1>4, <1>7, <1>9, TallyRename
<1>11. QED
    BY <1>1, <1>2, <1>8, <1>10 DEF Sum, Taken

LEMMA SpendBacked ==
    ASSUME Typed, [Next]_vars, UsagesOfAsked, NEW r \in Rides, Backed(r), Alone(r)',
           NEW q \in RequestsFor(r), ReserveWrites(q)
    PROVE  Backed(r)'
<1> USE DEF Typed
<1>1. q \in Requests /\ RideOf[q] = r /\ RequestsFor(r)' = RequestsFor(r)
    BY DEF RequestsFor
<1>2. /\ request[q].at = "reserving" /\ request'[q].at = "reserved"
      /\ request'[q].off = Taken(request[q].takes) /\ UNCHANGED <<ride, discount>>
    <2>1. /\ request[q].at = "reserving"
          /\ request'[q] = Quiet("reserved", Taken(request[q].takes))
        BY <1>1, MoverEnds
    <2>2. \A at, off : Quiet(at, off).at = at /\ Quiet(at, off).off = off
        BY DEF Quiet
    <2>3. UNCHANGED <<ride, discount>>
        BY DEF ReserveWrites, rides
    <2>4. PICK w : w = Quiet("reserved", Taken(request[q].takes))
        OBVIOUS
    <2>5. w.at = "reserved" /\ w.off = Taken(request[q].takes)
        BY <2>2, <2>4
    <2>6. QED
        BY <2>1, <2>3, <2>4, <2>5
<1>3. /\ ride[r] = "none"
      /\ \A o \in Requests \ {q} : RideOf[o] = r => request[o].at # "reserving"
    BY <1>1 DEF ReserveWrites, Alone
<1>4. UsagesOf(r, Spent) = {}
    BY <1>2, <1>3 DEF Backed, AskingFindsNothing
<1>5. UsagesOf(r, {"RESERVED"})' = NewUsages(q)
    <2>1. /\ DOMAIN usage' = DOMAIN usage \cup NewUsages(q)
          /\ \A k \in DOMAIN usage : usage'[k] = usage[k]
          /\ \A k \in NewUsages(q) : usage'[k].status = "RESERVED" /\ RideOfUsage(k) = r
        BY <1>1, ReservedNew
    <2>2. \A k \in DOMAIN usage : RideOfUsage(k) = r => usage[k].status # "RESERVED"
        BY <1>4 DEF UsagesOf, Spent
    <2>3. QED
        BY <2>1, <2>2 DEF UsagesOf, RideOfUsage
<1>6. request'[q].off = Sum(usage', UsagesOf(r, {"RESERVED"})')
    BY <1>1, <1>2, <1>5, NewUsagesSum
<1>7. \A o \in RequestsFor(r) \ {q} : request'[o] = request[o]
    BY <1>1 DEF ReserveWrites, RequestsFor, RequestsTyped
<1>8. q \in ReservedFor(r)'
    BY <1>1, <1>2 DEF ReservedFor
<1>9. AskingFindsNothing(r)'
    BY <1>1, <1>2, <1>3, <1>7 DEF AskingFindsNothing, RequestsFor
<1>10. AskedForItAll(r)' /\ NothingIsKept(r)'
    BY <1>6, <1>8 DEF AskedForItAll, NothingIsKept
<1>11. QED
    BY <1>2, <1>3, <1>9, <1>10 DEF Backed

(* A completed ride: the discount is reserved whole, then settled whole.  *)
LEMMA CompletedBacked ==
    ASSUME Typed, [Next]_vars, SettledIsCompleted, NEW r \in Rides, Backed(r), RideCompleted(r)
    PROVE  Backed(r)'
<1>1. /\ ride[r] = "open" /\ ride'[r] = "completed" /\ discount'[r] = discount[r]
      /\ usage' = usage
    BY DEF Typed, RideCompleted, RidesTyped, rows
<1>2. UsagesOf(r, {"SETTLED"}) = {}
    BY <1>1 DEF SettledIsCompleted, UsagesOf
<1>3. \A statuses : UsagesOf(r, statuses)' = UsagesOf(r, statuses)
    BY <1>1 DEF UsagesOf
<1>4. QED
    BY <1>1, <1>2, <1>3 DEF Backed

LEMMA SettledBacked ==
    ASSUME Typed, [Next]_vars, NEW r \in Rides, Backed(r), CompletionSettles(r)
    PROVE  Backed(r)'
<1> USE DEF Typed
<1>1. ride[r] = "completed" /\ ride'[r] = "completed" /\ discount'[r] = discount[r]
    BY DEF CompletionSettles, rides
<1>2. PICK held : held = UsagesOf(r, {"RESERVED"})
    OBVIOUS
<1>3. UsagesOf(r, {"SETTLED"}) = {} /\ Sum(usage, held) = discount[r]
    BY <1>1, <1>2 DEF Backed, CompletionSettles
<1>4. UsagesOf(r, {"SETTLED"})' = held /\ UsagesOf(r, {"RESERVED"})' = {}
    BY <1>2, <1>3, SettledWith DEF UsagesOf, RideOfUsage
<1>5. Sum(usage', held) = Sum(usage, held)
    <2>1. \A k \in held : usage'[k].amount = usage[k].amount
        BY <1>2, SettledWith DEF UsagesOf
    <2>2. QED
        BY <2>1, SumAgree
<1>6. QED
    BY <1>1, <1>3, <1>4, <1>5 DEF Backed

(* A call that dies leaves its ride with no request at all. *)
LEMMA DiesBacked ==
    ASSUME Typed, [Next]_vars, NEW r \in Rides, Backed(r),
           NEW c \in RequestsFor(r), c \in Calls, CallDies(c)
    PROVE  Backed(r)'
<1> USE DEF Typed
<1>1. \A q \in RequestsFor(r) : q = c
    BY OwnRide DEF RequestsFor
<1>2. request'[c].at = "failed"
    BY MoverEnds DEF RequestsFor
<1>3. ReservedFor(r)' = {} /\ RequestsFor(r)' = RequestsFor(r)
    BY <1>1, <1>2 DEF ReservedFor, RequestsFor
<1>4. AskingFindsNothing(r)' /\ AskedForItAll(r)' /\ NothingIsKept(r)'
    BY <1>1, <1>2, <1>3 DEF AskingFindsNothing, AskedForItAll, NothingIsKept
<1>5. UNCHANGED <<usage, ride, discount>>
    BY DEF CallDies, rows, rides
<1>6. QED
    BY <1>4, <1>5 DEF Backed, UsagesOf

LEMMA NextBacked ==
    ASSUME Typed, [Next]_vars, BackedInv, NEW r \in Rides, Alone(r)'
    PROVE  Backed(r)'
<1> USE DEF Typed
<1>1. Alone(r) /\ Backed(r) /\ UsagesOfAsked /\ SettledIsCompleted /\ ReleaseIsDue
    BY NextCrossed, RidesMove DEF Alone, BackedInv
<1>2. ASSUME NEW q \in RequestsFor(r), ReserveWrites(q) \/ RequestFails(q) \/ RequestSucceeds(q)
      PROVE  Backed(r)'
    BY <1>1, <1>2, SpendBacked, FailsBacked, SucceedsBacked
<1>3. CASE RideCompleted(r) \/ CompletionSettles(r)
    BY <1>1, <1>3, CompletedBacked, SettledBacked
<1>4. CASE ride'[r] = "cancelled"
    BY <1>4 DEF Backed
<1>5. ASSUME ~RideCompleted(r), ~CompletionSettles(r), ride'[r] # "cancelled",
             \A q \in RequestsFor(r) : ~ReserveWrites(q) /\ ~RequestFails(q) /\ ~RequestSucceeds(q)
      PROVE  Backed(r)'
    <2>0. \A q \in RequestsFor(r) : ~RequestUnanswered(q)
        BY DEF RequestUnanswered, RequestsFor, Alone
    <2>1. UNCHANGED <<ride[r], discount[r]>>
        <3>1. ~RideEnds(r)
            BY <1>5 DEF RideEnds, RidesTyped
        <3>2. QED
            BY <1>5, <2>0, <3>1, RidesMove
    <2>2. UsagesRest(r)
        BY <1>1, <1>5, <2>0, <2>1, OthersUsagesRest
    <2>3. ASSUME NEW q \in RequestsFor(r), ReserveReads(q) \/ AsksWithout(q)
          PROVE  Backed(r)'
        BY <1>1, <2>2, <2>3, ReadsBacked, WithoutBacked
    <2>4. ASSUME NEW q \in RequestsFor(r), q \in Calls, CallDies(q)
          PROVE  Backed(r)'
        BY <1>1, <2>4, DiesBacked
    <2>5. ASSUME \A q \in RequestsFor(r) : /\ ~ReserveReads(q) /\ ~AsksWithout(q)
                                           /\ ~(q \in Calls /\ CallDies(q))
          PROVE  Backed(r)'
        <3>1. RequestsRest(r)
            BY <1>5, <2>0, <2>5, OnlyMover DEF RequestsRest, RequestsFor
        <3>2. QED
            BY <1>1, <2>1, <2>2, <3>1, RestBacked
    <2>6. QED
        BY <2>3, <2>4, <2>5
<1>6. QED
    BY <1>2, <1>3, <1>4, <1>5

LEMMA NextBackedInv == Typed /\ BackedInv /\ [Next]_vars => BackedInv'
<1> SUFFICES ASSUME Typed, BackedInv, [Next]_vars
             PROVE  BackedInv'
    OBVIOUS
<1>1. UsagesOfAsked' /\ SettledIsCompleted' /\ ReleaseIsDue'
    BY NextUsagesOfAsked, NextSettledIsCompleted, NextReleaseIsDue DEF BackedInv
<1>2. (\A r \in Rides : Alone(r) => Backed(r))'
    BY NextBacked
<1>3. QED
    BY <1>1, <1>2 DEF BackedInv

LEMMA InitBackedInv == Init => BackedInv
<1> SUFFICES ASSUME Init
             PROVE  BackedInv
    OBVIOUS
<1>1. PICK T \in Traffic :
          /\ request = [q \in Requests |-> IF q \in T THEN Waiting ELSE Over("failed")]
          /\ gateway = [g \in Gateways |-> IF g \in T THEN Idle ELSE At("down", {})]
    BY DEF Init
<1>2. DOMAIN usage = {} /\ ride = [r \in Rides |-> "none"]
    BY DEF Init, ReferralsInit, Nothing
<1>3. \A q \in Requests : request[q].at \in {"idle", "failed"}
    BY <1>1 DEF Waiting, Over, Quiet
<1>4. \A g \in Gateways : gateway[g].at # "release"
    BY <1>1 DEF Idle, At
<1>5. \A r \in Rides : ReservedFor(r) = {} /\ UsagesOf(r, {"RESERVED"}) = {}
    BY <1>2, <1>3 DEF ReservedFor, RequestsFor, UsagesOf
<1>6. \A r \in Rides : Backed(r)
    BY <1>2, <1>3, <1>5 DEF Backed, AskingFindsNothing, AskedForItAll, NothingIsKept, RequestsFor
<1>7. QED
    BY <1>2, <1>4, <1>6 DEF BackedInv, UsagesOfAsked, SettledIsCompleted, ReleaseIsDue

(* A ride at a discounted fare has that much cashback reserved for it      *)
(* while it runs and settled once it is completed, however the requests    *)
(* for it, their failures and retries, and the releases of other rides     *)
(* interleave.  Only a ride whose requests met, or whose driver walked     *)
(* out, may run at a discount nothing backs.                               *)
THEOREM DiscountsAreBacked == Spec => []DiscountIsBacked
<1>1. Init => Typed /\ BackedInv
    BY InitTyped, InitBackedInv
<1>2. Typed /\ BackedInv /\ [Next]_vars => (Typed /\ BackedInv)'
    BY NextTyped, NextBackedInv
<1>3. QED
    BY <1>1, <1>2, BackedIsBacked, PTL DEF Spec

=============================================================================

------------------------------- MODULE Booking -------------------------------
(***************************************************************************)
(* Asking for rides with the referral cashback applied: the gateway's      *)
(* POST /scheduled-rides, whose work runs under an Idempotency-Key         *)
(* (ride.route.ts), beside the socket's ride:request, which takes its ride *)
(* id from the client and runs under no key (ride.handler.ts).  Composes   *)
(* Idempotency, one key with its retries, and Referrals, the cashback the  *)
(* rides spend.  Every call that gets to run books a ride of its own: its  *)
(* id is drawn inside execute.                                             *)
(***************************************************************************)
EXTENDS Idempotency, Referrals

CONSTANTS
    Sockets,   \* ride:request messages
    Traffic,   \* who is about together, for the size of a run
    Smooth,    \* the meetings in which nothing fails, for the size of a run
    MaxFaults  \* bound on failures, deaths and records that run out

VARIABLE faults    \* faults so far, for the bound

ASSUME BookingAssumption ==
    /\ Traffic \subseteq SUBSET (Requests \cup Gateways \cup Friends)
    /\ Smooth \subseteq Traffic /\ MaxFaults \in Nat
    /\ Requests = Calls \cup Sockets /\ Calls \cap Sockets = {}
    /\ \A c \in Calls : \A q \in Requests \ {c} : RideOf[c] # RideOf[q]

vars == <<idempotencyVars, referralVars, faults>>

Init ==
    /\ IdempotencyInit /\ ReferralsInit
    /\ \E T \in Traffic :
          /\ request = [q \in Requests |-> IF q \in T THEN Waiting ELSE Over("failed")]
          /\ call = [c \in Calls |-> IF c \in T THEN "client" ELSE "lost"]
          /\ referral = [f \in Friends |-> IF f \in T THEN "NONE" ELSE "ELSEWHERE"]
          /\ gateway = [g \in Gateways |-> IF g \in T THEN Idle ELSE At("down", {})]
          /\ faults = IF T \in Smooth THEN MaxFaults ELSE 0

Fault == faults < MaxFaults /\ faults' = faults + 1

-----------------------------------------------------------------------------
(* A call works only while runIdempotentJsonRequest runs its execute. *)
MayRun(c) == call[c] = "executing"

Works(q) == q \in Calls => MayRun(q)

Asks(q) ==
    /\ Works(q)
    /\ ReserveReads(q) \/ ReserveWrites(q)
    /\ UNCHANGED <<idempotencyVars, faults>>

(* useReferralCashback is off: the ride is asked for at its full fare. *)
AsksWithout(q) ==
    /\ Works(q) /\ request[q] = Waiting /\ ride[RideOf[q]] \in {"none", "open"}
    /\ request' = [request EXCEPT ![q] = Quiet("reserved", 0)]
    /\ UNCHANGED <<rows, clocks, rides, gateway, ghosts, idempotencyVars, faults>>

(* scheduledRideClient.create, and execute returns its 201. *)
Books(c) == RequestSucceeds(c) /\ Executed(c, TRUE) /\ UNCHANGED faults

(* It throws: released, thrown on, and the key goes. *)
BookingFails(c) == RequestFails(c) /\ Executed(c, FALSE) /\ Fault

(* create() throws with the row there: released and thrown on like any     *)
(* other failure, and a retry under the key books again.                   *)
BookingUnanswered(c) == RequestUnanswered(c) /\ DoneAndThrown(c) /\ Fault

SocketAnswers(q) == RequestSucceeds(q) /\ UNCHANGED <<idempotencyVars, faults>>
SocketFails(q) ==
    /\ RequestFails(q) \/ RequestUnanswered(q)
    /\ Fault /\ UNCHANGED idempotencyVars

(* The gateway dies with a call; a transaction that is open rolls back. *)
CallDies(c) ==
    /\ Die(c) /\ Fault
    /\ request' = [request EXCEPT ![c] = Over("failed")]
    /\ UNCHANGED <<rows, clocks, rides, gateway, ghosts>>

Next ==
    \/ \E c \in Calls :
          \/ IdempotencySteps(c) /\ UNCHANGED <<referralVars, faults>>
          \/ IdempotencyFaults(c) /\ Fault /\ UNCHANGED referralVars
          \/ Books(c) \/ BookingFails(c) \/ BookingUnanswered(c) \/ CallDies(c)
    \/ Expire /\ Fault /\ UNCHANGED referralVars
    \/ \E q \in Requests : Asks(q) \/ AsksWithout(q)
    \/ \E q \in Sockets : SocketAnswers(q) \/ SocketFails(q)
    \/ ProgrammeSteps /\ UNCHANGED <<idempotencyVars, faults>>
    \/ ProgrammeFaults /\ Fault /\ UNCHANGED idempotencyVars

Spec == Init /\ [][Next]_vars

TypeOK ==
    /\ IdempotencyTypeOK /\ ReferralsTypeOK
    /\ DOMAIN request = Requests
    /\ \A q \in Requests :
          LET p == request[q]
          IN  /\ p.at \in {"idle", "reserving", "reserved", "done", "failed"} /\ p.off \in Nat
              /\ DOMAIN p.takes \subseteq DOMAIN cashback /\ DOMAIN p.left = DOMAIN p.takes
              /\ p.takes \in [DOMAIN p.takes -> 1..Fare]
              /\ p.left \in [DOMAIN p.takes -> Int]
    /\ faults \in 0..MaxFaults

Booked == {c \in Calls : ride[RideOf[c]] # "none"}

(* One Idempotency-Key books one ride and reserves the cashback once, with *)
(* retries that arrive while the first call works or after it, and calls   *)
(* that die.  The exceptions: the lock ran out under an execute that takes *)
(* over ten minutes or died, the stored response ran out, Redis refused to *)
(* store it and the key was deleted after the ride was booked, or the row  *)
(* was committed and create() threw.                                       *)
OneBookingPerKey == ~lapsed => Cardinality(Booked) <= 1
=============================================================================

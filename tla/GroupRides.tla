----------------------------- MODULE GroupRides -----------------------------
(***************************************************************************)
(* Group rides: the match request and its selfie (api-gateway,             *)
(* group-ride.route.ts, the group part of whatsapp.route.ts), the planner  *)
(* with its pool in memory (apps/group-ride) and the dispatch of a planned *)
(* group (ride-service, group-ride-dispatch.consumer.ts).                  *)
(*                                                                         *)
(* group-ride.events is keyed by ride for what riders do and by group for  *)
(* what the planner does: order holds within a key only.  The planner is   *)
(* one consumer; a message stays at the head of its key until its handler  *)
(* ends, and comes again after a crash.  The gateway's handlers run beside *)
(* it and share nothing with it but the request row and the topic.         *)
(***************************************************************************)
EXTENDS StopSequencer

CONSTANTS
    Verified,   \* requests of riders with a stored selfie from an earlier one
    Groups,     \* group ids, as many proposals as a run may make
    MaxMail,    \* riders' messages that may wait under one key
    MaxFaults,
    None

ASSUME GroupRidesAssumption ==
    /\ None \notin Requests \cup Groups /\ Requests \cap Groups = {}
    /\ Verified \subseteq Requests
    /\ MaxMail \in Nat \ {0} /\ MaxFaults \in Nat

VARIABLES
    status,     \* GroupRideMatchRequest.status, or "NONE"
    face,       \* GroupRideFaceVerification.uploadStatus, or "none"
    checking,   \* requests whose selfie a gateway handler is looking at
    overdue,    \* requests ready for longer than GROUP_RIDE_REQUEST_TTL_S
    mail,       \* per request: GROUP_RIDE_READY_FOR_MATCH and _MATCH_CANCELLED
    topic,      \* per group: candidates, planned, route built, not handled yet
    anchorOf,   \* per group: the ride that proposed it
    pending,    \* planner: pendingRequestsByRideId
    assigned,   \* planner: assignedRideIds
    prints,     \* planner: emittedCandidateFingerprints
    seeds,      \* planner: ready rows the bootstrap has still to enqueue
    busy,       \* planner: the message that is published for, not yet finished
    dispatch,   \* per group: GROUP_RIDE_DRIVER_DISPATCH_REQUESTED, not consumed
    remembered, \* ride-service: dispatchedGroupIds
    offered,    \* ride-service: broadcasts that went out for a group
    timers,     \* ride-service: rides whose pending match has a bid timeout
    driven,     \* ride-service: anchors with a driver (assignedDriversByRideId)
    calledOff,  \* groups RIDE_BID_TIMEOUT was published for
    refused,    \* groups whose route, or whose RIDE_BID_TIMEOUT, was refused
    seated,     \* groups planned for a request in one life of the planner
    faults

rows == <<status, face, checking, overdue>>
memory == <<pending, assigned, prints, seeds, busy, seated>>
matching == <<topic, anchorOf>>
search == <<timers, calledOff, refused>>
ride == <<dispatch, remembered, offered, driven, search>>
groupRidesVars ==
    <<status, face, checking, overdue, mail, topic, anchorOf, pending, assigned, prints,
      seeds, busy, dispatch, remembered, offered, driven, search, seated, faults>>

Open == {"PENDING_FACE_UPLOAD", "READY_FOR_MATCH", "MATCHING"}
Ready == {"READY_FOR_MATCH", "MATCHING"}
Resting == [key |-> None, riders |-> {}]

GroupRidesInit ==
    /\ status = [q \in Requests |-> "NONE"]
    /\ face = [q \in Requests |-> "none"]
    /\ checking = {} /\ overdue = {}
    /\ mail = [q \in Requests |-> <<>>]
    /\ topic = [g \in Groups |-> <<>>]
    /\ anchorOf = [g \in Groups |-> None]
    /\ pending = {} /\ assigned = {} /\ prints = {} /\ seeds = {} /\ busy = Resting
    /\ dispatch = [g \in Groups |-> <<>>]
    /\ remembered = {}
    /\ offered = [g \in Groups |-> 0]
    /\ driven = {} /\ timers = {} /\ calledOff = {} /\ refused = {}
    /\ seated = [q \in Requests |-> {}]
    /\ faults \in [kind : {"riders", "planner", "storage", "broker"}, left : {MaxFaults}]

GroupRidesTypeOK ==
    /\ status \in [Requests -> Open \cup {"NONE", "GROUPED", "BOOKED", "EXPIRED", "CANCELLED"}]
    /\ face \in [Requests -> {"none", "UPLOADING", "STORED", "FAILED"}]
    /\ checking \subseteq Requests /\ overdue \subseteq Requests
    /\ mail \in [Requests -> BoundedSeq({"READY", "CANCELLED"}, MaxMail)]
    /\ anchorOf \in [Groups -> Requests \cup {None}]
    /\ pending \cup assigned \cup seeds \subseteq Requests
    /\ prints \subseteq SUBSET Requests
    /\ busy.key \in Requests \cup Groups \cup {None} /\ busy.riders \subseteq Requests
    /\ remembered \cup calledOff \cup refused \subseteq Groups
    /\ driven \cup timers \subseteq Requests
    /\ offered \in [Groups -> 0..2]
    /\ seated \in [Requests -> SUBSET Groups]

Fault(kind) ==
    /\ faults.kind = kind /\ faults.left > 0
    /\ faults' = [faults EXCEPT !.left = @ - 1]

Posted(q, message) == [mail EXCEPT ![q] = Append(@, message)]
CanPost(q) == Len(mail[q]) < MaxMail

-----------------------------------------------------------------------------
(* api-gateway: the rider's request *)

(* createMatchRequest *)
Create(q) ==
    /\ status[q] = "NONE" /\ q \notin Verified
    /\ status' = [status EXCEPT ![q] = "PENDING_FACE_UPLOAD"]
    /\ UNCHANGED <<face, checking, overdue, mail, matching, memory, ride, faults>>

(* createGroupMatchRequest of WhatsApp: the rider's stored selfie is copied*)
(* and the new request is ready at once.                                   *)
CreateVerified(q) ==
    /\ status[q] = "NONE" /\ q \in Verified
    /\ status' = [status EXCEPT ![q] = "READY_FOR_MATCH"]
    /\ face' = [face EXCEPT ![q] = "STORED"]
    /\ mail' = Posted(q, "READY")
    /\ UNCHANGED <<checking, overdue, matching, memory, ride, faults>>

(* handleCreateGroupRideFaceUploadUrlRoute *)
CreateUploadUrl(q) ==
    /\ status[q] \notin {"NONE", "CANCELLED", "EXPIRED"}
    /\ IF face[q] = "none" THEN UNCHANGED faults ELSE face[q] # "UPLOADING" /\ Fault("riders")
    /\ face' = [face EXCEPT ![q] = "UPLOADING"]
    /\ UNCHANGED <<status, checking, overdue, mail, matching, memory, ride>>

(* handleCompleteGroupRideFaceUploadRoute reads the row, then downloads    *)
(* the photo and asks the vision model about it.                           *)
StartCheck(q) ==
    /\ q \notin checking /\ face[q] # "none"
    /\ ~(face[q] = "STORED" /\ status[q] # "PENDING_FACE_UPLOAD")
    /\ checking' = checking \cup {q}
    /\ UNCHANGED <<status, face, overdue, mail, matching, memory, ride, faults>>

(* handleGroupSelfie: a photo sent over WhatsApp, whatever the row says.   *)
StartSelfie(q) ==
    /\ q \notin checking /\ status[q] # "NONE" /\ face[q] # "STORED" /\ Fault("riders")
    /\ checking' = checking \cup {q}
    /\ UNCHANGED <<status, face, overdue, mail, matching, memory, ride>>

(* completeFaceVerificationAndMarkReady looks at no status: whatever       *)
(* became of the request meanwhile, it is ready again; then the publish.   *)
Accept(q) ==
    /\ q \in checking /\ CanPost(q)
    /\ checking' = checking \ {q}
    /\ face' = [face EXCEPT ![q] = "STORED"]
    /\ status' = [status EXCEPT ![q] = "READY_FOR_MATCH"]
    /\ overdue' = overdue \ {q}
    /\ mail' = Posted(q, "READY")
    /\ UNCHANGED <<matching, memory, ride, faults>>

(* markFaceVerificationFailed *)
Reject(q) ==
    /\ q \in checking /\ Fault("riders")
    /\ checking' = checking \ {q}
    /\ face' = [face EXCEPT ![q] = "FAILED"]
    /\ UNCHANGED <<status, overdue, mail, matching, memory, ride>>

(* cancelMatchRequestForUser finds an open row or nothing; then a publish. *)
Withdraw(q) ==
    /\ CanPost(q) /\ Fault("riders")
    /\ status' = IF status[q] \in Open THEN [status EXCEPT ![q] = "CANCELLED"] ELSE status
    /\ mail' = Posted(q, "CANCELLED")
    /\ UNCHANGED <<face, overdue, matching, memory, ride>>

(* handleCancelGroupRideMatchRequestRoute: 409 when nothing was open.      *)
CancelFromApp(q) == status[q] \in Open /\ Withdraw(q) /\ UNCHANGED checking

(* cancelGroupRide: the event goes out even if nothing was open.           *)
CancelFromWhatsapp(q) == status[q] \notin Open \cup {"NONE"} /\ Withdraw(q) /\ UNCHANGED checking

(* The last selfie a rider may try is refused: the same cancellation.      *)
SelfieRefusedForGood(q) == q \in checking /\ Withdraw(q) /\ checking' = checking \ {q}

(* GROUP_RIDE_REQUEST_TTL_S after the request became ready. *)
TtlPasses(q) ==
    /\ status[q] \in Ready /\ q \notin overdue /\ Fault("riders")
    /\ overdue' = overdue \cup {q}
    /\ UNCHANGED <<status, face, checking, mail, matching, memory, ride>>

-----------------------------------------------------------------------------
(* The planner: its pool *)

Forgotten(gone) == {p \in prints : p \cap gone = {}}

(* releaseRide *)
ReleaseRide(q) ==
    /\ pending' = pending \ {q}
    /\ assigned' = assigned \ {q}
    /\ prints' = Forgotten({q})
    /\ seated' = [seated EXCEPT ![q] = {}]

(* pruneExpiredRequests *)
Expired == pending \cap overdue

(* enqueueReadyRequest of a request that is not assigned, after the prune: *)
(* into the pool, MATCHING, and the nearest group is proposed unless it    *)
(* was before.  The rows are written before the publish.  A run proposes   *)
(* as many groups as Groups has names for.                                 *)
Unused == {g \in Groups : anchorOf[g] = None}

Enqueue(q) ==
    LET pool == (pending \ Expired) \cup {q}
        known == Forgotten(Expired)
    IN  /\ pending' = pool
        /\ assigned' = assigned \ Expired
        /\ seated' = [r \in Requests |-> IF r \in Expired THEN {} ELSE seated[r]]
        /\ status' = [r \in Requests |-> IF r = q THEN "MATCHING"
                                         ELSE IF r \in Expired THEN "EXPIRED" ELSE status[r]]
        /\ \E candidates \in Candidates(q, pool) :
              LET group == NearestGroup(q, candidates)
              IN  IF Cardinality(group) < 2 \/ group \in known \/ Unused = {}
                  THEN prints' = known /\ UNCHANGED matching
                  ELSE /\ prints' = known \cup {group}
                       /\ \E g \in Unused :
                             /\ anchorOf' = [anchorOf EXCEPT ![g] = q]
                             /\ topic' = [topic EXCEPT ![g] =
                                   <<[type |-> "CANDIDATES", riders |-> group]>>]

(* Only the prune: the request is in a group already. *)
PruneOnly ==
    /\ pending' = pending \ Expired
    /\ assigned' = assigned \ Expired
    /\ prints' = Forgotten(Expired)
    /\ seated' = [r \in Requests |-> IF r \in Expired THEN {} ELSE seated[r]]
    /\ status' = [r \in Requests |-> IF r \in Expired THEN "EXPIRED" ELSE status[r]]
    /\ UNCHANGED matching

Consuming == seeds = {} /\ busy = Resting

(* The bootstrap enqueues every ready row before it subscribes. *)
Seed(q) ==
    /\ q \in seeds
    /\ seeds' = seeds \ {q}
    /\ IF q \in assigned \ Expired THEN PruneOnly ELSE Enqueue(q)
    /\ UNCHANGED <<face, checking, overdue, mail, busy, ride, faults>>

HandleReady(q) ==
    /\ Consuming /\ mail[q] # <<>> /\ Head(mail[q]) = "READY"
    /\ IF q \in assigned \ Expired THEN PruneOnly ELSE Enqueue(q)
    /\ busy' = [key |-> q, riders |-> {q}]
    /\ UNCHANGED <<face, checking, overdue, mail, seeds, ride, faults>>

HandleCancelled(q) ==
    /\ Consuming /\ mail[q] # <<>> /\ Head(mail[q]) = "CANCELLED"
    /\ ReleaseRide(q)
    /\ busy' = [key |-> q, riders |-> {q}]
    /\ UNCHANGED <<rows, mail, matching, seeds, ride, faults>>

(* The handler returns and the offset moves past the rider's message. *)
FinishMail(q) ==
    /\ busy.key = q
    /\ mail' = [mail EXCEPT ![q] = Tail(@)]
    /\ busy' = Resting
    /\ UNCHANGED <<rows, matching, pending, assigned, prints, seeds, seated, ride, faults>>

(* RIDE_COMPLETED or RIDE_CANCELLED of the trip, whose id is the anchor's. *)
TripEnds(q) ==
    /\ Consuming /\ q \in driven
    /\ q \in assigned /\ ReleaseRide(q)
    /\ UNCHANGED <<rows, mail, matching, seeds, busy, ride, faults>>

-----------------------------------------------------------------------------
(* The planner: a group on its way *)

At(g, type) == Consuming /\ topic[g] # <<>> /\ Head(topic[g]).type = type
Handled(g) == [topic EXCEPT ![g] = Tail(@)]
Published(g, type, riders) ==
    [topic EXCEPT ![g] = Append(@, [type |-> type, riders |-> riders])]

(* Faulty variants, one per property: candidates taken as the event has    *)
(* them, a dispatch that is not remembered, a limit of stops off by one.   *)
WaitingAsProposed(g) == Head(topic[g]).riders
RemembersNothing(g) == remembered
UsableAboveFour(stops) ==
    Len(stops) > 4 /\ stops[1][2] = "pickup" /\ stops[Len(stops)][2] = "dropoff"

(* Who of the candidates is still waiting: the members as memory has them. *)
Waiting(g) == (Head(topic[g]).riders \cap pending) \ assigned

(* Fewer than two are left: nothing to do.  An anchor that left makes      *)
(* planGroupStops throw: the message ends on the dead-letter topic.        *)
DropCandidates(g) ==
    /\ At(g, "CANDIDATES")
    /\ Cardinality(Waiting(g)) < 2 \/ anchorOf[g] \notin Waiting(g)
    /\ topic' = Handled(g)
    /\ UNCHANGED <<rows, mail, anchorOf, memory, ride, faults>>

(* GROUP_RIDE_PLANNED is published; the rows and the memory come after.    *)
PlanGroup(g) ==
    /\ At(g, "CANDIDATES")
    /\ Cardinality(Waiting(g)) >= 2 /\ anchorOf[g] \in Waiting(g)
    /\ topic' = Published(g, "PLANNED", Waiting(g))
    /\ busy' = [key |-> g, riders |-> Waiting(g)]
    /\ seated' = [q \in Requests |-> IF q \in Waiting(g) THEN seated[q] \cup {g} ELSE seated[q]]
    /\ UNCHANGED <<rows, mail, anchorOf, pending, assigned, prints, seeds, ride, faults>>

(* assignRequestsToGroup overwrites whatever status the rows have.         *)
Booked(riders, to) == [q \in Requests |-> IF q \in riders THEN to ELSE status[q]]

SeatMembers(g) ==
    /\ assigned' = assigned \cup busy.riders
    /\ pending' = pending \ busy.riders

FinishPlan(g) ==
    /\ busy.key = g /\ Head(topic[g]).type = "CANDIDATES"
    /\ status' = Booked(busy.riders, "GROUPED")
    /\ SeatMembers(g)
    /\ topic' = Handled(g) /\ busy' = Resting
    /\ UNCHANGED <<face, checking, overdue, mail, anchorOf, prints, seeds, seated, ride, faults>>

(* The rows cannot be written: logged, and the memory moves on alone.      *)
FinishPlanUnsaved(g) ==
    /\ busy.key = g /\ Head(topic[g]).type = "CANDIDATES" /\ Fault("storage")
    /\ SeatMembers(g)
    /\ topic' = Handled(g) /\ busy' = Resting
    /\ UNCHANGED <<rows, mail, anchorOf, prints, seeds, seated, ride>>

(* buildGroupRoute leg by leg, GROUP_RIDE_ROUTE_BUILT, then BOOKED.        *)
BuildRoute(g) ==
    /\ At(g, "PLANNED")
    /\ topic' = Published(g, "ROUTE_BUILT", Head(topic[g]).riders)
    /\ busy' = [key |-> g, riders |-> Head(topic[g]).riders]
    /\ UNCHANGED <<rows, mail, anchorOf, pending, assigned, prints, seeds, seated, ride, faults>>

FinishRoute(g) ==
    /\ busy.key = g /\ Head(topic[g]).type = "PLANNED"
    /\ status' = Booked(busy.riders, "BOOKED")
    /\ topic' = Handled(g) /\ busy' = Resting
    /\ UNCHANGED <<face, checking, overdue, mail, anchorOf, pending, assigned, prints, seeds,
                   seated, ride, faults>>

(* The route service refuses: a handler that throws is not tried again,    *)
(* the message goes to the dead-letter topic and the group stays GROUPED.  *)
RouteRefused(g) ==
    /\ At(g, "PLANNED") /\ Fault("storage")
    /\ topic' = Handled(g)
    /\ refused' = refused \cup {g}
    /\ UNCHANGED <<rows, mail, anchorOf, memory, dispatch, remembered, offered, driven, timers,
                   calledOff>>

(* The seats of the dispatch: looked up in the pool, by fewer than two no  *)
(* members are sent at all.                                                *)
Seats(riders) ==
    LET found == riders \cap pending IN IF Cardinality(found) >= 2 THEN found ELSE {}

RequestDispatch(g) ==
    /\ At(g, "ROUTE_BUILT")
    /\ Len(dispatch[g]) < 2
    /\ dispatch' = [dispatch EXCEPT ![g] =
          Append(@, [riders |-> Head(topic[g]).riders, seats |-> Seats(Head(topic[g]).riders)])]
    /\ busy' = [key |-> g, riders |-> Head(topic[g]).riders]
    /\ UNCHANGED <<rows, mail, matching, pending, assigned, prints, seeds, seated,
                   remembered, offered, driven, search, faults>>

FinishDispatch(g) ==
    /\ busy.key = g /\ Head(topic[g]).type = "ROUTE_BUILT"
    /\ topic' = Handled(g) /\ busy' = Resting
    /\ UNCHANGED <<rows, mail, anchorOf, pending, assigned, prints, seeds, seated, ride, faults>>

(* The process dies and comes back: the memory is gone, the ready rows are *)
(* read before the topic is, and the message it was at comes again.        *)
Restart ==
    /\ Fault("planner")
    /\ pending' = {} /\ assigned' = {} /\ prints' = {} /\ busy' = Resting
    /\ seeds' = {q \in Requests : status[q] \in Ready}
    /\ seated' = [q \in Requests |-> {}]
    /\ UNCHANGED <<rows, mail, matching, ride>>

-----------------------------------------------------------------------------
(* ride-service: handleDispatchRequested *)

(* A stop sequence with both ends of two rides at least, from a pickup to  *)
(* a dropoff.                                                              *)
Usable(stops) ==
    Len(stops) >= 4 /\ stops[1][2] = "pickup" /\ stops[Len(stops)][2] = "dropoff"

UsablePlans == {p \in Plannable : Usable(PlanGroupStops(p[1], p[2]))}

Remember(g) == remembered \cup {g}

(* A dispatch seen before, one of a ride with a driver, one without a      *)
(* usable sequence: returned at once.                                      *)
Ignored(g) ==
    \/ g \in remembered \/ anchorOf[g] \in driven
    \/ <<anchorOf[g], Head(dispatch[g]).riders>> \notin UsablePlans

(* matchDriver, the memory of the dispatch, the bid timeout of the ride,   *)
(* then the broadcast to every driver nearby.  It goes out, or there was   *)
(* nobody nearby, or it throws and the message ends on the dead-letter     *)
(* topic: the dispatch is remembered and the timeout runs all the same.    *)
Dispatch(g) ==
    /\ dispatch[g] # <<>>
    /\ dispatch' = [dispatch EXCEPT ![g] = Tail(@)]
    /\ IF Ignored(g)
       THEN UNCHANGED <<remembered, offered, timers>>
       ELSE /\ remembered' = Remember(g)
            /\ timers' = timers \cup {anchorOf[g]}
            /\ \E sent \in {0, 1} : offered' = [offered EXCEPT ![g] = @ + sent]
    /\ UNCHANGED <<rows, mail, matching, memory, driven, calledOff, refused, faults>>

(* The dispatch is delivered once more, in the same life of ride-service.  *)
DispatchRedelivered(g) ==
    /\ Len(dispatch[g]) = 1 /\ Fault("planner")
    /\ dispatch' = [dispatch EXCEPT ![g] = @ \o @]
    /\ UNCHANGED <<rows, mail, matching, memory, remembered, offered, driven, search>>

(* A driver is taken for the trip: RIDE_OFFER_ACCEPTED of the anchor.      *)
DriverTaken(g) ==
    /\ offered[g] > 0 /\ anchorOf[g] \notin driven
    /\ driven' = driven \cup {anchorOf[g]}
    /\ timers' = timers \ {anchorOf[g]}
    /\ UNCHANGED <<rows, mail, matching, memory, dispatch, remembered, offered, calledOff,
                   refused, faults>>

(* BID_TIMEOUT_SECONDS pass: RIDE_BID_TIMEOUT of the ride, for every group *)
(* dispatched under it.  A publish that fails is only logged.              *)
SearchedUnder(q) == {g \in remembered : anchorOf[g] = q}

BidTimeout(q) ==
    /\ q \in timers
    /\ timers' = timers \ {q}
    /\ calledOff' = calledOff \cup SearchedUnder(q)
    /\ UNCHANGED <<rows, mail, matching, memory, dispatch, remembered, offered, driven, refused,
                   faults>>

BidTimeoutRefused(q) ==
    /\ q \in timers /\ Fault("broker")
    /\ timers' = timers \ {q}
    /\ refused' = refused \cup SearchedUnder(q)
    /\ UNCHANGED <<rows, mail, matching, memory, dispatch, remembered, offered, driven, calledOff>>

-----------------------------------------------------------------------------
RiderSteps ==
    \E q \in Requests : \/ Create(q) \/ CreateVerified(q) \/ CreateUploadUrl(q)
                        \/ StartCheck(q) \/ StartSelfie(q) \/ Accept(q) \/ Reject(q)
                        \/ CancelFromApp(q) \/ CancelFromWhatsapp(q)
                        \/ SelfieRefusedForGood(q) \/ TtlPasses(q)

PlannerSteps ==
    \/ \E q \in Requests : \/ Seed(q) \/ HandleReady(q) \/ HandleCancelled(q)
                           \/ FinishMail(q) \/ TripEnds(q)
    \/ \E g \in Groups : \/ DropCandidates(g) \/ PlanGroup(g) \/ FinishPlan(g)
                         \/ FinishPlanUnsaved(g) \/ BuildRoute(g) \/ FinishRoute(g)
                         \/ RouteRefused(g) \/ RequestDispatch(g) \/ FinishDispatch(g)

RideSteps ==
    \/ \E g \in Groups : Dispatch(g) \/ DispatchRedelivered(g) \/ DriverTaken(g)
    \/ \E q \in Requests : BidTimeout(q) \/ BidTimeoutRefused(q)

GroupRidesNext == RiderSteps \/ PlannerSteps \/ Restart \/ RideSteps

(* Consumers poll: a message that waits is handled, and a handler that     *)
(* published goes on to its end unless the process dies.  A timer that is  *)
(* set fires.                                                              *)
Fairness ==
    /\ WF_groupRidesVars(PlannerSteps)
    /\ WF_groupRidesVars(\E g \in Groups : Dispatch(g))
    /\ WF_groupRidesVars(\E q \in Requests : BidTimeout(q))

GroupRidesSpec == GroupRidesInit /\ [][GroupRidesNext]_groupRidesVars /\ Fairness

-----------------------------------------------------------------------------
Planned(g) == UNION {m.riders : m \in {x \in ToSet(topic[g]) : x.type # "CANDIDATES"}}

(* The order a car is sent in serves every rider of the group: the anchor  *)
(* is collected first, nobody is dropped before being collected, nothing   *)
(* is visited twice, and no other such order is shorter                    *)
(* (stop-sequencer.ts:74).                                                 *)
StopsServeTheGroup ==
    \A g \in Groups : Planned(g) # {} => <<anchorOf[g], Planned(g)>> \in RightlyOrdered

(* Between two releases of a rider, one life of the planner puts the rider *)
(* in one group only, however the proposals overlap: a candidate list is   *)
(* checked against who still waits when it is handled, not when it was     *)
(* made (group-ride.planner.ts:68).                                        *)
OneGroupPerRider == \A q \in Requests : Cardinality(seated[q]) <= 1

(* A dispatch that is delivered twice is broadcast to the drivers once     *)
(* (group-ride-dispatch.consumer.ts:27).                                   *)
BroadcastOnce == \A g \in Groups : offered[g] <= 1

(* A group that was planned is offered to drivers or called off by the bid *)
(* timeout, so that it never waits in silence: a crash of the planner      *)
(* loses no group between its steps, and a dispatch with no driver nearby, *)
(* or whose broadcast throws, is still resolved                            *)
(* (group-ride-dispatch.consumer.ts:191).  Excepted: a group whose ride    *)
(* has a driver already, one the route service refused, and one whose      *)
(* RIDE_BID_TIMEOUT could not be published.                                *)
PlannedIsOffered ==
    \A g \in Groups :
        Planned(g) # {} ~>
            \/ offered[g] > 0 \/ g \in calledOff
            \/ anchorOf[g] \in driven \/ g \in refused
=============================================================================

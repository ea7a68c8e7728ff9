--------------------------- MODULE WhatsAppGroups ---------------------------
(***************************************************************************)
(* The group rides of the WhatsApp conversation: a seat is planned in a    *)
(* pending key of its own, quoted, asked for at the suggested or at the    *)
(* rider's own price, and, after a selfie, waits in the pool that          *)
(* GroupRides is about; a rider tired of waiting turns it into a normal    *)
(* ride over the same places.  A location pin counts as a typed place.     *)
(***************************************************************************)
EXTENDS WhatsApp

CONSTANTS MaxRequests, MaxSelfieAttempts

ASSUME WhatsAppGroupsAssumption == MaxRequests \in Nat /\ MaxSelfieAttempts \in Nat \ {0}

VARIABLES
    group,    \* pending_group: the places, the route they make, the price, the request
    asker,    \* group_request_rider: a request, or 0
    choices,  \* geo_choices: the stage that asked "which one did you mean?"
    pool,     \* GroupRideMatchRequest rows
    verified, \* the rider has a stored selfie
    crossed   \* the places changed while another message about them was handled

groupVars == <<group, asker, choices, pool, verified>>
elsewhere == <<location, lastRoute, active, accept, rideKeys, market, listed, prompted, purse,
               booked, agreed, traffic, left>>

Own == -1
Blank == [pickup |-> FALSE, dest |-> FALSE, trip |-> 0, fare |-> 0, request |-> 0, tries |-> 0]

ConversationInit ==
    /\ WhatsAppInit
    /\ group = None /\ asker = 0 /\ choices = None /\ pool = <<>>
    /\ verified \in (IF traffic = "grouping" THEN BOOLEAN ELSE {FALSE})
    /\ crossed = FALSE

In(w, stages) == ~Explains(w) /\ at[w].stage \in stages

-----------------------------------------------------------------------------
(* The places *)

(* startGroupRideFlow, and every place that completes the route: it is     *)
(* planned next.                                                           *)
Place(w, plan) ==
    IF plan.pickup /\ plan.dest
    THEN /\ planned < MaxRoutes /\ planned' = planned + 1
         /\ group' = [plan EXCEPT !.trip = planned + 1]
         /\ Continue(w, "plan seat", [plan EXCEPT !.trip = planned + 1])
         /\ UNCHANGED stage
    ELSE /\ group' = plan /\ Finish(w) /\ UNCHANGED planned
         /\ stage' = CASE plan.pickup -> "group_awaiting_destination"
                       [] at[w].step = "locate" -> "none"
                       [] OTHER -> "group_awaiting_pickup"

(* "group ride", or an intent of the parser with the places it found *)
StartGroup(w) ==
    /\ \/ /\ Reads(w, {"group ride"}) /\ ~Explains(w) /\ at[w].ride = None
          /\ Place(w, Blank)
       \/ /\ Reads(w, {"group trip"}) /\ ReachesParser(w)
          /\ \E pickup, dest \in BOOLEAN :
                Place(w, [Blank EXCEPT !.pickup = pickup, !.dest = dest])
    /\ UNCHANGED <<elsewhere, route, quoted, asker, choices, pool, verified>>

(* "group", said to a quote: its route becomes the seat's. *)
ShareQuote(w) ==
    /\ EditsQuote(w, "group") /\ route' = None
    /\ group' = [Blank EXCEPT !.pickup = TRUE, !.dest = TRUE, !.trip = route.id]
    /\ Continue(w, "plan seat", [Blank EXCEPT !.pickup = TRUE, !.dest = TRUE, !.trip = route.id])
    /\ UNCHANGED <<elsewhere, stage, quoted, planned, asker, choices, pool, verified>>

Asks(s) == IF s = "group_awaiting_pickup" THEN {"pickup"} ELSE {"dest"}

(* A place is geocoded: one hit, several to choose from, or, of a whole    *)
(* route, both places or the pickup alone.                                 *)
NamePlace(w) ==
    /\ at[w].step = "read" /\ In(w, GroupPlaces)
    /\ \/ at[w].text = "place" /\ Continue(w, "locate", Asks(at[w].stage)) /\ UNCHANGED choices
       \/ at[w].text = "place" /\ Finish(w) /\ choices' = at[w].stage
       \/ /\ at[w].text = "choice" /\ choices = at[w].stage
          /\ choices' = None /\ Continue(w, "locate", Asks(at[w].stage))
       \/ /\ at[w].text = "from to" /\ UNCHANGED choices
          /\ \E ends \in {{"pickup"}, {"pickup", "dest"}} : Continue(w, "locate", ends)
    /\ UNCHANGED <<elsewhere, stage, route, quoted, planned, group, asker, pool, verified>>

(* applyGroupLocation: into whatever is pending by now *)
Locate(w) ==
    /\ at[w].step = "locate"
    /\ LET plan == IF group = None THEN Blank ELSE group
       IN Place(w, [plan EXCEPT !.pickup = @ \/ "pickup" \in at[w].item,
                                !.dest = @ \/ "dest" \in at[w].item])
    /\ UNCHANGED <<elsewhere, route, quoted, asker, choices, pool, verified>>

(* A mutant of QuoteSeat: the price is shown and not stored. *)
ShowSeat(w) ==
    /\ at[w].step = "plan seat" /\ Finish(w)
    /\ group' = at[w].item /\ stage' = "group_awaiting_confirm"
    /\ quoted' = quoted \cup {at[w].item.trip}
    /\ UNCHANGED <<elsewhere, route, planned, asker, choices, pool, verified>>

(* presentGroupQuote, when the route is planned: what was read is stored   *)
(* with its price, and shown.                                              *)
QuoteSeat(w) ==
    /\ at[w].step = "plan seat" /\ Finish(w)
    /\ group' = [at[w].item EXCEPT !.fare = at[w].item.trip]
    /\ stage' = "group_awaiting_confirm"
    /\ quoted' = quoted \cup {at[w].item.trip}
    /\ UNCHANGED <<elsewhere, route, planned, asker, choices, pool, verified>>

-----------------------------------------------------------------------------
(* Asking for the seat *)

(* "yes", or the rider's own price *)
ConfirmSeat(w) ==
    /\ In(w, {"group_awaiting_confirm"}) /\ Continue(w, "ask", None)
    /\ \/ Reads(w, {"yes"}) /\ UNCHANGED group
       \/ /\ Reads(w, {"price"})
          /\ group' = IF group = None THEN None ELSE [group EXCEPT !.fare = Own]
    /\ UNCHANGED <<elsewhere, stage, route, quoted, planned, asker, choices, pool, verified>>

Placed(plan) == IF plan = None THEN FALSE ELSE plan.pickup /\ plan.dest

(* createGroupMatchRequest; a session that has expired ends. *)
AskSeat(w) ==
    /\ at[w].step = "ask"
    /\ IF Placed(group)
       THEN /\ Len(pool) < MaxRequests
            /\ pool' = Append(pool, [status |-> "PENDING", trip |-> group.trip, fare |-> group.fare])
            /\ Continue(w, "asked", [group EXCEPT !.request = Len(pool) + 1, !.tries = 0])
            /\ UNCHANGED stage
       ELSE stage' = "none" /\ Finish(w) /\ UNCHANGED pool
    /\ UNCHANGED <<elsewhere, route, quoted, planned, group, asker, choices, verified>>

(* A rider with a stored selfie goes straight into matching. *)
SeatAsked(w) ==
    /\ at[w].step = "asked"
    /\ group' = at[w].item /\ asker' = at[w].item.request
    /\ IF verified
       THEN Continue(w, "store", at[w].item.request) /\ UNCHANGED stage
       ELSE Finish(w) /\ stage' = "group_awaiting_face_photo"
    /\ UNCHANGED <<elsewhere, route, quoted, planned, choices, pool, verified>>

(* The old selfie cannot be copied: a new one is asked for. *)
CopyFails(w) ==
    /\ at[w].step = "store" /\ at[w].text # "photo" /\ Finish(w)
    /\ stage' = "group_awaiting_face_photo"
    /\ UNCHANGED <<elsewhere, route, quoted, planned, groupVars>>

(* handleGroupSelfie, up to the judgement of the photo *)
SendSelfie(w) ==
    /\ Reads(w, {"photo"}) /\ In(w, {"group_awaiting_face_photo"})
    /\ IF (IF group = None THEN TRUE ELSE group.request = 0)
       THEN Finish(w) /\ stage' = "none"
       ELSE Continue(w, "judge", group) /\ UNCHANGED stage
    /\ UNCHANGED <<elsewhere, route, quoted, planned, groupVars>>

(* A photo that is no selfie counts against what was read; the last one    *)
(* ends the group ride.                                                    *)
JudgeSelfie(w) ==
    /\ at[w].step = "judge"
    /\ \/ Continue(w, "store", at[w].item.request) /\ UNCHANGED group
       \/ IF at[w].item.tries + 1 >= MaxSelfieAttempts
          THEN Continue(w, "leave", None) /\ UNCHANGED group
          ELSE Finish(w) /\ group' = [at[w].item EXCEPT !.tries = @ + 1]
    /\ UNCHANGED <<elsewhere, stage, route, quoted, planned, asker, choices, pool, verified>>

(* completeFaceVerificationAndMarkReady writes by id, whatever became of   *)
(* the request.                                                            *)
ReadySeat(w) ==
    /\ at[w].step = "store" /\ Finish(w)
    /\ pool' = [pool EXCEPT ![at[w].item].status = "READY"]
    /\ verified' = TRUE /\ group' = None /\ stage' = "none"
    /\ UNCHANGED <<elsewhere, route, quoted, planned, asker, choices>>

-----------------------------------------------------------------------------
(* Leaving *)

OpenStatus == {"PENDING", "READY"}
Cancelled(q) ==
    IF q = 0 THEN pool
    ELSE [pool EXCEPT ![q].status = IF @ \in OpenStatus THEN "CANCELLED" ELSE @]

(* cancelGroupRide *)
LeaveGroup(w) ==
    /\ \/ Reads(w, {"cancel group"}) /\ ~Explains(w)
       \/ Reads(w, {"cancel"}) /\ In(w, GroupStages)
       \/ at[w].step = "leave"
    /\ LET request == IF group = None THEN 0 ELSE group.request
       IN pool' = Cancelled(IF request # 0 THEN request ELSE asker)
    /\ Continue(w, "left", None)
    /\ UNCHANGED <<elsewhere, stage, route, quoted, planned, group, asker, choices, verified>>

LeftGroup(w) ==
    /\ at[w].step = "left" /\ Finish(w)
    /\ group' = None /\ asker' = 0 /\ stage' = "none"
    /\ UNCHANGED <<elsewhere, route, quoted, planned, choices, pool, verified>>

(* convertGroupToNormalRide *)
GoNormal(w) ==
    /\ Reads(w, {"normal"}) /\ ~Explains(w) /\ asker # 0
    /\ IF pool[asker].status \in OpenStatus
       THEN /\ pool' = Cancelled(asker) /\ asker' = 0 /\ group' = None
            /\ Continue(w, "convert", pool[asker].trip)
       ELSE Finish(w) /\ UNCHANGED <<pool, asker, group>>
    /\ UNCHANGED <<elsewhere, stage, route, quoted, planned, choices, verified>>

(* The same places, as a normal quote *)
Converted(w) ==
    /\ at[w].step = "convert" /\ Finish(w)
    /\ route' = [id |-> at[w].item, offer |-> FALSE]
    /\ stage' = "awaiting_price"
    /\ quoted' = quoted \cup {at[w].item}
    /\ UNCHANGED <<elsewhere, planned, groupVars>>

(* The planner groups a waiting request (GroupRides). *)
Grouped ==
    /\ \E q \in DOMAIN pool : pool[q].status = "READY"
                              /\ pool' = [pool EXCEPT ![q].status = "GROUPED"]
    /\ UNCHANGED <<whatsappVars, group, asker, choices, verified>>

-----------------------------------------------------------------------------
GroupWebhook(w) ==
    \/ StartGroup(w) \/ ShareQuote(w) \/ NamePlace(w) \/ Locate(w) \/ QuoteSeat(w)
    \/ ConfirmSeat(w) \/ AskSeat(w) \/ SeatAsked(w) \/ CopyFails(w)
    \/ SendSelfie(w) \/ JudgeSelfie(w) \/ ReadySeat(w)
    \/ LeaveGroup(w) \/ LeftGroup(w) \/ GoNormal(w) \/ Converted(w)

(* In a group stage, what is written belongs to the group ride. *)
Others ==
    \/ \E w \in Webhooks : at[w].stage \notin GroupStages /\ Webhook(w)
    \/ \E w \in Webhooks : at[w].stage \in GroupStages /\ Fails(w)
    \/ \E r \in Rides : Consumer(r) \/ DriverBids(r) \/ RideService(r)
    \/ Lapse

Placing(handler) ==
    \/ handler.text \in {"group ride", "group trip", "group"}
    \/ handler.text \in {"place", "choice", "from to"} /\ handler.stage \in GroupPlaces
Answering(handler) ==
    \/ handler.text \in {"yes", "price"} /\ handler.stage = "group_awaiting_confirm"
    \/ handler.text = "photo" /\ handler.stage = "group_awaiting_face_photo"

ConversationNext ==
    /\ \/ Others /\ UNCHANGED groupVars
       \/ \E w \in Webhooks : GroupWebhook(w)
       \/ Grouped
    /\ crossed' = (crossed \/ \E v, w \in Webhooks :
                      v # w /\ Placing(at'[v]) /\ (Placing(at'[w]) \/ Answering(at'[w])))

ConversationSpec == ConversationInit /\ [][ConversationNext]_<<whatsappVars, groupVars, crossed>>

-----------------------------------------------------------------------------
(* Every ride that is requested goes over a route the rider has been shown,*)
(* and so does every seat that is asked for, at the price quoted for that  *)
(* route or at the rider's own, although a seat may become a ride and a    *)
(* quote a seat, and selfies, cancellations and prices are handled at once;*)
(* of the seats, those are left out whose places changed while another     *)
(* message about them was handled: applyGroupLocation stores a place before*)
(* presentGroupQuote has priced it.                                        *)
AskedAsShown ==
    /\ BookedRouteWasShown
    /\ \A q \in DOMAIN pool :
          ~crossed => pool[q].trip \in quoted /\ pool[q].fare \in {pool[q].trip, Own}
=============================================================================

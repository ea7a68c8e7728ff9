------------------------- MODULE RideMatching_proofs -------------------------
(***************************************************************************)
(* Matching: for every set of rides and drivers, any bound on messages,    *)
(* queues and crashes, and whichever services may die, the types of the    *)
(* rows, and the fare held behind every ride under way.  Then the accounts *)
(* of those who ride and drive: for any number of accounts, numbers,       *)
(* requests and codes, a number proved was proved by a code that reached   *)
(* it, and a writer is one account.                                        *)
(***************************************************************************)
EXTENDS RideMatching, Accounts, TallyTheorems, TLAPS

(* The events about a driver name one. *)
AboutDriver == EventTypes \ {"REQUESTED", "RIDER_COUNTER", "CANCELLED_BY_RIDER", "BID_TIMEOUT"}
Named == {e \in Events : e.type \in AboutDriver => e.driver \in Drivers}
Queues == [Groups -> [Rides -> Seq(Named)]]
Timers == {"off", "first", "again", "fired"}
Cards == {"none", "offer", "trip"}

(* An event of type t waits for some group. *)
Queued(r, t) ==
    \E g \in Groups : \E i \in 1..Len(queue[g][r]) : queue[g][r][i].type = t

(* The events that lead to a driver on the way, and to the end of a trip. *)
Commits == {"OFFER_ACCEPTED", "ASSIGNED", "ARRIVED", "STARTED", "COMPLETION_REQUESTED",
            "COMPLETED"}

Driven == Live \cup {"COMPLETED"}

Committed(r) ==
    \/ status[r] \in Driven
    \/ \E t \in Commits : Queued(r, t)
    \/ \E a \in accepts : a.ride = r /\ a.held
    \/ \E d \in Drivers : card[r][d] = "trip"

Lapse == GivesUp \cup {"UNPAID", "UNSENT"}
GivenUp(r) == \E why \in GivesUp \cup {"UNPAID"} : <<r, why>> \in lapsed

Paid(r) == hold[r] \in {"ACTIVE", "CHARGED"}

(***************************************************************************)
(* A hold is let go by the events that give a ride up, and those events    *)
(* are published on record; everything on the way to a driver, in a queue, *)
(* in the gateway or on a driver's screen, has the fare behind it.         *)
(***************************************************************************)
Secured(r) ==
    /\ (\E t \in GivesUp : Queued(r, t)) => GivenUp(r)
    /\ hold[r] = "RELEASED" => GivenUp(r)
    /\ Committed(r) => Paid(r) \/ GivenUp(r)

SecuredInv == \A r \in Rides : Secured(r)

TypeInv == TypeOK /\ queue \in Queues

IInv == TypeInv /\ SecuredInv
-----------------------------------------------------------------------------
(***************************************************************************)
(* Queues                                                                  *)
(***************************************************************************)
LEMMA EventTyped ==
    ASSUME NEW t \in EventTypes, NEW d \in Drivers \cup {NoDriver},
           t \in AboutDriver => d \in Drivers
    PROVE  Event(t, d) \in Named /\ Event(t, d).type = t
BY DEF Event, Events, Named

(* The queues of named events are the queues of the type invariant. *)
LEMMA QueuesTyped == Queues \subseteq [Groups -> [Rides -> Seq(Events)]]
<1> SUFFICES ASSUME NEW q \in Queues, NEW g \in Groups, NEW r \in Rides
             PROVE  q \in [Groups -> [Rides -> Seq(Named)]] /\ q[g][r] \in Seq(Events)
    BY DEF Queues
<1>1. q[g][r] \in Seq(Named) /\ q \in [Groups -> [Rides -> Seq(Named)]]
    BY DEF Queues
<1>2. Named \subseteq Events
    BY DEF Named
<1>3. QED
    BY <1>1, <1>2

(* Publishing puts e behind the events of its ride, and nothing else. *)
LEMMA PublishedTyped ==
    ASSUME NEW q \in Queues, NEW r \in Rides, NEW e \in Named
    PROVE  /\ Published(q, r, e) \in Queues
           /\ \A g \in Groups, s \in Rides : \A i \in 1..Len(Published(q, r, e)[g][s]) :
                  \/ i \in 1..Len(q[g][s]) /\ Published(q, r, e)[g][s][i] = q[g][s][i]
                  \/ s = r /\ Published(q, r, e)[g][s][i] = e
<1> DEFINE p == Published(q, r, e)
<1>1. \A g \in Groups : p[g] = q[g] \/ p[g] = [q[g] EXCEPT ![r] = Append(q[g][r], e)]
    BY DEF Published
<1>2. \A g \in Groups : q[g] \in [Rides -> Seq(Named)]
    BY DEF Queues
<1>3. \A g \in Groups, s \in Rides : q[g][s] \in Seq(Named)
    BY <1>2
<1>4. \A g \in Groups : p[g] \in [Rides -> Seq(Named)]
    <2> SUFFICES ASSUME NEW g \in Groups
                 PROVE  p[g] \in [Rides -> Seq(Named)]
        OBVIOUS
    <2>1. Append(q[g][r], e) \in Seq(Named)
        BY <1>3
    <2>2. q[g] \in [Rides -> Seq(Named)]
        BY <1>2
    <2> HIDE DEF p
    <2>3. CASE p[g] = [q[g] EXCEPT ![r] = Append(q[g][r], e)]
        <3> DEFINE more == Append(q[g][r], e)
                   old == q[g]
        <3>1. more \in Seq(Named) /\ old \in [Rides -> Seq(Named)]
            BY <2>1, <2>2
        <3>2. p[g] = [old EXCEPT ![r] = more]
            BY <2>3
        <3> HIDE DEF more, old
        <3>3. QED
            BY <3>1, <3>2
    <2>4. QED
        BY <1>1, <2>2, <2>3
<1>5. p \in Queues
    BY <1>4 DEF Published, Queues
<1>6. ASSUME NEW g \in Groups, NEW s \in Rides, NEW i \in 1..Len(p[g][s])
      PROVE  \/ i \in 1..Len(q[g][s]) /\ p[g][s][i] = q[g][s][i]
             \/ s = r /\ p[g][s][i] = e
    <2>1. p[g][s] = q[g][s] \/ (s = r /\ p[g][s] = Append(q[g][s], e))
        <3> HIDE DEF p
        <3>1. q[g] \in [Rides -> Seq(Named)] /\ q[g][s] \in Seq(Named)
            BY <1>2, <1>3
        <3>2. QED
            BY <1>1, <3>1
    <2> DEFINE new == p[g][s]
               old == q[g][s]
    <2>2. i \in 1..Len(new) /\ (new = old \/ (s = r /\ new = Append(old, e)))
        BY <1>6, <2>1
    <2>3. old \in Seq(Named)
        BY <1>3
    <2> HIDE DEF p, new, old
    <2>4. CASE new = old
        BY <2>2, <2>4 DEF new, old
    <2>5. CASE s = r /\ new = Append(old, e)
        <3>1. CASE i = Len(old) + 1
            <4>1. new[i] = e
                BY <2>3, <2>5, <3>1
            <4>2. QED
                BY <2>5, <4>1 DEF new
        <3>2. CASE i # Len(old) + 1
            <4>1. i \in 1..Len(old) /\ new[i] = old[i]
                BY <2>2, <2>3, <2>5, <3>2
            <4>2. QED
                BY <4>1 DEF new, old
        <3>3. QED
            BY <3>1, <3>2
    <2>6. QED
        BY <2>2, <2>4, <2>5
<1>7. QED
    BY <1>5, <1>6

LEMMA PublishTyped ==
    ASSUME TypeInv, NEW r \in Rides, NEW t \in EventTypes, NEW d \in Drivers \cup {NoDriver},
           t \in AboutDriver => d \in Drivers,
           Publish(r, Event(t, d))
    PROVE  /\ queue' \in Queues
           /\ \A s \in Rides, u \in EventTypes :
                  Queued(s, u)' => Queued(s, u) \/ (s = r /\ u = t)
<1> DEFINE e == Event(t, d)
<1>1. queue \in Queues /\ e \in Named /\ e.type = t /\ queue' = Published(queue, r, e)
    BY EventTyped DEF Publish, TypeInv
<1> HIDE DEF e
<1>2. queue' \in Queues
    BY <1>1, PublishedTyped
<1>3. ASSUME NEW s \in Rides, NEW u \in EventTypes, Queued(s, u)'
      PROVE  Queued(s, u) \/ (s = r /\ u = t)
    <2>1. PICK g \in Groups : \E i \in 1..Len(queue'[g][s]) : queue'[g][s][i].type = u
        BY <1>3 DEF Queued
    <2>2. PICK i \in 1..Len(queue'[g][s]) : queue'[g][s][i].type = u
        BY <2>1
    <2>3. \/ i \in 1..Len(queue[g][s]) /\ queue'[g][s][i] = queue[g][s][i]
          \/ s = r /\ queue'[g][s][i] = e
        BY <1>1, <2>2, PublishedTyped
    <2>4. QED
        BY <1>1, <2>2, <2>3 DEF Queued
<1>4. QED
    BY <1>2, <1>3

(* A group takes an event of type t: what it hands on is new in the        *)
(* queues of the ride, nothing else is.                                    *)
LEMMA TakesTyped ==
    ASSUME TypeInv, NEW g \in Groups, NEW r \in Rides, NEW t \in EventTypes,
           NEW crash \in BOOLEAN, NEW out, out = <<>> \/ \E e \in Named : out = <<e>>,
           Takes(g, r, t, out, crash)
    PROVE  /\ queue' \in Queues /\ crashes' \in 0..MaxCrashes
           /\ Queued(r, t) /\ TakenBy(g, r) \in Drivers \cup {NoDriver}
           /\ t \in AboutDriver => TakenBy(g, r) \in Drivers
           /\ \A s \in Rides, u \in EventTypes :
                  Queued(s, u)' =>
                      Queued(s, u) \/ (s = r /\ out # <<>> /\ u = Head(out).type)
<1> DEFINE kept == IF crash THEN queue ELSE [queue EXCEPT ![g][r] = Tail(@)]
<1>1. queue \in Queues
    BY DEF TypeInv
<1>2. queue[g][r] \in Seq(Named) /\ queue[g][r] # <<>>
    BY <1>1 DEF Queues, Takes
<1>3. /\ Head(queue[g][r]) \in Named /\ Tail(queue[g][r]) \in Seq(Named)
      /\ 1 \in 1..Len(queue[g][r]) /\ queue[g][r][1] = Head(queue[g][r])
      /\ \A i \in 1..Len(Tail(queue[g][r])) :
             i + 1 \in 1..Len(queue[g][r]) /\ Tail(queue[g][r])[i] = queue[g][r][i + 1]
    BY <1>2
<1>4. /\ Queued(r, t) /\ TakenBy(g, r) \in Drivers \cup {NoDriver}
      /\ t \in AboutDriver => TakenBy(g, r) \in Drivers
    BY <1>3 DEF Takes, Queued, TakenBy, Events, Named
<1>5. crashes' \in 0..MaxCrashes
    BY RideMatchingAssumption DEF Takes, TypeInv, TypeOK
<1>6. kept \in Queues
    BY <1>1, <1>3 DEF Queues
<1>7. ASSUME NEW h \in Groups, NEW s \in Rides, NEW i \in 1..Len(kept[h][s])
      PROVE  \E j \in 1..Len(queue[h][s]) : kept[h][s][i] = queue[h][s][j]
    <2>1. CASE kept[h][s] = queue[h][s]
        BY <1>7, <2>1
    <2>2. CASE h = g /\ s = r /\ kept[h][s] = Tail(queue[g][r])
        BY <1>3, <1>7, <2>2
    <2>3. QED
        BY <1>1, <2>1, <2>2 DEF Queues
<1>8. queue' = kept \/ \E e \in Named : out = <<e>> /\ queue' = Published(kept, r, e)
    BY DEF Takes
<1> HIDE DEF kept
<1>9. ASSUME NEW s \in Rides, NEW u \in EventTypes, Queued(s, u)'
      PROVE  Queued(s, u) \/ (s = r /\ out # <<>> /\ u = Head(out).type)
    <2>1. PICK h \in Groups : \E i \in 1..Len(queue'[h][s]) : queue'[h][s][i].type = u
        BY <1>9 DEF Queued
    <2>2. CASE queue' = kept
        BY <1>7, <2>1, <2>2 DEF Queued
    <2>3. CASE queue' # kept
        <3>1. PICK e \in Named : out = <<e>> /\ queue' = Published(kept, r, e)
            BY <1>8, <2>3
        <3>2. out # <<>> /\ Head(out) = e
            BY <3>1
        <3>3. PICK i \in 1..Len(queue'[h][s]) : queue'[h][s][i].type = u
            BY <2>1
        <3>4. \/ i \in 1..Len(kept[h][s]) /\ queue'[h][s][i] = kept[h][s][i]
              \/ s = r /\ queue'[h][s][i] = e
            BY <1>6, <3>1, <3>3, PublishedTyped
        <3>5. CASE s = r /\ queue'[h][s][i] = e
            BY <3>2, <3>3, <3>5
        <3>6. CASE i \in 1..Len(kept[h][s]) /\ queue'[h][s][i] = kept[h][s][i]
            <4>1. PICK j \in 1..Len(queue[h][s]) : kept[h][s][i] = queue[h][s][j]
                BY <1>7, <3>6
            <4>2. QED
                BY <3>3, <3>6, <4>1 DEF Queued
        <3>7. QED
            BY <3>4, <3>5, <3>6
    <2>4. QED
        BY <2>2, <2>3
<1>10. queue' \in Queues
    BY <1>6, <1>8, PublishedTyped
<1>11. QED
    BY <1>4, <1>5, <1>9, <1>10

(* The same of a group that hands nothing on. *)
LEMMA TakesOnly ==
    ASSUME TypeInv, NEW g \in Groups, NEW r \in Rides, NEW t \in EventTypes,
           NEW crash \in BOOLEAN, Takes(g, r, t, <<>>, crash)
    PROVE  /\ queue' \in Queues /\ crashes' \in 0..MaxCrashes
           /\ Queued(r, t) /\ TakenBy(g, r) \in Drivers \cup {NoDriver}
           /\ t \in AboutDriver => TakenBy(g, r) \in Drivers
           /\ \A s \in Rides, u \in EventTypes : Queued(s, u)' => Queued(s, u)
BY TakesTyped
-----------------------------------------------------------------------------
(***************************************************************************)
(* ride-service: it neither holds nor releases a fare, and a ride it       *)
(* brings under way was on its way there.                                  *)
(***************************************************************************)
RideServiceKeeps ==
    /\ UNCHANGED <<hold, accepts, lapsed>>
    /\ \A s \in Rides, d \in Drivers : card'[s][d] = "trip" => card[s][d] = "trip"
    /\ \A s \in Rides : status'[s] \in Driven =>
           status[s] \in Driven \/ \E t \in Commits : Queued(s, t)
    /\ \A s \in Rides, u \in EventTypes : Queued(s, u)' =>
           \/ Queued(s, u)
           \/ u = "ASSIGNED" /\ Queued(s, "OFFER_ACCEPTED")
           \/ u = "COMPLETED" /\ Queued(s, "COMPLETION_REQUESTED")

LEMMA RememberTyped ==
    ASSUME TypeOK, NEW r \in Rides, NEW match \in Matches, NEW armed \in Timers,
           NEW crash \in BOOLEAN, Remember(r, match, armed, crash)
    PROVE  pending' \in [Rides -> Matches] /\ timer' \in [Rides -> Timers]
<1>1. NoMatch \in Matches /\ "off" \in Timers
    BY DEF NoMatch, Matches, Timers
<1>2. pending \in [Rides -> Matches] /\ timer \in [Rides -> Timers]
    BY DEF TypeOK, Timers
<1>3. QED
    BY <1>1, <1>2 DEF Remember

LEMMA ForgetTyped ==
    ASSUME TypeOK, NEW r \in Rides, NEW crash \in BOOLEAN, Forget(r, crash) \/ Keep(r, crash)
    PROVE  pending' \in [Rides -> Matches] /\ timer' \in [Rides -> Timers]
<1>1. /\ NoMatch \in Matches /\ "off" \in Timers
      /\ pending[r] \in Matches /\ timer[r] \in Timers
    BY DEF NoMatch, Matches, Timers, TypeOK
<1>2. QED
    BY <1>1, RememberTyped DEF Forget, Keep

LEMMA OfferTyped ==
    ASSUME TypeOK, NEW r \in Rides, NEW shownTo, Offer(r, shownTo)
    PROVE  /\ card' \in [Rides -> [Drivers -> Cards]]
           /\ \A s \in Rides, d \in Drivers : card'[s][d] = "trip" => card[s][d] = "trip"
<1> DEFINE Shows(d) == IF d \in shownTo /\ card[r][d] = "none" THEN "offer" ELSE card[r][d]
           shown == [d \in Drivers |-> Shows(d)]
<1>1. card \in [Rides -> [Drivers -> Cards]] /\ card[r] \in [Drivers -> Cards]
    BY DEF TypeOK, Cards
<1>2. card' = [card EXCEPT ![r] = shown]
    BY DEF Offer
<1>3. \A d \in Drivers : Shows(d) \in Cards /\ (Shows(d) = "trip" => card[r][d] = "trip")
    BY <1>1 DEF Cards
<1> HIDE DEF Shows
<1>4. shown \in [Drivers -> Cards]
    BY <1>3
<1>5. \A d \in Drivers : shown[d] = Shows(d)
    OBVIOUS
<1> HIDE DEF shown
<1>6. card' \in [Rides -> [Drivers -> Cards]]
    BY <1>1, <1>2, <1>4
<1>7. ASSUME NEW s \in Rides, NEW d \in Drivers, card'[s][d] = "trip"
      PROVE  card[s][d] = "trip"
    <2>1. CASE s = r
        BY <1>1, <1>2, <1>3, <1>5, <1>7, <2>1
    <2>2. CASE s # r
        BY <1>1, <1>2, <1>7, <2>2
    <2>3. QED
        BY <2>1, <2>2
<1>8. QED
    BY <1>6, <1>7

LEMMA RideServiceStep ==
    ASSUME TypeInv, NEW r \in Rides, NEW crash \in BOOLEAN, RideService(r, crash)
    PROVE  TypeInv' /\ RideServiceKeeps
<1>0. /\ status \in [Rides -> Statuses] /\ driver \in [Rides -> Drivers \cup {NoDriver}]
      /\ market \in [Drivers -> {"ONLINE", "OFFLINE", "ON_RIDE"}]
      /\ pending \in [Rides -> Matches] /\ timer \in [Rides -> Timers]
      /\ card \in [Rides -> [Drivers -> Cards]]
    BY DEF TypeInv, TypeOK, Timers, Cards
<1> DEFINE Typed ==
        /\ status' \in [Rides -> Statuses] /\ driver' \in [Rides -> Drivers \cup {NoDriver}]
        /\ market' \in [Drivers -> {"ONLINE", "OFFLINE", "ON_RIDE"}]
        /\ pending' \in [Rides -> Matches] /\ timer' \in [Rides -> Timers]
        /\ card' \in [Rides -> [Drivers -> Cards]]
    CardsKept ==
        \A s \in Rides, d \in Drivers : card'[s][d] = "trip" => card[s][d] = "trip"
    LiveWas == \A s \in Rides : status'[s] \in Driven =>
           status[s] \in Driven \/ \E t \in Commits : Queued(s, t)
<1>1. ASSUME NEW t \in EventTypes, Takes("ride", r, t, <<>>, crash), Typed, CardsKept, LiveWas,
             UNCHANGED RideLeaves, UNCHANGED lapsed
      PROVE  TypeInv' /\ RideServiceKeeps
    <2>1. /\ queue' \in Queues /\ crashes' \in 0..MaxCrashes
          /\ \A s \in Rides, u \in EventTypes : Queued(s, u)' => Queued(s, u)
        BY <1>1, TakesOnly DEF Groups
    <2>2. TypeInv'
        BY <1>1, <2>1, QueuesTyped DEF TypeInv, TypeOK, RideLeaves, Timers, Cards
    <2>3. RideServiceKeeps
        BY <1>1, <2>1 DEF RideServiceKeeps, RideLeaves
    <2>4. QED
        BY <2>2, <2>3
<1>2. ASSUME UNCHANGED rows
      PROVE  /\ LiveWas /\ status' \in [Rides -> Statuses]
             /\ driver' \in [Rides -> Drivers \cup {NoDriver}]
             /\ market' \in [Drivers -> {"ONLINE", "OFFLINE", "ON_RIDE"}]
    BY <1>0, <1>2 DEF rows
<1>3. ASSUME UNCHANGED card
      PROVE  CardsKept /\ card' \in [Rides -> [Drivers -> Cards]]
    BY <1>0, <1>3
<1>4. CASE RideRequested(r, crash)
    <2>1. /\ Takes("ride", r, "REQUESTED", <<>>, crash)
          /\ status' = [status EXCEPT ![r] = "MATCHING"]
          /\ UNCHANGED <<driver, market>> /\ UNCHANGED RideLeaves /\ UNCHANGED lapsed
        BY <1>4 DEF RideRequested
    <2>2. PICK found \in SUBSET Drivers :
              /\ Remember(r, IF found = {} /\ pending[r].on THEN pending[r]
                             ELSE [on |-> TRUE, candidates |-> found, attempted |-> {}],
                          "first", crash)
              /\ Offer(r, found)
        <3>1. Nearby(r, NoDriver) \in SUBSET Drivers
            BY DEF Nearby
        <3>2. QED
            BY <1>4, <3>1 DEF RideRequested
    <2>3. /\ [on |-> TRUE, candidates |-> found, attempted |-> {}] \in Matches
          /\ pending[r] \in Matches /\ "first" \in Timers
        BY <1>0 DEF Matches, Timers
    <2>4. pending' \in [Rides -> Matches] /\ timer' \in [Rides -> Timers]
        BY <2>2, <2>3, RememberTyped DEF TypeInv
    <2>5. CardsKept /\ card' \in [Rides -> [Drivers -> Cards]]
        BY <2>2, OfferTyped DEF TypeInv
    <2>6. LiveWas /\ status' \in [Rides -> Statuses]
        BY <1>0, <2>1 DEF Statuses, Live, Driven
    <2>7. "REQUESTED" \in EventTypes
        BY DEF EventTypes
    <2>8. QED
        BY <1>0, <1>1, <2>1, <2>4, <2>5, <2>6, <2>7
<1>5. CASE CounterOffer(r, crash)
    <2>1. /\ Takes("ride", r, "COUNTER_OFFER", <<>>, crash)
          /\ UNCHANGED rows /\ UNCHANGED card /\ UNCHANGED RideLeaves /\ UNCHANGED lapsed
          /\ Remember(r, pending[r], IF pending[r].on THEN "off" ELSE timer[r], crash)
        BY <1>5 DEF CounterOffer
    <2>2. pending[r] \in Matches /\ "off" \in Timers /\ timer[r] \in Timers
        BY <1>0 DEF Timers
    <2>3. pending' \in [Rides -> Matches] /\ timer' \in [Rides -> Timers]
        BY <2>1, <2>2, RememberTyped DEF TypeInv
    <2>4. "COUNTER_OFFER" \in EventTypes
        BY DEF EventTypes
    <2>5. QED
        BY <1>1, <1>2, <1>3, <2>1, <2>3, <2>4
<1>6. CASE RiderCounter(r, crash)
    <2>1. /\ Takes("ride", r, "RIDER_COUNTER", <<>>, crash)
          /\ UNCHANGED rows /\ UNCHANGED RideLeaves /\ UNCHANGED lapsed
          /\ Remember(r, pending[r], IF pending[r].on THEN "again" ELSE timer[r], crash)
          /\ Offer(r, pending[r].candidates)
        BY <1>6 DEF RiderCounter
    <2>2. pending[r] \in Matches /\ "again" \in Timers /\ timer[r] \in Timers
        BY <1>0 DEF Timers
    <2>3. pending' \in [Rides -> Matches] /\ timer' \in [Rides -> Timers]
        BY <2>1, <2>2, RememberTyped DEF TypeInv
    <2>4. CardsKept /\ card' \in [Rides -> [Drivers -> Cards]]
        BY <2>1, OfferTyped DEF TypeInv
    <2>5. "RIDER_COUNTER" \in EventTypes
        BY DEF EventTypes
    <2>6. QED
        BY <1>1, <1>2, <2>1, <2>3, <2>4, <2>5
<1>7. CASE OfferAccepted(r, crash)
    <2>1. PICK d \in Drivers :
              Takes("ride", r, "OFFER_ACCEPTED", <<Event("ASSIGNED", d)>>, crash)
        BY <1>7 DEF OfferAccepted
    <2> DEFINE e == Event("ASSIGNED", d)
    <2>2. e \in Named /\ e.type = "ASSIGNED" /\ "OFFER_ACCEPTED" \in EventTypes
        BY DEF Event, Events, EventTypes, Named
    <2>3. Takes("ride", r, "OFFER_ACCEPTED", <<e>>, crash)
        BY <2>1
    <2> HIDE DEF e
    <2>4. Head(<<e>>) = e /\ "ride" \in Groups
        BY DEF Groups
    <2>5. /\ queue' \in Queues /\ crashes' \in 0..MaxCrashes
          /\ Queued(r, "OFFER_ACCEPTED")
          /\ \A s \in Rides, u \in EventTypes :
                 Queued(s, u)' => Queued(s, u) \/ (s = r /\ u = "ASSIGNED")
        BY <2>2, <2>3, <2>4, TakesTyped
    <2>6. UNCHANGED rows /\ UNCHANGED card /\ UNCHANGED RideLeaves /\ UNCHANGED lapsed
        BY <1>7 DEF OfferAccepted
    <2>7. pending' \in [Rides -> Matches] /\ timer' \in [Rides -> Timers]
        BY <1>7, ForgetTyped DEF TypeInv, OfferAccepted
    <2>8. TypeInv'
        BY <2>5, <2>6, <2>7, QueuesTyped DEF TypeInv, TypeOK, RideLeaves, rows, Timers
    <2>9. RideServiceKeeps
        BY <2>5, <2>6 DEF RideServiceKeeps, RideLeaves, rows
    <2>10. QED
        BY <2>8, <2>9
<1>8. CASE DriverRejected(r, crash)
    <2>1. /\ Takes("ride", r, "REJECTED", <<>>, crash)
          /\ UNCHANGED rows /\ UNCHANGED card /\ UNCHANGED RideLeaves /\ UNCHANGED lapsed
        BY <1>8 DEF DriverRejected
    <2>2. "REJECTED" \in EventTypes /\ "REJECTED" \in AboutDriver /\ "ride" \in Groups
        BY DEF EventTypes, AboutDriver, Groups
    <2>3. PICK d \in Drivers : d = TakenBy("ride", r)
        BY <2>1, <2>2, TakesOnly
    <2>5. pending' \in [Rides -> Matches] /\ timer' \in [Rides -> Timers]
        <3> DEFINE match == IF pending[r].on
                    THEN [pending[r] EXCEPT !.candidates = @ \ {d},
                                            !.attempted = @ \cup {d}]
                    ELSE NoMatch
        <3>1. Remember(r, match, timer[r], crash) /\ timer[r] \in Timers
            BY <1>0, <1>8, <2>3 DEF DriverRejected
        <3>2. match \in Matches
            <4>1. pending[r] \in Matches /\ pending[r].candidates \ {d} \in SUBSET Drivers
                  /\ pending[r].attempted \cup {d} \in SUBSET Drivers
                BY <1>0 DEF Matches
            <4>2. QED
                BY <4>1 DEF Matches, NoMatch
        <3>3. QED
            BY <3>1, <3>2, RememberTyped DEF TypeInv
    <2>6. QED
        BY <1>1, <1>2, <1>3, <2>1, <2>2, <2>5
<1>9. CASE DriverAssigned(r, crash)
    <2>1. "ASSIGNED" \in EventTypes /\ "ASSIGNED" \in Commits /\ "ride" \in Groups
        BY DEF EventTypes, Commits, Groups
    <2>2. PICK d \in Drivers \cup {NoDriver} : d = TakenBy("ride", r)
        BY <1>9, <2>1, TakesOnly DEF DriverAssigned
    <2>3. /\ Takes("ride", r, "ASSIGNED", <<>>, crash) /\ Queued(r, "ASSIGNED")
          /\ status' = [status EXCEPT ![r] = "DRIVER_ASSIGNED"]
          /\ driver' = [driver EXCEPT ![r] = d]
          /\ market' = [market EXCEPT ![d] = "ON_RIDE"]
          /\ Forget(r, crash)
          /\ UNCHANGED card /\ UNCHANGED RideLeaves /\ UNCHANGED lapsed
        BY <1>9, <2>1, <2>2, TakesOnly DEF DriverAssigned
    <2>4. /\ status' \in [Rides -> Statuses] /\ driver' \in [Rides -> Drivers \cup {NoDriver}]
          /\ market' \in [Drivers -> {"ONLINE", "OFFLINE", "ON_RIDE"}]
        BY <1>0, <2>3 DEF Statuses, Live
    <2>5. LiveWas
        BY <1>0, <2>1, <2>3
    <2>6. QED
        BY <1>1, <1>3, <2>1, <2>3, <2>4, <2>5, ForgetTyped DEF TypeInv
<1>10. CASE Progress(r, crash)
    <2>1. PICK t \in {"ARRIVED", "STARTED"} :
              /\ Takes("ride", r, t, <<>>, crash)
              /\ status' \in {[status EXCEPT ![r] = "ARRIVED"],
                              [status EXCEPT ![r] = "IN_PROGRESS"]}
        BY <1>10 DEF Progress
    <2>2. t \in EventTypes /\ t \in Commits /\ "ride" \in Groups
        BY DEF EventTypes, Commits, Groups
    <2>3. UNCHANGED <<driver, market, card, lapsed>> /\ UNCHANGED RideLeaves /\ Keep(r, crash)
        BY <1>10 DEF Progress
    <2>4. Queued(r, t)
        BY <2>1, <2>2, TakesOnly
    <2>5. LiveWas /\ status' \in [Rides -> Statuses]
        BY <1>0, <2>1, <2>2, <2>4 DEF Statuses, Live, Driven
    <2>6. QED
        BY <1>0, <1>1, <1>3, <2>1, <2>2, <2>3, <2>5, ForgetTyped DEF TypeInv
<1>11. CASE CompletionRequested(r, crash)
    <2>1. /\ Keep(r, crash) /\ UNCHANGED rows /\ UNCHANGED card /\ UNCHANGED RideLeaves
          /\ UNCHANGED lapsed
        BY <1>11 DEF CompletionRequested
    <2>2. "ride" \in Groups /\ "COMPLETION_REQUESTED" \in EventTypes /\ "COMPLETED" \in EventTypes
        BY DEF Groups, EventTypes
    <2>3. TakenBy("ride", r) \in Drivers
        <3>1. /\ queue["ride"][r] \in Seq(Named) /\ queue["ride"][r] # <<>>
              /\ Head(queue["ride"][r]).type = "COMPLETION_REQUESTED"
            BY <1>11, <2>2 DEF CompletionRequested, Takes, TypeInv, Queues
        <3>2. QED
            BY <2>2, <3>1 DEF TakenBy, Events, Named, AboutDriver
    <2> DEFINE e == Event("COMPLETED", TakenBy("ride", r))
    <2>4. e \in Named /\ e.type = "COMPLETED"
        BY <2>2, <2>3, EventTyped
    <2>5. PICK out : /\ out = <<>> \/ out = <<e>>
                     /\ Takes("ride", r, "COMPLETION_REQUESTED", out, crash)
        BY <1>11 DEF CompletionRequested
    <2> HIDE DEF e
    <2>6. out # <<>> => Head(out).type = "COMPLETED"
        BY <2>4, <2>5
    <2>7. /\ queue' \in Queues /\ crashes' \in 0..MaxCrashes
          /\ Queued(r, "COMPLETION_REQUESTED")
          /\ \A s \in Rides, u \in EventTypes :
                 Queued(s, u)' => Queued(s, u) \/ (s = r /\ u = "COMPLETED")
        BY <2>2, <2>4, <2>5, <2>6, TakesTyped
    <2>8. pending' \in [Rides -> Matches] /\ timer' \in [Rides -> Timers]
        BY <2>1, ForgetTyped DEF TypeInv
    <2>9. TypeInv'
        BY <2>1, <2>7, <2>8, QueuesTyped DEF TypeInv, TypeOK, RideLeaves, rows, Timers
    <2>10. RideServiceKeeps
        BY <2>1, <2>7 DEF RideServiceKeeps, RideLeaves, rows
    <2>11. QED
        BY <2>9, <2>10
<1>12. CASE Completed(r, crash) \/ CancelledByRider(r, crash) \/ BidTimedOut(r, crash)
    <2>1. PICK t \in {"COMPLETED", "CANCELLED_BY_RIDER", "BID_TIMEOUT"} :
              Takes("ride", r, t, <<>>, crash)
        BY <1>12 DEF Completed, CancelledByRider, BidTimedOut
    <2>2. t \in EventTypes /\ "ride" \in Groups
        BY DEF EventTypes, Groups
    <2>3. PICK d \in Drivers \cup {NoDriver} : d = TakenBy("ride", r)
        BY <2>1, <2>2, TakesOnly
    <2>4. /\ UNCHANGED <<driver, card, lapsed>> /\ UNCHANGED RideLeaves
          /\ Keep(r, crash) \/ Forget(r, crash)
          /\ status' \in {status, [status EXCEPT ![r] = "COMPLETED"],
                          [status EXCEPT ![r] = "CANCELLED"]}
          /\ market' \in {market, [market EXCEPT ![d] = "ONLINE"]}
        BY <1>12, <2>3 DEF Completed, CancelledByRider, BidTimedOut, ExpireUnmatched
    <2>5. /\ status' \in [Rides -> Statuses]
          /\ market' \in [Drivers -> {"ONLINE", "OFFLINE", "ON_RIDE"}]
        BY <1>0, <2>4 DEF Statuses
    <2>6. LiveWas
        <3>1. CASE status' = [status EXCEPT ![r] = "COMPLETED"]
            <4>1. CASE Completed(r, crash)
                <5>1. Takes("ride", r, "COMPLETED", <<>>, crash) /\ "COMPLETED" \in EventTypes
                    BY <4>1 DEF Completed, EventTypes
                <5>2. Queued(r, "COMPLETED") /\ "COMPLETED" \in Commits
                    BY <2>2, <5>1, TakesOnly DEF Commits
                <5>3. QED
                    BY <1>0, <3>1, <5>2
            <4>2. CASE ~Completed(r, crash)
                <5>1. status' = status \/ status' = [status EXCEPT ![r] = "CANCELLED"]
                    BY <1>12, <4>2 DEF CancelledByRider, BidTimedOut, ExpireUnmatched
                <5>2. QED
                    BY <1>0, <5>1 DEF Driven, Live
            <4>3. QED
                BY <4>1, <4>2
        <3>2. CASE status' = status \/ status' = [status EXCEPT ![r] = "CANCELLED"]
            BY <1>0, <3>2 DEF Driven, Live
        <3>3. QED
            BY <2>4, <3>1, <3>2
    <2>7. TypeOK
        BY DEF TypeInv
    <2>8. QED
        BY <1>0, <1>1, <1>3, <2>1, <2>2, <2>4, <2>5, <2>6, <2>7, ForgetTyped
<1>13. CASE CancelledByDriver(r, crash)
    <2>1. /\ "CANCELLED_BY_DRIVER" \in EventTypes /\ "CANCELLED_BY_DRIVER" \in AboutDriver
          /\ "ride" \in Groups
        BY DEF EventTypes, AboutDriver, Groups
    <2>2. PICK d \in Drivers : d = TakenBy("ride", r)
        BY <1>13, <2>1, TakesOnly DEF CancelledByDriver
    <2>3. /\ Takes("ride", r, "CANCELLED_BY_DRIVER", <<>>, crash)
          /\ market' = [market EXCEPT ![d] = "ONLINE"]
          /\ UNCHANGED <<driver, lapsed>> /\ UNCHANGED RideLeaves
        BY <1>13, <2>2 DEF CancelledByDriver
    <2>4. market' \in [Drivers -> {"ONLINE", "OFFLINE", "ON_RIDE"}]
        BY <1>0, <2>3
    <2>5. CASE status[r] \in {"NONE", "COMPLETED", "CANCELLED"}
        <3>1. Forget(r, crash) /\ UNCHANGED <<status, card>>
            BY <1>13, <2>2, <2>5 DEF CancelledByDriver
        <3>2. QED
            BY <1>0, <1>1, <1>3, <2>1, <2>3, <2>4, <3>1, ForgetTyped DEF TypeInv
    <2>6. CASE status[r] \notin {"NONE", "COMPLETED", "CANCELLED"}
        <3>1. status' = [status EXCEPT ![r] = "MATCHING"]
            BY <1>13, <2>2, <2>6 DEF CancelledByDriver
        <3>2. PICK found \in SUBSET Drivers :
                  /\ Remember(r, [on |-> TRUE, candidates |-> found, attempted |-> {d}],
                              "again", crash)
                  /\ Offer(r, found)
            <4>1. Nearby(r, d) \in SUBSET Drivers
                BY DEF Nearby
            <4>2. QED
                BY <1>13, <2>2, <2>6, <4>1 DEF CancelledByDriver
        <3>3. /\ [on |-> TRUE, candidates |-> found, attempted |-> {d}] \in Matches
              /\ "again" \in Timers
            BY DEF Matches, Timers
        <3>4. pending' \in [Rides -> Matches] /\ timer' \in [Rides -> Timers]
            BY <3>2, <3>3, RememberTyped DEF TypeInv
        <3>5. CardsKept /\ card' \in [Rides -> [Drivers -> Cards]]
            BY <3>2, OfferTyped DEF TypeInv
        <3>6. LiveWas /\ status' \in [Rides -> Statuses]
            BY <1>0, <3>1 DEF Statuses, Live, Driven
        <3>7. QED
            BY <1>0, <1>1, <2>1, <2>3, <2>4, <3>4, <3>5, <3>6
    <2>7. QED
        BY <2>5, <2>6
<1>14. QED
    BY <1>4, <1>5, <1>6, <1>7, <1>8, <1>9, <1>10, <1>11, <1>12, <1>13 DEF RideService

(***************************************************************************)
(* The rest of ride-service: its timers, its memory, and the drivers who   *)
(* come and go.                                                            *)
(***************************************************************************)
LEMMA LapsesTyped ==
    ASSUME TypeInv, NEW r \in Rides, NEW t \in EventTypes, NEW d, Lapses(r, Event(t, d))
    PROVE  /\ lapsed' \in SUBSET (Rides \X Lapse)
           /\ lapsed \subseteq lapsed'
           /\ t \in GivesUp => <<r, t>> \in lapsed'
<1>1. Event(t, d).type = t
    BY DEF Event
<1>2. QED
    BY <1>1 DEF Lapses, TypeInv, TypeOK, Lapse

(* What only publishes a timeout, or only forgets. *)
ClockKeeps ==
    /\ UNCHANGED <<status, hold, accepts>> /\ lapsed \subseteq lapsed'
    /\ \A s \in Rides, d \in Drivers : card'[s][d] = "trip" => card[s][d] = "trip"
    /\ \A s \in Rides, u \in EventTypes : Queued(s, u)' =>
           Queued(s, u) \/ (u = "BID_TIMEOUT" /\ GivenUp(s)')

LEMMA ClockStep ==
    ASSUME TypeInv,
           \/ \E r \in Rides : TimerFires(r) \/ Sweep(r) \/ Age(r)
           \/ \E d \in Drivers : DriverOnline(d) \/ DriverOffline(d)
           \/ RideServiceDies
    PROVE  TypeInv' /\ ClockKeeps
<1>1. ASSUME NEW r \in Rides, TimerFires(r) \/ Sweep(r)
      PROVE  TypeInv' /\ ClockKeeps
    <2> DEFINE t == "BID_TIMEOUT"
    <2>1. /\ t \in EventTypes /\ t \in GivesUp /\ t \notin AboutDriver
        BY DEF EventTypes, GivesUp, AboutDriver
    <2>2. /\ Publish(r, Event(t, NoDriver)) /\ Lapses(r, Event(t, NoDriver))
          /\ UNCHANGED <<rows, bid, hold, pending, aged, accepts, apps, sent, crashes>>
          /\ timer' = timer \/ timer' = [timer EXCEPT ![r] = "fired"]
        BY <1>1 DEF TimerFires, Sweep, memory
    <2> HIDE DEF t
    <2>3. /\ queue' \in Queues
          /\ \A s \in Rides, u \in EventTypes : Queued(s, u)' => Queued(s, u) \/ (s = r /\ u = t)
        BY <2>1, <2>2, PublishTyped
    <2>4. /\ lapsed' \in SUBSET (Rides \X Lapse)
          /\ lapsed \subseteq lapsed' /\ <<r, t>> \in lapsed'
        BY <2>1, <2>2, LapsesTyped
    <2>5. TypeInv'
        BY <2>2, <2>3, <2>4, QueuesTyped DEF TypeInv, TypeOK, Lapse, rows, apps
    <2>6. GivenUp(r)'
        BY <2>1, <2>4 DEF GivenUp
    <2>7. ClockKeeps
        BY <2>2, <2>3, <2>4, <2>6 DEF ClockKeeps, rows, apps, t
    <2>8. QED
        BY <2>5, <2>7
<1>2. ASSUME NEW r \in Rides, Age(r)
      PROVE  TypeInv' /\ ClockKeeps
    <2>1. TypeInv'
        BY <1>2 DEF Age, TypeInv, TypeOK, rows, memory, apps
    <2>2. QED
        BY <1>2, <2>1 DEF Age, ClockKeeps, Queued, rows, memory, apps
<1>3. CASE RideServiceDies
    <2>1. /\ NoMatch \in Matches /\ crashes' \in 0..MaxCrashes
          /\ pending' = [s \in Rides |-> NoMatch] /\ timer' = [s \in Rides |-> "off"]
          /\ UNCHANGED <<rows, bid, hold, queue, aged, accepts, apps, sent, lapsed>>
        BY <1>3, RideMatchingAssumption DEF RideServiceDies, NoMatch, Matches, TypeInv, TypeOK
    <2>2. TypeInv'
        BY <2>1 DEF TypeInv, TypeOK, rows, apps
    <2>3. QED
        BY <2>1, <2>2 DEF ClockKeeps, Queued, rows, apps
<1>4. ASSUME NEW d \in Drivers, DriverOnline(d)
      PROVE  TypeInv' /\ ClockKeeps
    <2>0. pending \in [Rides -> Matches] /\ card \in [Rides -> [Drivers -> Cards]]
        BY DEF TypeInv, TypeOK, Cards
    <2>1. /\ market' = [market EXCEPT ![d] = "ONLINE"]
          /\ UNCHANGED <<status, driver, bid, hold, queue, timer, aged, accepts, rider,
                         sent, crashes, lapsed>>
        BY <1>4 DEF DriverOnline
    <2>2. PICK told \in SUBSET Rides :
              /\ pending' = [s \in Rides |->
                     IF s \in told THEN [pending[s] EXCEPT !.candidates = @ \cup {d}]
                     ELSE pending[s]]
              /\ card' = [s \in Rides |->
                     IF s \in told /\ card[s][d] = "none" THEN [card[s] EXCEPT ![d] = "offer"]
                     ELSE card[s]]
        BY <1>4 DEF DriverOnline
    <2>3. pending' \in [Rides -> Matches]
        <3> SUFFICES ASSUME NEW s \in Rides
                     PROVE  [pending[s] EXCEPT !.candidates = @ \cup {d}] \in Matches
            BY <2>0, <2>2
        <3>1. pending[s] \in Matches /\ pending[s].candidates \cup {d} \in SUBSET Drivers
            BY <2>0 DEF Matches
        <3>2. QED
            BY <3>1 DEF Matches
    <2>4. /\ card' \in [Rides -> [Drivers -> Cards]]
          /\ \A s \in Rides, c \in Drivers : card'[s][c] = "trip" => card[s][c] = "trip"
        <3>1. \A s \in Rides : card'[s] = card[s] \/ card'[s] = [card[s] EXCEPT ![d] = "offer"]
            BY <2>2
        <3>2. \A s \in Rides : card[s] \in [Drivers -> Cards]
            BY <2>0
        <3>3. ASSUME NEW s \in Rides
              PROVE  card'[s] \in [Drivers -> Cards]
            <4>1. PICK old \in [Drivers -> Cards] : old = card[s]
                BY <3>2
            <4>2. card'[s] = old \/ card'[s] = [old EXCEPT ![d] = "offer"]
                BY <3>1, <4>1
            <4>3. "offer" \in Cards
                BY DEF Cards
            <4>4. QED
                BY <4>2, <4>3
        <3>4. card' \in [Rides -> [Drivers -> Cards]]
            BY <2>2, <3>3
        <3>5. \A s \in Rides, c \in Drivers : card'[s][c] = "trip" => card[s][c] = "trip"
            BY <3>1, <3>2
        <3>6. QED
            BY <3>4, <3>5
    <2>5. market' \in [Drivers -> {"ONLINE", "OFFLINE", "ON_RIDE"}]
        BY <2>1 DEF TypeInv, TypeOK
    <2>6. TypeInv'
        BY <2>1, <2>3, <2>4, <2>5 DEF TypeInv, TypeOK, Cards
    <2>7. QED
        BY <2>1, <2>4, <2>6 DEF ClockKeeps, Queued
<1>5. ASSUME NEW d \in Drivers, DriverOffline(d)
      PROVE  TypeInv' /\ ClockKeeps
    <2>0. /\ pending \in [Rides -> Matches] /\ bid \in [Rides -> [Drivers -> Bids]]
          /\ "WITHDRAWN" \in Bids
        BY DEF TypeInv, TypeOK, Bids
    <2>1. /\ market' = [market EXCEPT ![d] = "OFFLINE"]
          /\ pending' = [s \in Rides |-> [pending[s] EXCEPT !.candidates = @ \ {d}]]
          /\ bid' = [s \in Rides |->
                 IF bid[s][d] = "PENDING" THEN [bid[s] EXCEPT ![d] = "WITHDRAWN"] ELSE bid[s]]
          /\ UNCHANGED <<status, driver, hold, queue, timer, aged, accepts, card, rider, sent,
                         crashes, lapsed>>
        BY <1>5 DEF DriverOffline, apps
    <2>2. pending' \in [Rides -> Matches]
        <3> SUFFICES ASSUME NEW s \in Rides
                     PROVE  [pending[s] EXCEPT !.candidates = @ \ {d}] \in Matches
            BY <2>1
        <3>1. pending[s] \in Matches /\ pending[s].candidates \ {d} \in SUBSET Drivers
            BY <2>0 DEF Matches
        <3>2. QED
            BY <3>1 DEF Matches
    <2>3. bid' \in [Rides -> [Drivers -> Bids]]
        BY <2>0, <2>1
    <2>4. market' \in [Drivers -> {"ONLINE", "OFFLINE", "ON_RIDE"}]
        BY <2>1 DEF TypeInv, TypeOK
    <2>5. TypeInv'
        BY <2>1, <2>2, <2>3, <2>4 DEF TypeInv, TypeOK
    <2>6. QED
        BY <2>1, <2>5 DEF ClockKeeps, Queued
<1>6. QED
    BY <1>1, <1>2, <1>3, <1>4, <1>5
-----------------------------------------------------------------------------
(***************************************************************************)
(* The gateway's consumer and wallet-service: they let a hold go on an     *)
(* event that gives the ride up, and show a trip on an assignment.         *)
(***************************************************************************)
ConsumersKeep ==
    /\ UNCHANGED status /\ lapsed \subseteq lapsed' /\ accepts' \subseteq accepts
    /\ \A s \in Rides, u \in EventTypes : Queued(s, u)' => Queued(s, u)
    /\ \A s \in Rides, d \in Drivers :
           card'[s][d] = "trip" => card[s][d] = "trip" \/ Queued(s, "ASSIGNED")
    /\ \A s \in Rides :
           \/ hold'[s] = hold[s]
           \/ hold'[s] \in {"ACTIVE", "CHARGED"}
           \/ hold'[s] = "RELEASED" /\ \E t \in GivesUp : Queued(s, t)

LEMMA ReleaseTyped ==
    ASSUME TypeInv, NEW r \in Rides, ReleaseHold(r)
    PROVE  /\ hold' \in [Rides -> Holds]
           /\ \A s \in Rides : hold'[s] = hold[s] \/ (s = r /\ hold'[s] = "RELEASED")
BY DEF ReleaseHold, TypeInv, TypeOK, Holds

LEMMA ResolveTyped ==
    ASSUME TypeInv, NEW r \in Rides, NEW as \in Bids, Resolve(r, as)
    PROVE  bid' \in [Rides -> [Drivers -> Bids]]
<1> DEFINE row == [d \in Drivers |-> IF bid[r][d] = "PENDING" THEN as ELSE bid[r][d]]
<1>1. bid \in [Rides -> [Drivers -> Bids]]
    BY DEF TypeInv, TypeOK
<1>2. row \in [Drivers -> Bids]
    BY <1>1
<1>3. bid' = [bid EXCEPT ![r] = row]
    BY DEF Resolve
<1> HIDE DEF row
<1>4. QED
    BY <1>1, <1>2, <1>3

LEMMA TellTyped ==
    ASSUME TypeInv, NEW r \in Rides, NEW d, NEW shows \in Cards, TellBidders(r, d, shows)
    PROVE  /\ card' \in [Rides -> [Drivers -> Cards]]
           /\ \A s \in Rides, c \in Drivers : card'[s][c] = "trip" =>
                  card[s][c] = "trip" \/ (s = r /\ shows = "trip")
<1> DEFINE Shown(c) == CASE c = d -> shows
                         [] c # d /\ bid[r][c] = "PENDING" /\ card[r][c] = "offer" -> "none"
                         [] OTHER -> card[r][c]
           row == [c \in Drivers |-> Shown(c)]
<1>1. card \in [Rides -> [Drivers -> Cards]] /\ card[r] \in [Drivers -> Cards]
    BY DEF TypeInv, TypeOK, Cards
<1>2. card' = [card EXCEPT ![r] = row]
    BY DEF TellBidders
<1>3. /\ \A c \in Drivers : Shown(c) \in Cards
      /\ \A c \in Drivers : Shown(c) = "trip" => card[r][c] = "trip" \/ shows = "trip"
    BY <1>1 DEF Cards
<1> HIDE DEF Shown
<1>4. row \in [Drivers -> Cards] /\ \A c \in Drivers : row[c] = Shown(c)
    BY <1>3
<1> HIDE DEF row
<1>5. card' \in [Rides -> [Drivers -> Cards]]
    BY <1>1, <1>2, <1>4
<1>6. ASSUME NEW s \in Rides, NEW c \in Drivers, card'[s][c] = "trip"
      PROVE  card[s][c] = "trip" \/ (s = r /\ shows = "trip")
    <2>1. CASE s = r
        BY <1>1, <1>2, <1>3, <1>4, <1>6, <2>1
    <2>2. CASE s # r
        BY <1>1, <1>2, <1>6, <2>2
    <2>3. QED
        BY <2>1, <2>2
<1>7. QED
    BY <1>5, <1>6

(* A fare taken to nowhere goes on record, and nothing leaves it. *)
LEMMA UnsentTyped ==
    ASSUME TypeInv, NEW S \in SUBSET accepts, Unsent(S)
    PROVE  lapsed' \in SUBSET (Rides \X Lapse) /\ lapsed \subseteq lapsed'
<1>1. /\ accepts \in SUBSET [ride : Rides, driver : Drivers, held : BOOLEAN]
      /\ lapsed \in SUBSET (Rides \X Lapse)
    BY DEF TypeInv, TypeOK, Lapse
<1>2. \A a \in S : <<a.ride, "UNSENT">> \in Rides \X Lapse
    BY <1>1 DEF Lapse
<1>3. QED
    BY <1>1, <1>2 DEF Unsent

LEMMA GatewayStep ==
    ASSUME TypeInv, NEW r \in Rides, NEW crash \in BOOLEAN, Gateway(r, crash)
    PROVE  TypeInv' /\ ConsumersKeep
<1>0. "gateway" \in Groups
    BY DEF Groups
<1>1. PICK t \in {"BID_TIMEOUT", "ASSIGNED", "CANCELLED_BY_RIDER", "CANCELLED_BY_DRIVER",
                  "COMPLETED", "REJECTED"} :
          /\ Takes("gateway", r, t, <<>>, crash)
          /\ GatewayAssigned(r, crash) => t = "ASSIGNED"
          /\ GatewayBidTimeout(r, crash) \/ GatewayCancelled(r, crash) => t \in GivesUp
    <2>1. CASE GatewayBidTimeout(r, crash)
        BY <2>1 DEF GatewayBidTimeout, GatewayCancelled, GatewayAssigned, Takes, GivesUp
    <2>2. CASE GatewayAssigned(r, crash)
        BY <2>2 DEF GatewayBidTimeout, GatewayCancelled, GatewayAssigned, Takes, GivesUp
    <2>3. CASE GatewayCancelled(r, crash)
        BY <2>3 DEF GatewayBidTimeout, GatewayCancelled, GatewayAssigned, Takes, GivesUp
    <2>4. CASE GatewayCompleted(r, crash) \/ GatewayRejected(r, crash)
        BY <2>4 DEF GatewayBidTimeout, GatewayCancelled, GatewayAssigned, GatewayCompleted,
                    GatewayRejected, Takes, GivesUp
    <2>5. QED
        BY <2>1, <2>2, <2>3, <2>4 DEF Gateway
<1>2. t \in EventTypes
    BY DEF EventTypes
<1>3. /\ queue' \in Queues /\ crashes' \in 0..MaxCrashes /\ Queued(r, t)
      /\ \A s \in Rides, u \in EventTypes : Queued(s, u)' => Queued(s, u)
    BY <1>0, <1>1, <1>2, TakesOnly
<1>4. /\ UNCHANGED <<status, driver, market, pending, timer, aged, sent>>
      /\ accepts' \subseteq accepts
      /\ lapsed' \in SUBSET (Rides \X Lapse) /\ lapsed \subseteq lapsed'
    <2>1. UNCHANGED GatewayLeaves /\ Serving(crash)
        BY DEF Gateway, GatewayBidTimeout, GatewayAssigned, GatewayCancelled, GatewayCompleted,
               GatewayRejected
    <2>2. lapsed' = lapsed \/ Unsent(accepts)
        BY <2>1 DEF Serving
    <2>3. lapsed \in SUBSET (Rides \X Lapse)
        BY DEF TypeInv, TypeOK, Lapse
    <2>4. QED
        BY <2>1, <2>2, <2>3, UnsentTyped DEF GatewayLeaves, Serving, rows, memory
<1>5. rider' \in [Rides -> {"idle", "searching", "matched", "over"}]
    <2>1. rider \in [Rides -> {"idle", "searching", "matched", "over"}]
        BY DEF TypeInv, TypeOK
    <2>2. rider' = rider \/ \E as \in {"searching", "matched", "over"} :
              rider' = [rider EXCEPT ![r] = as]
        <3>1. CASE GatewayCancelled(r, crash)
            <4>1. \/ rider' = [rider EXCEPT ![r] = "over"]
                  \/ rider' = [rider EXCEPT ![r] = IF rider[r] = "matched" THEN "searching"
                                                  ELSE rider[r]]
                BY <3>1 DEF GatewayCancelled
            <4>2. [rider EXCEPT ![r] = rider[r]] = rider
                BY <2>1
            <4>3. QED
                BY <4>1, <4>2
        <3>2. CASE ~GatewayCancelled(r, crash)
            BY <3>2 DEF Gateway, GatewayBidTimeout, GatewayAssigned, GatewayCompleted,
                        GatewayRejected, apps
        <3>3. QED
            BY <3>1, <3>2
    <2>3. QED
        BY <2>1, <2>2
<1>6. /\ hold' \in [Rides -> Holds]
      /\ \A s \in Rides : hold'[s] = hold[s]
             \/ (hold'[s] = "RELEASED" /\ \E u \in GivesUp : Queued(s, u))
    <2>1. CASE GatewayBidTimeout(r, crash) \/ GatewayCancelled(r, crash)
        <3>1. ReleaseHold(r)
            BY <2>1 DEF GatewayBidTimeout, GatewayCancelled
        <3>2. QED
            BY <1>1, <1>3, <2>1, <3>1, ReleaseTyped
    <2>2. CASE ~(GatewayBidTimeout(r, crash) \/ GatewayCancelled(r, crash))
        <3>1. hold' = hold
            BY <2>2 DEF Gateway, GatewayAssigned, GatewayCompleted, GatewayRejected
        <3>2. QED
            BY <3>1 DEF TypeInv, TypeOK
    <2>3. QED
        BY <2>1, <2>2
<1>7. bid' \in [Rides -> [Drivers -> Bids]]
    <2>0. bid \in [Rides -> [Drivers -> Bids]]
        BY DEF TypeInv, TypeOK
    <2>1. CASE GatewayBidTimeout(r, crash) \/ GatewayCancelled(r, crash)
        <3>1. Resolve(r, "EXPIRED") \/ Resolve(r, "CANCELLED")
            BY <2>1 DEF GatewayBidTimeout, GatewayCancelled
        <3>2. QED
            BY <3>1, ResolveTyped DEF Bids
    <2>2. CASE GatewayAssigned(r, crash)
        <3> DEFINE d == TakenBy("gateway", r)
                   Settled(s, c) ==
               CASE s = r /\ c = d /\ bid[s][c] # "NONE" -> "ACCEPTED"
                 [] s = r /\ c # d /\ bid[s][c] = "PENDING" -> "LOST"
                 [] s # r /\ c = d /\ bid[s][c] = "PENDING" -> "WITHDRAWN"
                 [] OTHER -> bid[s][c]
        <3>1. bid' = [s \in Rides |-> [c \in Drivers |-> Settled(s, c)]]
            BY <2>2 DEF GatewayAssigned
        <3>2. \A s \in Rides, c \in Drivers : Settled(s, c) \in Bids
            BY <2>0 DEF Bids
        <3> HIDE DEF Settled
        <3>3. QED
            BY <3>1, <3>2
    <2>3. CASE GatewayCompleted(r, crash) \/ GatewayRejected(r, crash)
        BY <2>0, <2>3 DEF GatewayCompleted, GatewayRejected, Withdraw, Bids
    <2>4. QED
        BY <2>1, <2>2, <2>3 DEF Gateway
<1>8. /\ card' \in [Rides -> [Drivers -> Cards]]
      /\ \A s \in Rides, c \in Drivers : card'[s][c] = "trip" =>
             card[s][c] = "trip" \/ Queued(s, "ASSIGNED")
    <2>0. card \in [Rides -> [Drivers -> Cards]]
        BY DEF TypeInv, TypeOK, Cards
    <2>1. CASE GatewayBidTimeout(r, crash) \/ GatewayCancelled(r, crash)
        <3>1. \E d : TellBidders(r, d, "none")
            BY <2>1 DEF GatewayBidTimeout, GatewayCancelled
        <3>2. "none" \in Cards /\ "none" # "trip"
            BY DEF Cards
        <3>3. QED
            BY <3>1, <3>2, TellTyped
    <2>2. CASE GatewayAssigned(r, crash)
        <3>1. /\ \E d : TellBidders(r, d, "trip")
              /\ Queued(r, "ASSIGNED")
            BY <1>1, <1>3, <2>2 DEF GatewayAssigned
        <3>2. "trip" \in Cards
            BY DEF Cards
        <3>3. QED
            BY <3>1, <3>2, TellTyped
    <2>3. CASE GatewayCompleted(r, crash)
        <3>1. PICK d : card' = [card EXCEPT ![r][d] = "none"]
            BY <2>3 DEF GatewayCompleted
        <3>2. "none" \in Cards /\ "none" # "trip"
            BY DEF Cards
        <3>3. QED
            BY <2>0, <3>1, <3>2
    <2>4. CASE GatewayRejected(r, crash)
        BY <2>0, <2>4 DEF GatewayRejected, apps
    <2>5. QED
        BY <2>1, <2>2, <2>3, <2>4 DEF Gateway
<1>9. TypeInv'
    BY <1>3, <1>4, <1>5, <1>6, <1>7, <1>8, QueuesTyped DEF TypeInv, TypeOK, Cards, Lapse
<1>10. QED
    BY <1>3, <1>4, <1>6, <1>8, <1>9 DEF ConsumersKeep

LEMMA WalletStep ==
    ASSUME TypeInv, NEW r \in Rides, NEW crash \in BOOLEAN, Wallet(r, crash)
    PROVE  TypeInv' /\ ConsumersKeep
<1>0. "wallet" \in Groups
    BY DEF Groups
<1>1. UNCHANGED <<status, driver, market, bid, pending, timer, aged, accepts, rider, card, sent,
                 lapsed>>
    BY DEF Wallet, rows, memory, apps
<1>2. PICK t \in {"ASSIGNED", "CANCELLED_BY_RIDER", "CANCELLED_BY_DRIVER", "COMPLETED"} :
          /\ Takes("wallet", r, t, <<>>, crash)
          /\ \/ hold' \in {hold, [hold EXCEPT ![r] = "ACTIVE"], [hold EXCEPT ![r] = "CHARGED"]}
             \/ t \in GivesUp /\ ReleaseHold(r)
    BY DEF Wallet, GivesUp
<1>3. t \in EventTypes
    BY DEF EventTypes
<1>4. /\ queue' \in Queues /\ crashes' \in 0..MaxCrashes /\ Queued(r, t)
      /\ \A s \in Rides, u \in EventTypes : Queued(s, u)' => Queued(s, u)
    BY <1>0, <1>2, <1>3, TakesOnly
<1>5. /\ hold' \in [Rides -> Holds]
      /\ \A s \in Rides :
             \/ hold'[s] = hold[s]
             \/ hold'[s] \in {"ACTIVE", "CHARGED"}
             \/ hold'[s] = "RELEASED" /\ \E u \in GivesUp : Queued(s, u)
    <2>1. CASE t \in GivesUp /\ ReleaseHold(r)
        BY <1>4, <2>1, ReleaseTyped
    <2>2. CASE hold' \in {hold, [hold EXCEPT ![r] = "ACTIVE"], [hold EXCEPT ![r] = "CHARGED"]}
        BY <2>2 DEF TypeInv, TypeOK, Holds
    <2>3. QED
        BY <1>2, <2>1, <2>2
<1>6. TypeInv'
    BY <1>1, <1>4, <1>5, QueuesTyped DEF TypeInv, TypeOK
<1>7. QED
    BY <1>1, <1>4, <1>5, <1>6 DEF ConsumersKeep
-----------------------------------------------------------------------------
(***************************************************************************)
(* The apps, and the acceptances inside the gateway: what is sent on the   *)
(* way to a driver was paid for, or is on record as given up or unpaid.    *)
(***************************************************************************)
(* A driver who shows the trip, or an acceptance that is paid. *)
OnTheWay(s) ==
    \/ \E d \in Drivers : card[s][d] = "trip"
    \/ \E a \in accepts : a.ride = s /\ a.held

AppsKeep ==
    /\ UNCHANGED status /\ lapsed \subseteq lapsed'
    /\ \A s \in Rides, d \in Drivers : card'[s][d] = "trip" => card[s][d] = "trip"
    /\ \A s \in Rides : hold'[s] = hold[s] \/ (hold[s] = "NONE" /\ hold'[s] = "ACTIVE")
    /\ \A s \in Rides, u \in EventTypes : Queued(s, u)' =>
           \/ Queued(s, u) \/ u \notin Commits \cup GivesUp
           \/ u \in GivesUp /\ GivenUp(s)'
           \/ u \in Commits /\ (OnTheWay(s) \/ GivenUp(s)')
    /\ \A a \in accepts' : a.held => a \in accepts \/ hold'[a.ride] # "NONE"

LEMMA SendTyped ==
    ASSUME TypeInv, NEW r \in Rides, NEW t \in EventTypes, NEW d \in Drivers \cup {NoDriver},
           t \in AboutDriver => d \in Drivers, Send(r, Event(t, d)),
           bid' \in [Rides -> [Drivers -> Bids]], UNCHANGED rider,
           card' \in [Rides -> [Drivers -> Cards]],
           \A s \in Rides, c \in Drivers : card'[s][c] = "trip" => card[s][c] = "trip",
           t \in Commits => \E c \in Drivers : card[r][c] = "trip"
    PROVE  TypeInv' /\ AppsKeep
<1>1. /\ Publish(r, Event(t, d)) /\ Lapses(r, Event(t, d))
      /\ UNCHANGED <<rows, hold, memory, aged, accepts, crashes>>
      /\ sent' = [sent EXCEPT ![r] = @ + 1] /\ sent[r] < MaxMessages
    BY DEF Send
<1>2. /\ queue' \in Queues
      /\ \A s \in Rides, u \in EventTypes : Queued(s, u)' => Queued(s, u) \/ (s = r /\ u = t)
    BY <1>1, PublishTyped
<1>3. /\ lapsed' \in SUBSET (Rides \X Lapse)
      /\ lapsed \subseteq lapsed' /\ (t \in GivesUp => <<r, t>> \in lapsed')
    BY <1>1, LapsesTyped
<1>4. sent' \in [Rides -> 0..MaxMessages]
    BY <1>1, RideMatchingAssumption DEF TypeInv, TypeOK
<1>5. TypeInv'
    BY <1>1, <1>2, <1>3, <1>4, QueuesTyped DEF TypeInv, TypeOK, Cards, Lapse, rows, memory
<1>6. t \in GivesUp => GivenUp(r)'
    BY <1>3 DEF GivenUp
<1>7. AppsKeep
    BY <1>1, <1>2, <1>3, <1>6 DEF AppsKeep, OnTheWay, rows
<1>8. QED
    BY <1>5, <1>7

LEMMA AppsStep ==
    ASSUME TypeInv, NEW r \in Rides,
           \/ RiderRequests(r) \/ RiderCounters(r) \/ RiderCancels(r)
           \/ \E d \in Drivers :
                 \/ DriverBids(r, d) \/ DriverRejects(r, d) \/ DriverTravels(r, d)
                 \/ AcceptChecks(r, d) \/ FlowAccepts(r, d)
    PROVE  TypeInv' /\ AppsKeep
<1>0. /\ bid \in [Rides -> [Drivers -> Bids]] /\ card \in [Rides -> [Drivers -> Cards]]
      /\ rider \in [Rides -> {"idle", "searching", "matched", "over"}]
      /\ driver[r] \in Drivers \cup {NoDriver}
      /\ sent \in [Rides -> 0..MaxMessages]
    BY DEF TypeInv, TypeOK, Cards
<1>1. CASE RiderRequests(r)
    <2>1. "REQUESTED" \in EventTypes /\ "REQUESTED" \notin AboutDriver \cup Commits \cup GivesUp
        BY DEF EventTypes, AboutDriver, Commits, GivesUp
    <2>2. /\ Publish(r, Event("REQUESTED", NoDriver))
          /\ rider' = [rider EXCEPT ![r] = "searching"]
          /\ UNCHANGED <<rows, bid, hold, memory, aged, accepts, card, sent, crashes, lapsed>>
        BY <1>1 DEF RiderRequests
    <2>3. /\ queue' \in Queues
          /\ \A s \in Rides, u \in EventTypes :
                 Queued(s, u)' => Queued(s, u) \/ (s = r /\ u = "REQUESTED")
        BY <2>1, <2>2, PublishTyped
    <2>4. TypeInv'
        BY <1>0, <2>2, <2>3, QueuesTyped DEF TypeInv, TypeOK, rows, memory
    <2>5. AppsKeep
        BY <2>1, <2>2, <2>3 DEF AppsKeep, rows
    <2>6. QED
        BY <2>4, <2>5
<1>2. CASE RiderCounters(r) \/ RiderCancels(r)
    <2>1. PICK t \in {"RIDER_COUNTER", "CANCELLED_BY_RIDER"}, c \in Drivers \cup {NoDriver} :
              Send(r, Event(t, c))
        BY <1>0, <1>2 DEF RiderCounters, RiderCancels
    <2>2. t \in EventTypes /\ t \notin AboutDriver \cup Commits
        BY DEF EventTypes, AboutDriver, Commits
    <2>3. UNCHANGED <<bid, rider, card>>
        BY <1>2 DEF RiderCounters, RiderCancels, apps
    <2>4. QED
        BY <1>0, <2>1, <2>2, <2>3, SendTyped
<1>3. ASSUME NEW d \in Drivers, DriverBids(r, d)
      PROVE  TypeInv' /\ AppsKeep
    <2>1. "COUNTER_OFFER" \in EventTypes /\ "COUNTER_OFFER" \notin Commits
        BY DEF EventTypes, Commits
    <2>2. Send(r, Event("COUNTER_OFFER", d)) /\ UNCHANGED <<rider, card>>
        BY <1>3 DEF DriverBids, apps
    <2>3. bid' \in [Rides -> [Drivers -> Bids]]
        BY <1>0, <1>3 DEF DriverBids, Bids
    <2>4. QED
        BY <1>0, <2>1, <2>2, <2>3, SendTyped
<1>4. ASSUME NEW d \in Drivers, DriverRejects(r, d)
      PROVE  TypeInv' /\ AppsKeep
    <2>1. "REJECTED" \in EventTypes /\ "REJECTED" \notin Commits
        BY DEF EventTypes, Commits
    <2>2. /\ Send(r, Event("REJECTED", d)) /\ UNCHANGED <<bid, rider>>
          /\ card' = [card EXCEPT ![r][d] = "none"]
        BY <1>4 DEF DriverRejects
    <2>3. /\ card' \in [Rides -> [Drivers -> Cards]]
          /\ \A s \in Rides, c \in Drivers : card'[s][c] = "trip" => card[s][c] = "trip"
        BY <1>0, <2>2 DEF Cards
    <2>4. QED
        BY <1>0, <2>1, <2>2, <2>3, SendTyped
<1>5. ASSUME NEW d \in Drivers, DriverTravels(r, d)
      PROVE  TypeInv' /\ AppsKeep
    <2>1. PICK t \in {"ARRIVED", "STARTED", "COMPLETION_REQUESTED", "CANCELLED_BY_DRIVER"} :
              Send(r, Event(t, d))
        BY <1>5 DEF DriverTravels
    <2>2. t \in EventTypes
        BY DEF EventTypes
    <2>3. UNCHANGED <<bid, rider, card>> /\ card[r][d] = "trip"
        BY <1>5 DEF DriverTravels, apps
    <2>4. QED
        BY <1>0, <2>1, <2>2, <2>3, SendTyped
<1>6. ASSUME NEW d \in Drivers, AcceptChecks(r, d)
      PROVE  TypeInv' /\ AppsKeep
    <2>1. /\ UNCHANGED <<rows, hold, queue, memory, aged, apps, crashes, lapsed>>
          /\ sent[r] < MaxMessages /\ sent' = [sent EXCEPT ![r] = @ + 1]
          /\ \/ accepts' = accepts \cup {[ride |-> r, driver |-> d, held |-> FALSE]}
                /\ UNCHANGED bid
             \/ Withdraw(r, d) /\ UNCHANGED accepts
        BY <1>6 DEF AcceptChecks
    <2>2. sent' \in [Rides -> 0..MaxMessages]
        BY <1>0, <2>1, RideMatchingAssumption
    <2>3. bid' \in [Rides -> [Drivers -> Bids]]
        <3>1. "WITHDRAWN" \in Bids
            BY DEF Bids
        <3>2. bid' = bid \/ bid' = [bid EXCEPT ![r][d] = "WITHDRAWN"]
            BY <2>1 DEF Withdraw
        <3>3. PICK row \in [Drivers -> Bids] : row = bid[r]
            BY <1>0
        <3>4. CASE bid' = [bid EXCEPT ![r][d] = "WITHDRAWN"]
            <4>1. bid' = [bid EXCEPT ![r] = [row EXCEPT ![d] = "WITHDRAWN"]]
                BY <3>3, <3>4
            <4>2. [row EXCEPT ![d] = "WITHDRAWN"] \in [Drivers -> Bids]
                BY <3>1
            <4>3. QED
                BY <1>0, <4>1, <4>2
        <3>5. QED
            BY <1>0, <3>2, <3>4
    <2>4. accepts' \in SUBSET [ride : Rides, driver : Drivers, held : BOOLEAN]
        <3>1. [ride |-> r, driver |-> d, held |-> FALSE]
                  \in [ride : Rides, driver : Drivers, held : BOOLEAN]
            OBVIOUS
        <3>2. QED
            BY <2>1, <3>1 DEF TypeInv, TypeOK
    <2>5. TypeInv'
        BY <2>1, <2>2, <2>3, <2>4 DEF TypeInv, TypeOK, rows, memory, apps
    <2>6. AppsKeep
        BY <2>1 DEF AppsKeep, Queued, rows, apps
    <2>7. QED
        BY <2>5, <2>6
<1>7. ASSUME NEW d \in Drivers, FlowAccepts(r, d)
      PROVE  TypeInv' /\ AppsKeep
    <2>1. "OFFER_ACCEPTED" \in EventTypes
        BY DEF EventTypes
    <2>2. /\ Publish(r, Event("OFFER_ACCEPTED", d))
          /\ sent[r] < MaxMessages /\ sent' = [sent EXCEPT ![r] = @ + 1]
          /\ lapsed' = lapsed \cup {<<r, "UNPAID">>}
          /\ UNCHANGED <<rows, bid, hold, memory, aged, accepts, apps, crashes>>
        BY <1>7 DEF FlowAccepts
    <2>3. /\ queue' \in Queues
          /\ \A s \in Rides, u \in EventTypes :
                 Queued(s, u)' => Queued(s, u) \/ (s = r /\ u = "OFFER_ACCEPTED")
        BY <2>1, <2>2, PublishTyped
    <2>4. sent' \in [Rides -> 0..MaxMessages]
        BY <1>0, <2>2, RideMatchingAssumption
    <2>5. lapsed' \in SUBSET (Rides \X Lapse) /\ GivenUp(r)'
        <3>1. <<r, "UNPAID">> \in lapsed' /\ <<r, "UNPAID">> \in Rides \X Lapse
            BY <2>2 DEF Lapse
        <3>2. lapsed \in SUBSET (Rides \X Lapse)
            BY DEF TypeInv, TypeOK, Lapse
        <3>3. lapsed' \in SUBSET (Rides \X Lapse)
            BY <2>2, <3>1, <3>2
        <3>4. QED
            BY <3>1, <3>3 DEF GivenUp
    <2>6. TypeInv'
        BY <2>2, <2>3, <2>4, <2>5, QueuesTyped DEF TypeInv, TypeOK, Lapse, rows, memory, apps
    <2>7. "OFFER_ACCEPTED" \in Commits
        BY DEF Commits
    <2>8. AppsKeep
        <3>1. UNCHANGED <<status, hold, card, accepts>> /\ lapsed \subseteq lapsed'
            BY <2>2 DEF rows, apps
        <3>2. \A s \in Rides, u \in EventTypes : Queued(s, u)' =>
                  Queued(s, u) \/ (u \in Commits /\ GivenUp(s)')
            BY <2>3, <2>5, <2>7
        <3>3. QED
            BY <3>1, <3>2 DEF AppsKeep
    <2>9. QED
        BY <2>6, <2>8
<1>8. QED
    BY <1>1, <1>2, <1>3, <1>4, <1>5, <1>6, <1>7

LEMMA AcceptStep ==
    ASSUME TypeInv,
           GatewayDies \/ \E a \in accepts :
               AcceptHolds(a) \/ AcceptRefused(a) \/ AcceptPublishes(a) \/ AcceptFails(a)
    PROVE  TypeInv' /\ AppsKeep
<1>0. accepts \in SUBSET [ride : Rides, driver : Drivers, held : BOOLEAN]
    BY DEF TypeInv, TypeOK
<1>1. ASSUME NEW a \in accepts, GatewayDies \/ AcceptFails(a)
      PROVE  TypeInv' /\ AppsKeep
    <2>1. /\ accepts' \subseteq accepts /\ crashes' \in 0..MaxCrashes
          /\ \E S \in SUBSET accepts : Unsent(S)
          /\ UNCHANGED <<rows, bid, hold, queue, memory, aged, apps, sent>>
        BY <1>1, RideMatchingAssumption DEF GatewayDies, AcceptFails, TypeInv, TypeOK
    <2>2. TypeInv'
        BY <1>0, <2>1, UnsentTyped DEF TypeInv, TypeOK, Lapse, rows, memory, apps
    <2>3. AppsKeep
        BY <2>1, UnsentTyped DEF AppsKeep, Queued, rows, apps
    <2>4. QED
        BY <2>2, <2>3
<1>2. ASSUME NEW a \in accepts, AcceptHolds(a)
      PROVE  TypeInv' /\ AppsKeep
    <2>1. PICK s \in Rides : s = a.ride
        BY <1>0
    <2>2. /\ accepts' = (accepts \ {a}) \cup {[a EXCEPT !.held = TRUE]}
          /\ hold' = IF hold[s] = "NONE" THEN [hold EXCEPT ![s] = "ACTIVE"] ELSE hold
          /\ UNCHANGED <<rows, bid, queue, memory, aged, apps, sent, crashes, lapsed>>
        BY <1>2, <2>1 DEF AcceptHolds, Secure
    <2>3. /\ [a EXCEPT !.held = TRUE] \in [ride : Rides, driver : Drivers, held : BOOLEAN]
          /\ [a EXCEPT !.held = TRUE].ride = s
        BY <1>0, <2>1
    <2>4. /\ hold' \in [Rides -> Holds] /\ hold'[s] # "NONE"
          /\ \A u \in Rides : hold'[u] = hold[u] \/ (hold[u] = "NONE" /\ hold'[u] = "ACTIVE")
        BY <2>2 DEF TypeInv, TypeOK, Holds
    <2>5. accepts' \in SUBSET [ride : Rides, driver : Drivers, held : BOOLEAN]
        BY <1>0, <2>2, <2>3
    <2>6. TypeInv'
        BY <2>2, <2>4, <2>5 DEF TypeInv, TypeOK, rows, memory, apps
    <2>7. AppsKeep
        BY <2>2, <2>3, <2>4 DEF AppsKeep, Queued, rows, apps
    <2>8. QED
        BY <2>6, <2>7
<1>3. ASSUME NEW a \in accepts, AcceptRefused(a)
      PROVE  TypeInv' /\ AppsKeep
    <2>1. /\ accepts' = accepts \ {a}
          /\ UNCHANGED <<rows, bid, hold, queue, memory, aged, apps, sent, crashes, lapsed>>
        BY <1>3 DEF AcceptRefused
    <2>2. TypeInv'
        BY <1>0, <2>1 DEF TypeInv, TypeOK, rows, memory, apps
    <2>3. AppsKeep
        BY <2>1 DEF AppsKeep, Queued, rows, apps
    <2>4. QED
        BY <2>2, <2>3
<1>4. ASSUME NEW a \in accepts, AcceptPublishes(a)
      PROVE  TypeInv' /\ AppsKeep
    <2>1. PICK s \in Rides, d \in Drivers : s = a.ride /\ d = a.driver
        BY <1>0
    <2>2. "OFFER_ACCEPTED" \in EventTypes /\ "OFFER_ACCEPTED" \in Commits
        BY DEF EventTypes, Commits
    <2>3. /\ a.held /\ accepts' = accepts \ {a}
          /\ Publish(s, Event("OFFER_ACCEPTED", d))
          /\ UNCHANGED <<rows, bid, hold, memory, aged, apps, sent, crashes, lapsed>>
        BY <1>4, <2>1 DEF AcceptPublishes
    <2>4. /\ queue' \in Queues
          /\ \A u \in Rides, t \in EventTypes :
                 Queued(u, t)' => Queued(u, t) \/ (u = s /\ t = "OFFER_ACCEPTED")
        BY <2>2, <2>3, PublishTyped
    <2>5. TypeInv'
        BY <1>0, <2>3, <2>4, QueuesTyped DEF TypeInv, TypeOK, rows, memory, apps
    <2>6. AppsKeep
        BY <2>1, <2>2, <2>3, <2>4 DEF AppsKeep, OnTheWay, rows, apps
    <2>7. QED
        BY <2>5, <2>6
<1>5. QED
    BY <1>1, <1>2, <1>3, <1>4 DEF GatewayDies
-----------------------------------------------------------------------------
(***************************************************************************)
(* The theorems                                                            *)
(***************************************************************************)
LEMMA InitInv == Init => IInv
<1> SUFFICES ASSUME Init
             PROVE  IInv
    OBVIOUS
<1>1. queue \in Queues /\ \A g \in Groups, r \in Rides : Len(queue[g][r]) = 0
    BY DEF Init, Queues
<1>2. NoMatch \in Matches
    BY DEF NoMatch, Matches
<1>3. TypeInv
    BY <1>1, <1>2, QueuesTyped, RideMatchingAssumption
    DEF TypeInv, TypeOK, Init, Statuses, Bids, Holds, Live
<1>4. \A r \in Rides : \A t : ~Queued(r, t)
    BY <1>1 DEF Queued
<1>5. SecuredInv
    BY <1>4 DEF Init, SecuredInv, Secured, Committed, Driven, Live
<1>6. QED
    BY <1>3, <1>5 DEF IInv

LEMMA NextKinds ==
    ASSUME TypeInv, [Next]_vars
    PROVE  /\ TypeInv'
           /\ RideServiceKeeps \/ ClockKeeps \/ ConsumersKeep \/ AppsKeep
<1>1. CASE UNCHANGED vars
    <2>1. TypeInv'
        BY <1>1 DEF TypeInv, TypeOK, vars, rows, memory, apps
    <2>2. AppsKeep
        BY <1>1 DEF AppsKeep, Queued, vars, rows, memory, apps
    <2>3. QED
        BY <2>1, <2>2
<1>2. ASSUME NEW r \in Rides, NEW crash \in BOOLEAN, RideService(r, crash)
      PROVE  TypeInv' /\ RideServiceKeeps
    BY <1>2, RideServiceStep
<1>3. ASSUME NEW r \in Rides, NEW crash \in BOOLEAN, Gateway(r, crash) \/ Wallet(r, crash)
      PROVE  TypeInv' /\ ConsumersKeep
    BY <1>3, GatewayStep, WalletStep
<1>4. ASSUME NEW r \in Rides, TimerFires(r) \/ Sweep(r) \/ Age(r)
      PROVE  TypeInv' /\ ClockKeeps
    BY <1>4, ClockStep
<1>5. CASE RideServiceDies \/ \E d \in Drivers : DriverOnline(d) \/ DriverOffline(d)
    BY <1>5, ClockStep
<1>6. ASSUME NEW r \in Rides, RiderRequests(r) \/ RiderCounters(r) \/ RiderCancels(r)
      PROVE  TypeInv' /\ AppsKeep
    BY <1>6, AppsStep
<1>7. ASSUME NEW r \in Rides, NEW d \in Drivers,
             \/ DriverBids(r, d) \/ DriverRejects(r, d) \/ DriverTravels(r, d)
             \/ AcceptChecks(r, d) \/ FlowAccepts(r, d)
      PROVE  TypeInv' /\ AppsKeep
    BY <1>7, AppsStep
<1>8. CASE GatewayDies \/ \E a \in accepts :
               AcceptHolds(a) \/ AcceptRefused(a) \/ AcceptPublishes(a) \/ AcceptFails(a)
    BY <1>8, AcceptStep
<1>9. QED
    BY <1>1, <1>2, <1>3, <1>4, <1>5, <1>6, <1>7, <1>8 DEF Next

LEMMA NextSecured ==
    ASSUME TypeInv, SecuredInv, [Next]_vars
    PROVE  SecuredInv'
<1> SUFFICES ASSUME NEW r \in Rides
             PROVE  Secured(r)'
    BY DEF SecuredInv
<1>1. /\ (\E t \in GivesUp : Queued(r, t)) => GivenUp(r)
      /\ hold[r] = "RELEASED" => GivenUp(r)
      /\ Committed(r) => Paid(r) \/ GivenUp(r)
      /\ hold[r] \in {"NONE", "ACTIVE", "RELEASED", "CHARGED"}
    BY DEF SecuredInv, Secured, TypeInv, TypeOK, Holds
<1>2. GivesUp \subseteq EventTypes /\ Commits \subseteq EventTypes
    BY DEF GivesUp, Commits, EventTypes
<1>3. lapsed \subseteq lapsed' => (GivenUp(r) => GivenUp(r)')
    BY DEF GivenUp
<1>4. CASE RideServiceKeeps
    <2>1. Paid(r)' <=> Paid(r)
        BY <1>4 DEF RideServiceKeeps, Paid
    <2>2. lapsed' = lapsed /\ hold' = hold /\ accepts' = accepts
        BY <1>4 DEF RideServiceKeeps
    <2>3. \A t \in GivesUp : Queued(r, t)' => Queued(r, t)
        BY <1>2, <1>4 DEF RideServiceKeeps, GivesUp
    <2>4. Committed(r)' => Committed(r)
        <3>1. \A t \in Commits : Queued(r, t)' => \E u \in Commits : Queued(r, u)
            BY <1>2, <1>4 DEF RideServiceKeeps, Commits
        <3>2. status'[r] \in Driven => Committed(r)
            BY <1>4 DEF RideServiceKeeps, Committed
        <3>3. (\E d \in Drivers : card'[r][d] = "trip") => Committed(r)
            BY <1>4 DEF RideServiceKeeps, Committed
        <3>4. QED
            BY <2>2, <3>1, <3>2, <3>3 DEF Committed
    <2>5. QED
        BY <1>1, <1>3, <2>1, <2>2, <2>3, <2>4 DEF Secured
<1>5. CASE ClockKeeps
    <2>1. UNCHANGED <<status, hold, accepts>> /\ (GivenUp(r) => GivenUp(r)')
        BY <1>3, <1>5 DEF ClockKeeps
    <2>2. \A t \in GivesUp : Queued(r, t)' => Queued(r, t) \/ GivenUp(r)'
        BY <1>2, <1>5 DEF ClockKeeps
    <2>3. Committed(r)' => Committed(r)
        <3>1. \A t \in Commits : Queued(r, t)' => Queued(r, t)
            BY <1>2, <1>5 DEF ClockKeeps, Commits
        <3>2. QED
            BY <1>5, <2>1, <3>1 DEF ClockKeeps, Committed
    <2>4. Paid(r)' <=> Paid(r)
        BY <2>1 DEF Paid
    <2>5. QED
        BY <1>1, <2>1, <2>2, <2>3, <2>4 DEF Secured
<1>6. CASE ConsumersKeep
    <2>1. /\ UNCHANGED status /\ accepts' \subseteq accepts /\ (GivenUp(r) => GivenUp(r)')
          /\ \A t \in EventTypes : Queued(r, t)' => Queued(r, t)
        BY <1>6 DEF ConsumersKeep, GivenUp
    <2>2. Committed(r)' => Committed(r)
        <3>1. \A d \in Drivers : card'[r][d] = "trip" => Committed(r)
            BY <1>6 DEF ConsumersKeep, Committed, Commits
        <3>2. QED
            BY <1>2, <2>1, <3>1 DEF Committed
    <2>3. /\ hold'[r] = "RELEASED" => GivenUp(r)
          /\ Paid(r) => Paid(r)' \/ GivenUp(r)
        BY <1>1, <1>6 DEF ConsumersKeep, Paid
    <2>4. QED
        BY <1>1, <1>2, <2>1, <2>2, <2>3 DEF Secured
<1>7. CASE AppsKeep
    <2>1. /\ UNCHANGED status /\ (GivenUp(r) => GivenUp(r)')
          /\ hold'[r] = "RELEASED" => GivenUp(r)
          /\ hold'[r] # "NONE" => Paid(r)' \/ GivenUp(r)
          /\ Paid(r) => Paid(r)'
        BY <1>1, <1>3, <1>7 DEF AppsKeep, Paid
    <2>2. \A t \in GivesUp : Queued(r, t)' => Queued(r, t) \/ GivenUp(r)'
        <3> SUFFICES ASSUME NEW t \in GivesUp, Queued(r, t)'
                     PROVE  Queued(r, t) \/ GivenUp(r)'
            OBVIOUS
        <3>1. t \in EventTypes /\ t \notin Commits /\ t \in Commits \cup GivesUp
            BY <1>2 DEF GivesUp, Commits
        <3>2. QED
            BY <1>7, <3>1 DEF AppsKeep
    <2>3. \A t \in Commits : Queued(r, t)' => Committed(r) \/ GivenUp(r)'
        <3>1. \A t \in Commits : t \notin GivesUp
            BY DEF GivesUp, Commits
        <3>2. QED
            BY <1>2, <1>7, <3>1 DEF AppsKeep, OnTheWay, Committed
    <2>4. (\E a \in accepts' : a.ride = r /\ a.held) => Committed(r) \/ hold'[r] # "NONE"
        BY <1>7 DEF AppsKeep, Committed
    <2>5. (\E d \in Drivers : card'[r][d] = "trip") => Committed(r)
        BY <1>7 DEF AppsKeep, Committed
    <2>6. Committed(r)' => Committed(r) \/ GivenUp(r)' \/ hold'[r] # "NONE"
        BY <2>1, <2>3, <2>4, <2>5 DEF Committed
    <2>7. QED
        BY <1>1, <2>1, <2>2, <2>6 DEF Secured
<1>8. QED
    BY <1>4, <1>5, <1>6, <1>7, NextKinds

LEMMA NextInv == IInv /\ [Next]_vars => IInv'
<1> SUFFICES ASSUME IInv, [Next]_vars
             PROVE  IInv'
    OBVIOUS
<1>1. TypeInv' /\ SecuredInv'
    BY NextKinds, NextSecured DEF IInv
<1>2. QED
    BY <1>1 DEF IInv

(* The rows, the queues, the auction's memory and the screens stay well    *)
(* typed, and an event about a driver names one, with every service free   *)
(* to die behind any of its handlers.                                      *)
THEOREM TypeCorrect == Spec => []TypeOK
<1>1. TypeInv => TypeOK
    BY DEF TypeInv
<1>2. IInv => TypeInv
    BY DEF IInv
<1>3. QED
    BY <1>1, <1>2, InitInv, NextInv, PTL DEF Spec

(* A driver who is assigned, has arrived, drives or is done has the fare   *)
(* held or charged, for any number of rides and drivers who bid for them,  *)
(* unless the ride was given up on the topic or accepted on the Flow       *)
(* screen.                                                                 *)
THEOREM FareBehindRide == Spec => []MatchedIsSecured
<1>1. IInv => MatchedIsSecured
    <2> SUFFICES ASSUME IInv, NEW r \in Rides, status[r] \in Driven, ~GivenUp(r)
                 PROVE  Paid(r)
        BY DEF MatchedIsSecured, GivenUp, Paid, Driven
    <2>1. Secured(r) /\ Committed(r)
        BY DEF IInv, SecuredInv, Committed
    <2>2. QED
        BY <2>1 DEF Secured
<1>2. QED
    BY <1>1, InitInv, NextInv, PTL DEF Spec

(***************************************************************************)
(* The clock.  A ride is early while its request waits or its auction is   *)
(* on: nothing of a driver under way is in a queue, on a screen or in the  *)
(* row then.  The request is the first event of a ride and is there once,  *)
(* so no auction starts over a ride that has a driver, unless the driver   *)
(* gave it up.                                                             *)
(***************************************************************************)
RequestWaits(r) == \E i \in 1..Len(queue["ride"][r]) : queue["ride"][r][i].type = "REQUESTED"
RequestIsFirst(r) ==
    \A i \in 1..Len(queue["ride"][r]) : queue["ride"][r][i].type = "REQUESTED" => i = 1

Early(r) == pending[r].on \/ RequestWaits(r)
Recalled(r) == <<r, "CANCELLED_BY_DRIVER">> \in lapsed
Leads == {"ASSIGNED", "ARRIVED", "STARTED"}

(* Nothing of the ride has happened. *)
Blank(r) ==
    /\ status[r] = "NONE" /\ ~pending[r].on
    /\ \A g \in Groups : queue[g][r] = <<>>
    /\ \A d \in Drivers : card[r][d] = "none"
    /\ \A a \in accepts : a.ride # r

OnItsWay(r) ==
    \/ status[r] \in Live
    \/ \E t \in Leads : Queued(r, t)
    \/ \E d \in Drivers : card[r][d] = "trip"

Timed(r) ==
    /\ rider[r] = "idle" => Blank(r)
    /\ RequestIsFirst(r)
    /\ timer[r] \in {"first", "again"} => pending[r].on
    /\ Queued(r, "CANCELLED_BY_DRIVER") => Recalled(r)
    /\ Early(r) /\ OnItsWay(r) => Recalled(r)

ClockInv == \A r \in Rides : Timed(r)

(* What a step leaves alone of the rides it is not about. *)
Aside(r) ==
    /\ status'[r] = status[r] /\ rider'[r] = rider[r]
    /\ card'[r] = card[r]
    /\ \A g \in Groups : queue'[g][r] = queue[g][r]
    /\ \A a \in accepts' : a.ride = r => \E c \in accepts : c.ride = r
    /\ pending'[r].on => pending[r].on
    /\ timer'[r] \in {"first", "again"} => pending'[r].on
    /\ lapsed \subseteq lapsed'

LEMMA AsideTimed ==
    ASSUME NEW r \in Rides, Timed(r), Aside(r)
    PROVE  Timed(r)'
<1>1. /\ \A t : Queued(r, t)' => Queued(r, t)
      /\ RequestWaits(r)' => RequestWaits(r)
      /\ RequestIsFirst(r)'
      /\ Recalled(r) => Recalled(r)'
      /\ Early(r)' => Early(r)
      /\ OnItsWay(r)' => OnItsWay(r)
    BY DEF Aside, Timed, Queued, RequestWaits, RequestIsFirst, Recalled, Early, OnItsWay, Groups
<1>2. (rider[r] = "idle" => Blank(r)) => (rider'[r] = "idle" => Blank(r)')
    BY DEF Aside, Blank
<1>3. QED
    BY <1>1, <1>2 DEF Timed, Aside


(* What a step does to the ride it is about. *)
Own(r) ==
    /\ rider'[r] # "idle"
    /\ RequestIsFirst(r)'
    /\ timer'[r] \in {"first", "again"} => pending'[r].on
    /\ Queued(r, "CANCELLED_BY_DRIVER")' =>
           Queued(r, "CANCELLED_BY_DRIVER") \/ Recalled(r)'
    /\ lapsed \subseteq lapsed'
    /\ Early(r)' /\ OnItsWay(r)' => (Early(r) /\ OnItsWay(r)) \/ Recalled(r)'

LEMMA OwnTimed ==
    ASSUME NEW r \in Rides, Timed(r), Own(r)
    PROVE  Timed(r)'
<1>1. Recalled(r) => Recalled(r)'
    BY DEF Own, Recalled
<1>2. QED
    BY <1>1 DEF Timed, Own

LEMMA RideTimed ==
    ASSUME ClockInv, NEW r \in Rides, Own(r), \A s \in Rides \ {r} : Aside(s)
    PROVE  ClockInv'
<1> SUFFICES ASSUME NEW s \in Rides
             PROVE  Timed(s)'
    BY DEF ClockInv
<1>1. QED
    BY OwnTimed, AsideTimed DEF ClockInv

(* A published event goes behind those of its ride. *)
LEMMA PublishTimed ==
    ASSUME TypeInv, NEW r \in Rides, NEW e \in Named, e.type # "REQUESTED", Publish(r, e)
    PROVE  /\ \A s \in Rides \ {r}, g \in Groups : queue'[g][s] = queue[g][s]
           /\ RequestIsFirst(r) => RequestIsFirst(r)'
           /\ RequestWaits(r)' => RequestWaits(r)
<1>1. queue \in Queues /\ queue' = Published(queue, r, e) /\ "ride" \in Groups
    BY DEF TypeInv, Publish, Groups
<1>2. \A i \in 1..Len(queue'["ride"][r]) :
          \/ i \in 1..Len(queue["ride"][r]) /\ queue'["ride"][r][i] = queue["ride"][r][i]
          \/ queue'["ride"][r][i] = e
    BY <1>1, PublishedTyped
<1>3. ASSUME NEW s \in Rides \ {r}, NEW g \in Groups
      PROVE  queue'[g][s] = queue[g][s]
    <2>1. queue[g] \in [Rides -> Seq(Named)]
        BY <1>1 DEF Queues
    <2>2. queue'[g] = queue[g] \/ \E x : queue'[g] = [queue[g] EXCEPT ![r] = x]
        BY <1>1 DEF Published
    <2>3. QED
        BY <2>1, <2>2
<1>4. QED
    BY <1>2, <1>3 DEF RequestIsFirst, RequestWaits

(* An event taken by ride-service leaves no request behind it. *)
LEMMA TakesTimed ==
    ASSUME TypeInv, NEW g \in Groups, NEW r \in Rides, NEW t \in EventTypes,
           NEW crash \in BOOLEAN, NEW out,
           out = <<>> \/ \E e \in Named : out = <<e>> /\ e.type # "REQUESTED",
           Takes(g, r, t, out, crash), Timed(r)
    PROVE  /\ rider[r] # "idle"
           /\ \A s \in Rides \ {r}, h \in Groups : queue'[h][s] = queue[h][s]
           /\ RequestIsFirst(r)'
           /\ RequestWaits(r)' => RequestWaits(r)
           /\ g = "ride" /\ t = "REQUESTED" => RequestWaits(r)
           /\ g = "ride" /\ t # "REQUESTED" => ~RequestWaits(r)'
<1> DEFINE kept == IF crash THEN queue ELSE [queue EXCEPT ![g][r] = Tail(@)]
<1>1. /\ queue \in Queues /\ queue[g][r] \in Seq(Named) /\ queue[g][r] # <<>>
      /\ "ride" \in Groups
    BY DEF TypeInv, Queues, Takes, Groups
<1>2. /\ Tail(queue[g][r]) \in Seq(Named)
      /\ 1 \in 1..Len(queue[g][r]) /\ queue[g][r][1].type = t
      /\ \A i \in 1..Len(Tail(queue[g][r])) :
             /\ i \in Nat \ {0} /\ i + 1 \in 1..Len(queue[g][r])
             /\ Tail(queue[g][r])[i] = queue[g][r][i + 1]
    BY <1>1 DEF Takes
<1>3. kept \in Queues
    BY <1>1, <1>2 DEF Queues
<1>4. \A h \in Groups, s \in Rides : s # r \/ h # g => kept[h][s] = queue[h][s]
    BY <1>1 DEF Queues
<1>5. kept[g][r] = queue[g][r] \/ kept[g][r] = Tail(queue[g][r])
    BY <1>1 DEF Queues
<1>6. queue' = kept \/ \E e \in Named : e.type # "REQUESTED" /\ queue' = Published(kept, r, e)
    BY DEF Takes
<1> HIDE DEF kept
<1>7. \A i \in 1..Len(kept["ride"][r]) : kept["ride"][r][i].type = "REQUESTED" =>
          i = 1 /\ RequestWaits(r) /\ (g = "ride" => t = "REQUESTED")
    <2> SUFFICES ASSUME NEW i \in 1..Len(kept["ride"][r]),
                        kept["ride"][r][i].type = "REQUESTED"
                 PROVE  i = 1 /\ RequestWaits(r) /\ (g = "ride" => t = "REQUESTED")
        OBVIOUS
    <2>1. CASE kept["ride"][r] = queue["ride"][r]
        BY <1>2, <2>1 DEF Timed, RequestIsFirst, RequestWaits
    <2>2. CASE kept["ride"][r] # queue["ride"][r]
        <3>1. g = "ride" /\ kept["ride"][r] = Tail(queue[g][r])
            BY <1>1, <1>4, <1>5, <2>2
        <3>2. /\ i \in Nat \ {0} /\ i + 1 \in 1..Len(queue["ride"][r])
              /\ queue["ride"][r][i + 1].type = "REQUESTED"
            BY <1>2, <3>1
        <3>3. i + 1 = 1
            BY <3>2 DEF Timed, RequestIsFirst
        <3>4. QED
            BY <3>2, <3>3
    <2>3. QED
        BY <2>1, <2>2
<1>8. ASSUME NEW i \in 1..Len(queue'["ride"][r]), queue'["ride"][r][i].type = "REQUESTED"
      PROVE  i \in 1..Len(kept["ride"][r]) /\ kept["ride"][r][i].type = "REQUESTED"
    <2>1. CASE queue' = kept
        BY <1>8, <2>1
    <2>2. ASSUME NEW e \in Named, e.type # "REQUESTED", queue' = Published(kept, r, e)
          PROVE  i \in 1..Len(kept["ride"][r]) /\ kept["ride"][r][i].type = "REQUESTED"
        BY <1>1, <1>3, <1>8, <2>2, PublishedTyped
    <2>3. QED
        BY <1>6, <2>1, <2>2
<1>9. ASSUME NEW s \in Rides \ {r}, NEW h \in Groups
      PROVE  queue'[h][s] = queue[h][s]
    <2>1. kept[h] \in [Rides -> Seq(Named)] /\ kept[h][s] = queue[h][s]
        BY <1>3, <1>4 DEF Queues
    <2>2. \/ queue'[h] = kept[h]
          \/ \E x : queue'[h] = [kept[h] EXCEPT ![r] = x]
        BY <1>6 DEF Published
    <2>3. QED
        BY <2>1, <2>2
<1>10. rider[r] # "idle"
    BY <1>1 DEF Timed, Blank
<1>11. g = "ride" /\ t = "REQUESTED" => RequestWaits(r)
    BY <1>2 DEF RequestWaits
<1>12. QED
    BY <1>7, <1>8, <1>9, <1>10, <1>11 DEF RequestIsFirst, RequestWaits

(* The memory after a handler: a clock runs over an auction only. *)
LEMMA RememberTimed ==
    ASSUME TypeInv, ClockInv, NEW r \in Rides, NEW match \in Matches, NEW armed,
           NEW crash \in BOOLEAN, armed \in {"first", "again"} => match.on,
           Remember(r, match, armed, crash)
    PROVE  /\ \A s \in Rides : timer'[s] \in {"first", "again"} => pending'[s].on
           /\ \A s \in Rides \ {r} : pending'[s].on => pending[s].on
           /\ pending'[r].on => match.on
<1>1. /\ pending \in [Rides -> Matches] /\ timer \in [Rides -> Timers]
      /\ \A s \in Rides : timer[s] \in {"first", "again"} => pending[s].on
    BY DEF TypeInv, TypeOK, Timers, ClockInv, Timed
<1>2. CASE crash
    BY <1>2 DEF Remember, NoMatch
<1>3. CASE ~crash
    BY <1>1, <1>3 DEF Remember
<1>4. QED
    BY <1>2, <1>3

LEMMA ForgetTimed ==
    ASSUME TypeInv, ClockInv, NEW r \in Rides, NEW crash \in BOOLEAN,
           Forget(r, crash) \/ Keep(r, crash)
    PROVE  /\ \A s \in Rides : timer'[s] \in {"first", "again"} => pending'[s].on
           /\ \A s \in Rides \ {r} : pending'[s].on => pending[s].on
           /\ pending'[r].on => pending[r].on
           /\ Forget(r, crash) => ~pending'[r].on
<1>1. /\ NoMatch \in Matches /\ ~NoMatch.on /\ pending[r] \in Matches
      /\ timer[r] \in {"first", "again"} => pending[r].on
    BY DEF NoMatch, Matches, TypeInv, TypeOK, ClockInv, Timed
<1>2. CASE Forget(r, crash)
    BY <1>1, <1>2, RememberTimed DEF Forget
<1>3. CASE Keep(r, crash) /\ ~Forget(r, crash)
    BY <1>1, <1>3, RememberTimed DEF Keep
<1>4. QED
    BY <1>2, <1>3

(* A handler of ride-service that leaves a driver's way as it was, or      *)
(* forgets the auction.                                                    *)
LEMMA HandlerTimed ==
    ASSUME TypeInv, ClockInv, NEW r \in Rides, NEW crash \in BOOLEAN, NEW t \in EventTypes,
           NEW out, out = <<>> \/ \E e \in Named : out = <<e>> /\ e.type \in {"ASSIGNED", "COMPLETED"},
           Takes("ride", r, t, out, crash),
           UNCHANGED <<rider, accepts, lapsed>>,
           \A s \in Rides \ {r} : status'[s] = status[s] /\ card'[s] = card[s],
           \A d \in Drivers : card'[r][d] = "trip" => card[r][d] = "trip",
           \A s \in Rides : timer'[s] \in {"first", "again"} => pending'[s].on,
           \A s \in Rides \ {r} : pending'[s].on => pending[s].on,
           \/ ~pending'[r].on /\ t # "REQUESTED"
           \/ Recalled(r)
           \/ /\ out = <<>> \/ Head(out).type = "COMPLETED"
              /\ pending'[r].on => pending[r].on \/ t = "REQUESTED"
              /\ status'[r] \in Live => status[r] \in Live \/ t \in Leads
    PROVE  ClockInv'
<1>1. "ride" \in Groups /\ Timed(r)
    BY DEF Groups, ClockInv
<1>2. out = <<>> \/ \E e \in Named : out = <<e>>
    OBVIOUS
<1>3. out # <<>> => Head(out).type \in {"ASSIGNED", "COMPLETED"}
    OBVIOUS
<1>4. /\ rider[r] # "idle"
      /\ \A s \in Rides \ {r}, h \in Groups : queue'[h][s] = queue[h][s]
      /\ RequestIsFirst(r)'
      /\ t = "REQUESTED" => RequestWaits(r)
      /\ t # "REQUESTED" => ~RequestWaits(r)'
      /\ RequestWaits(r)' => RequestWaits(r)
    <2>1. out = <<>> \/ \E e \in Named : out = <<e>> /\ e.type # "REQUESTED"
        OBVIOUS
    <2>2. QED
        BY <1>1, <2>1, TakesTimed
<1>5. /\ Queued(r, t)
      /\ \A u \in EventTypes : Queued(r, u)' =>
             Queued(r, u) \/ (out # <<>> /\ u = Head(out).type)
    BY <1>1, <1>2, TakesTyped
<1>6. Queued(r, "CANCELLED_BY_DRIVER")' => Queued(r, "CANCELLED_BY_DRIVER")
    BY <1>3, <1>5 DEF EventTypes
<1>7. Early(r)' /\ OnItsWay(r)' => (Early(r) /\ OnItsWay(r)) \/ Recalled(r)'
    <2> SUFFICES ASSUME Early(r)', OnItsWay(r)', ~Recalled(r)
                 PROVE  Early(r) /\ OnItsWay(r)
        BY DEF Recalled
    <2>1. /\ pending'[r].on \/ t = "REQUESTED"
          /\ out = <<>> \/ Head(out).type = "COMPLETED"
          /\ pending'[r].on => pending[r].on \/ t = "REQUESTED"
          /\ status'[r] \in Live => status[r] \in Live \/ t \in Leads
        BY <1>4 DEF Early
    <2>2. Early(r)
        BY <1>4, <2>1 DEF Early
    <2>3. \A u \in Leads : Queued(r, u)' => Queued(r, u)
        BY <1>5, <2>1 DEF Leads, EventTypes
    <2>4. OnItsWay(r)
        BY <1>5, <2>1, <2>3 DEF OnItsWay
    <2>5. QED
        BY <2>2, <2>4
<1>8. Own(r)
    BY <1>4, <1>6, <1>7 DEF Own
<1>9. \A s \in Rides \ {r} : Aside(s)
    BY <1>4 DEF Aside
<1>10. QED
    BY <1>8, <1>9, RideTimed

LEMMA OfferTimed ==
    ASSUME TypeInv, NEW r \in Rides, NEW shownTo, Offer(r, shownTo)
    PROVE  /\ \A s \in Rides \ {r} : card'[s] = card[s]
           /\ \A d \in Drivers : card'[r][d] = "trip" => card[r][d] = "trip"
<1>1. card \in [Rides -> [Drivers -> Cards]] /\ \E x : card' = [card EXCEPT ![r] = x]
    BY DEF TypeInv, TypeOK, Cards, Offer
<1>2. \A s \in Rides \ {r} : card'[s] = card[s]
    BY <1>1
<1>3. QED
    BY <1>2, OfferTyped DEF TypeInv

LEMMA RideServiceTimed ==
    ASSUME TypeInv, ClockInv, NEW r \in Rides, NEW crash \in BOOLEAN, RideService(r, crash)
    PROVE  ClockInv'
<1>0. /\ status \in [Rides -> Statuses] /\ pending \in [Rides -> Matches]
      /\ timer[r] \in {"first", "again"} => pending[r].on
      /\ "ride" \in Groups /\ Timed(r)
    BY DEF TypeInv, TypeOK, ClockInv, Timed, Groups
<1> DEFINE Elsewhere ==
        \A s \in Rides \ {r} : status'[s] = status[s] /\ card'[s] = card[s]
    CardsKept == \A d \in Drivers : card'[r][d] = "trip" => card[r][d] = "trip"
    Clocks == /\ \A s \in Rides : timer'[s] \in {"first", "again"} => pending'[s].on
              /\ \A s \in Rides \ {r} : pending'[s].on => pending[s].on
<1>1. CASE RideRequested(r, crash)
    <2>1. /\ Takes("ride", r, "REQUESTED", <<>>, crash)
          /\ status' = [status EXCEPT ![r] = "MATCHING"]
          /\ UNCHANGED <<rider, accepts, lapsed>>
        BY <1>1 DEF RideRequested, RideLeaves
    <2>2. PICK found \in SUBSET Drivers :
              /\ Remember(r, IF found = {} /\ pending[r].on THEN pending[r]
                             ELSE [on |-> TRUE, candidates |-> found, attempted |-> {}],
                          "first", crash)
              /\ Offer(r, found)
        <3>1. Nearby(r, NoDriver) \in SUBSET Drivers
            BY DEF Nearby
        <3>2. QED
            BY <1>1, <3>1 DEF RideRequested
    <2>3. PICK match \in Matches : match.on /\ Remember(r, match, "first", crash)
        <3>1. /\ [on |-> TRUE, candidates |-> found, attempted |-> {}] \in Matches
              /\ pending[r] \in Matches
            BY <1>0 DEF Matches
        <3>2. QED
            BY <2>2, <3>1
    <2>4. Clocks
        BY <2>3, RememberTimed
    <2>5. Elsewhere /\ CardsKept /\ status'[r] \notin Live
        BY <1>0, <2>1, <2>2, OfferTimed DEF Live
    <2>6. "REQUESTED" \in EventTypes
        BY DEF EventTypes
    <2>7. QED
        BY <2>1, <2>4, <2>5, <2>6, HandlerTimed
<1>2. CASE CounterOffer(r, crash) \/ RiderCounter(r, crash) \/ DriverRejected(r, crash)
    <2>1. PICK t \in {"COUNTER_OFFER", "RIDER_COUNTER", "REJECTED"} :
              /\ Takes("ride", r, t, <<>>, crash)
              /\ UNCHANGED <<status, rider, accepts, lapsed>>
              /\ UNCHANGED card \/ Offer(r, pending[r].candidates)
        BY <1>2 DEF CounterOffer, RiderCounter, DriverRejected, RideLeaves, rows
    <2>2. PICK match \in Matches, armed \in Timers :
              /\ match.on = pending[r].on
              /\ armed \in {"first", "again"} => pending[r].on
              /\ Remember(r, match, armed, crash)
        <3>1. timer[r] \in Timers /\ pending[r] \in Matches /\ {"off", "again"} \subseteq Timers
            BY DEF TypeInv, TypeOK, Timers
        <3>2. CASE CounterOffer(r, crash)
            BY <1>0, <3>1, <3>2 DEF CounterOffer
        <3>3. CASE RiderCounter(r, crash)
            BY <1>0, <3>1, <3>3 DEF RiderCounter
        <3>4. CASE DriverRejected(r, crash)
            <4> DEFINE d == TakenBy("ride", r)
                       match == IF pending[r].on
                                THEN [pending[r] EXCEPT !.candidates = @ \ {d},
                                                        !.attempted = @ \cup {d}]
                                ELSE NoMatch
            <4>1. Remember(r, match, timer[r], crash)
                BY <3>4 DEF DriverRejected
            <4>2. Takes("ride", r, "REJECTED", <<>>, crash) /\ "REJECTED" \in EventTypes \cap AboutDriver
                BY <3>4 DEF DriverRejected, EventTypes, AboutDriver
            <4>3. d \in Drivers
                BY <1>0, <4>2, TakesOnly
            <4> HIDE DEF d
            <4>4. match \in Matches /\ match.on = pending[r].on
                BY <3>1, <4>3 DEF Matches, NoMatch
            <4>5. QED
                BY <1>0, <3>1, <4>1, <4>4
        <3>5. QED
            BY <1>2, <3>2, <3>3, <3>4
    <2>3. Clocks /\ (pending'[r].on => pending[r].on)
        BY <2>2, RememberTimed
    <2>4. Elsewhere /\ CardsKept
        BY <2>1, OfferTimed
    <2>5. t \in EventTypes
        BY DEF EventTypes
    <2>6. QED
        BY <2>1, <2>3, <2>4, <2>5, HandlerTimed
<1>3. CASE OfferAccepted(r, crash)
    <2>1. PICK d \in Drivers :
              Takes("ride", r, "OFFER_ACCEPTED", <<Event("ASSIGNED", d)>>, crash)
        BY <1>3 DEF OfferAccepted
    <2> DEFINE e == Event("ASSIGNED", d)
    <2>2. e \in Named /\ e.type = "ASSIGNED" /\ "OFFER_ACCEPTED" \in EventTypes
        BY DEF Event, Events, EventTypes, Named
    <2>3. Takes("ride", r, "OFFER_ACCEPTED", <<e>>, crash)
        BY <2>1
    <2> HIDE DEF e
    <2>4. UNCHANGED <<status, card, rider, accepts, lapsed>> /\ Forget(r, crash)
        BY <1>3 DEF OfferAccepted, RideLeaves, rows
    <2>5. Clocks /\ ~pending'[r].on
        BY <2>4, ForgetTimed
    <2>6. QED
        BY <2>2, <2>3, <2>4, <2>5, HandlerTimed
<1>4. CASE \/ DriverAssigned(r, crash) \/ Progress(r, crash) \/ Completed(r, crash)
           \/ CancelledByRider(r, crash) \/ BidTimedOut(r, crash)
    <2>1. PICK t \in {"ASSIGNED", "ARRIVED", "STARTED", "COMPLETED", "CANCELLED_BY_RIDER",
                      "BID_TIMEOUT"} :
              /\ Takes("ride", r, t, <<>>, crash)
              /\ \/ status' = status
                 \/ status' \in {[status EXCEPT ![r] = "COMPLETED"],
                                 [status EXCEPT ![r] = "CANCELLED"]}
                 \/ t \in Leads /\ \E x \in Live : status' = [status EXCEPT ![r] = x]
        <3>1. {"ASSIGNED", "ARRIVED", "STARTED"} \subseteq Leads
              /\ {"DRIVER_ASSIGNED", "ARRIVED", "IN_PROGRESS"} \subseteq Live
            BY DEF Leads, Live
        <3>2. CASE DriverAssigned(r, crash)
            BY <3>1, <3>2 DEF DriverAssigned
        <3>3. CASE Progress(r, crash)
            BY <3>1, <3>3 DEF Progress
        <3>4. CASE Completed(r, crash) \/ CancelledByRider(r, crash) \/ BidTimedOut(r, crash)
            BY <3>4 DEF Completed, CancelledByRider, BidTimedOut, ExpireUnmatched
        <3>5. QED
            BY <1>4, <3>2, <3>3, <3>4
    <2>2. UNCHANGED <<card, rider, accepts, lapsed>> /\ (Forget(r, crash) \/ Keep(r, crash))
        BY <1>4 DEF DriverAssigned, Progress, Completed, CancelledByRider, BidTimedOut, RideLeaves
    <2>3. Clocks /\ (pending'[r].on => pending[r].on)
        BY <2>2, ForgetTimed
    <2>4. Elsewhere /\ (status'[r] \in Live => status[r] \in Live \/ t \in Leads)
        BY <1>0, <2>1, <2>2 DEF Live
    <2>5. t \in EventTypes
        BY DEF EventTypes
    <2>6. QED
        BY <2>1, <2>2, <2>3, <2>4, <2>5, HandlerTimed
<1>5. CASE CompletionRequested(r, crash)
    <2>1. /\ UNCHANGED <<status, card, rider, accepts, lapsed>> /\ Keep(r, crash)
        BY <1>5 DEF CompletionRequested, RideLeaves, rows
    <2>2. "COMPLETION_REQUESTED" \in EventTypes /\ "COMPLETED" \in EventTypes
        BY DEF EventTypes
    <2>3. TakenBy("ride", r) \in Drivers
        <3>1. /\ queue["ride"][r] \in Seq(Named) /\ queue["ride"][r] # <<>>
              /\ Head(queue["ride"][r]).type = "COMPLETION_REQUESTED"
            BY <1>0, <1>5 DEF CompletionRequested, Takes, TypeInv, Queues
        <3>2. QED
            BY <2>2, <3>1 DEF TakenBy, Events, Named, AboutDriver
    <2> DEFINE e == Event("COMPLETED", TakenBy("ride", r))
    <2>4. e \in Named /\ e.type = "COMPLETED"
        BY <2>2, <2>3, EventTyped
    <2>5. PICK out : /\ out = <<>> \/ out = <<e>>
                     /\ Takes("ride", r, "COMPLETION_REQUESTED", out, crash)
        BY <1>5 DEF CompletionRequested
    <2> HIDE DEF e
    <2>6. out = <<>> \/ Head(out).type = "COMPLETED"
        BY <2>4, <2>5
    <2>7. Clocks /\ (pending'[r].on => pending[r].on)
        BY <2>1, ForgetTimed
    <2>8. out = <<>> \/ \E x \in Named : out = <<x>> /\ x.type \in {"ASSIGNED", "COMPLETED"}
        BY <2>4, <2>5
    <2>9. QED
        BY <2>1, <2>2, <2>5, <2>6, <2>7, <2>8, HandlerTimed
<1>6. CASE CancelledByDriver(r, crash)
    <2>1. /\ Takes("ride", r, "CANCELLED_BY_DRIVER", <<>>, crash)
          /\ UNCHANGED <<rider, accepts, lapsed>>
          /\ "CANCELLED_BY_DRIVER" \in EventTypes \cap AboutDriver
        BY <1>6 DEF CancelledByDriver, RideLeaves, EventTypes, AboutDriver
    <2>2. PICK d \in Drivers : d = TakenBy("ride", r)
        BY <1>0, <2>1, TakesOnly
    <2>3. Recalled(r)
        BY <1>0, <2>1, TakesOnly DEF Timed
    <2>4. CASE status[r] \in {"NONE", "COMPLETED", "CANCELLED"}
        <3>1. Forget(r, crash) /\ UNCHANGED <<status, card>>
            BY <1>6, <2>2, <2>4 DEF CancelledByDriver
        <3>2. Clocks
            BY <3>1, ForgetTimed
        <3>3. QED
            BY <2>1, <2>3, <3>1, <3>2, HandlerTimed
    <2>5. CASE status[r] \notin {"NONE", "COMPLETED", "CANCELLED"}
        <3>1. status' = [status EXCEPT ![r] = "MATCHING"]
            BY <1>6, <2>2, <2>5 DEF CancelledByDriver
        <3>2. PICK found \in SUBSET Drivers :
                  /\ Remember(r, [on |-> TRUE, candidates |-> found, attempted |-> {d}],
                              "again", crash)
                  /\ Offer(r, found)
            <4>1. Nearby(r, d) \in SUBSET Drivers
                BY DEF Nearby
            <4>2. QED
                BY <1>6, <2>2, <2>5, <4>1 DEF CancelledByDriver
        <3>3. [on |-> TRUE, candidates |-> found, attempted |-> {d}] \in Matches
            BY DEF Matches
        <3>4. Clocks
            <4> DEFINE match == [on |-> TRUE, candidates |-> found, attempted |-> {d}]
            <4>1. match \in Matches /\ match.on /\ Remember(r, match, "again", crash)
                BY <3>2, <3>3
            <4> HIDE DEF match
            <4>2. QED
                BY <4>1, RememberTimed
        <3>5. Elsewhere /\ CardsKept
            BY <1>0, <3>1, <3>2, OfferTimed
        <3>6. QED
            BY <2>1, <2>3, <3>4, <3>5, HandlerTimed
    <2>6. QED
        BY <2>4, <2>5
<1>7. QED
    BY <1>1, <1>2, <1>3, <1>4, <1>5, <1>6 DEF RideService

(* The other consumers show a trip on an assignment, and start no auction. *)
LEMMA ConsumersTimed ==
    ASSUME TypeInv, ClockInv, NEW r \in Rides, NEW crash \in BOOLEAN,
           Gateway(r, crash) \/ Wallet(r, crash)
    PROVE  ClockInv'
<1>0. /\ {"gateway", "wallet"} \subseteq Groups /\ Timed(r) /\ ConsumersKeep
      /\ card \in [Rides -> [Drivers -> Cards]]
      /\ rider \in [Rides -> {"idle", "searching", "matched", "over"}]
      /\ \A s \in Rides : timer[s] \in {"first", "again"} => pending[s].on
    BY GatewayStep, WalletStep DEF Groups, ClockInv, Timed, TypeInv, TypeOK, Cards
<1>1. PICK g \in {"gateway", "wallet"}, t \in EventTypes : Takes(g, r, t, <<>>, crash)
    BY DEF Gateway, GatewayBidTimeout, GatewayAssigned, GatewayCancelled, GatewayCompleted,
           GatewayRejected, Wallet, EventTypes
<1>2. UNCHANGED <<pending, timer>>
    BY DEF Gateway, GatewayBidTimeout, GatewayAssigned, GatewayCancelled, GatewayCompleted,
           GatewayRejected, GatewayLeaves, Wallet, memory
<1>3. /\ rider[r] # "idle"
      /\ \A s \in Rides \ {r}, h \in Groups : queue'[h][s] = queue[h][s]
      /\ RequestIsFirst(r)'
      /\ RequestWaits(r)' => RequestWaits(r)
    BY <1>0, <1>1, TakesTimed
<1>4. \E x : rider' = [rider EXCEPT ![r] = x] /\ (x = "idle" => rider[r] = "idle")
    <2>1. rider = [rider EXCEPT ![r] = rider[r]]
        BY <1>0
    <2>2. CASE GatewayCancelled(r, crash)
        BY <2>2 DEF GatewayCancelled
    <2>3. CASE GatewayBidTimeout(r, crash)
        <3>1. rider' = [rider EXCEPT ![r] = "over"]
            BY <2>3 DEF GatewayBidTimeout
        <3>2. WITNESS "over"
        <3>3. QED
            BY <3>1
    <2>4. CASE GatewayAssigned(r, crash)
        <3>1. rider' = [rider EXCEPT ![r] = "matched"]
            BY <2>4 DEF GatewayAssigned
        <3>2. WITNESS "matched"
        <3>3. QED
            BY <3>1
    <2>5. CASE GatewayCompleted(r, crash)
        <3>1. rider' = [rider EXCEPT ![r] = "over"]
            BY <2>5 DEF GatewayCompleted
        <3>2. WITNESS "over"
        <3>3. QED
            BY <3>1
    <2>6. CASE GatewayRejected(r, crash) \/ Wallet(r, crash)
        <3>1. rider' = rider
            BY <2>6 DEF GatewayRejected, Wallet, apps
        <3>2. QED
            BY <2>1, <3>1
    <2>7. QED
        BY <2>2, <2>3, <2>4, <2>5, <2>6 DEF Gateway
<1>5. \E x : card' = [card EXCEPT ![r] = x]
    <2>1. card = [card EXCEPT ![r] = card[r]]
        BY <1>0
    <2>2. CASE GatewayCompleted(r, crash)
        <3>1. PICK d : card' = [card EXCEPT ![r][d] = "none"]
            BY <2>2 DEF GatewayCompleted
        <3>2. card' = [card EXCEPT ![r] = [card[r] EXCEPT ![d] = "none"]]
            BY <3>1
        <3>3. QED
            BY <3>2
    <2>3. CASE GatewayBidTimeout(r, crash) \/ GatewayAssigned(r, crash) \/ GatewayCancelled(r, crash)
        <3>1. \E d, shows : TellBidders(r, d, shows)
            BY <2>3 DEF GatewayBidTimeout, GatewayAssigned, GatewayCancelled
        <3>2. QED
            BY <3>1 DEF TellBidders
    <2>4. CASE GatewayRejected(r, crash) \/ Wallet(r, crash)
        BY <2>1, <2>4 DEF GatewayRejected, Wallet, apps
    <2>5. QED
        BY <2>2, <2>3, <2>4 DEF Gateway
<1>6. /\ rider'[r] # "idle"
      /\ \A s \in Rides \ {r} : rider'[s] = rider[s] /\ card'[s] = card[s]
    BY <1>0, <1>3, <1>4, <1>5
<1>7. Early(r)' /\ OnItsWay(r)' => Early(r) /\ OnItsWay(r)
    <2>1. Leads \subseteq EventTypes /\ "ASSIGNED" \in Leads
        BY DEF Leads, EventTypes
    <2>2. QED
        BY <1>0, <1>2, <1>3, <2>1 DEF Early, OnItsWay, ConsumersKeep
<1>8. Queued(r, "CANCELLED_BY_DRIVER")' => Queued(r, "CANCELLED_BY_DRIVER")
    BY <1>0 DEF ConsumersKeep, EventTypes
<1>9. Own(r)
    BY <1>0, <1>2, <1>3, <1>6, <1>7, <1>8 DEF Own, ConsumersKeep
<1>10. \A s \in Rides \ {r} : Aside(s)
    BY <1>0, <1>2, <1>3, <1>6 DEF Aside, ConsumersKeep
<1>11. QED
    BY <1>9, <1>10, RideTimed

(* What is published about a ride that is not blank, and is no request. *)
LEMMA PublishesTimed ==
    ASSUME TypeInv, ClockInv, NEW r \in Rides, NEW t \in EventTypes \ {"REQUESTED"},
           NEW d \in Drivers \cup {NoDriver}, t \in AboutDriver => d \in Drivers,
           Publish(r, Event(t, d)),
           rider[r] # "idle", UNCHANGED <<status, rider, pending>>, lapsed \subseteq lapsed',
           \A s \in Rides : timer'[s] = timer[s] \/ timer'[s] \notin {"first", "again"},
           \A s \in Rides \ {r} : card'[s] = card[s],
           \A c \in Drivers : card'[r][c] = "trip" => card[r][c] = "trip",
           accepts' \subseteq accepts,
           t \in Leads => \E c \in Drivers : card[r][c] = "trip",
           t = "CANCELLED_BY_DRIVER" => Recalled(r)'
    PROVE  ClockInv'
<1> DEFINE e == Event(t, d)
<1>1. /\ e \in Named /\ e.type = t /\ e.type # "REQUESTED" /\ Publish(r, e)
      /\ Timed(r) /\ \A s \in Rides : timer[s] \in {"first", "again"} => pending[s].on
    BY EventTyped DEF ClockInv, Timed
<1> HIDE DEF e
<1>2. /\ \A s \in Rides \ {r}, g \in Groups : queue'[g][s] = queue[g][s]
      /\ RequestIsFirst(r)'
      /\ RequestWaits(r)' => RequestWaits(r)
    BY <1>1, PublishTimed DEF Timed
<1>3. \A u \in EventTypes : Queued(r, u)' => Queued(r, u) \/ u = t
    BY PublishTyped
<1>4. Early(r)' /\ OnItsWay(r)' => Early(r) /\ OnItsWay(r)
    <2>1. Leads \subseteq EventTypes
        BY DEF Leads, EventTypes
    <2>2. QED
        BY <1>2, <1>3, <2>1 DEF Early, OnItsWay
<1>5. Queued(r, "CANCELLED_BY_DRIVER")' => Queued(r, "CANCELLED_BY_DRIVER") \/ Recalled(r)'
    BY <1>3 DEF EventTypes
<1>6. Own(r)
    BY <1>1, <1>2, <1>4, <1>5 DEF Own
<1>7. \A s \in Rides \ {r} : Aside(s)
    BY <1>1, <1>2 DEF Aside
<1>8. QED
    BY <1>6, <1>7, RideTimed

(* Timers, the sweep, the auction's memory, drivers who come and go. *)
LEMMA ClocksTimed ==
    ASSUME TypeInv, ClockInv,
           \/ \E r \in Rides : TimerFires(r) \/ Sweep(r) \/ Age(r)
           \/ \E d \in Drivers : DriverOnline(d) \/ DriverOffline(d)
           \/ RideServiceDies
    PROVE  ClockInv'
<1>0. /\ pending \in [Rides -> Matches] /\ timer \in [Rides -> Timers]
      /\ card \in [Rides -> [Drivers -> Cards]]
      /\ \A r \in Rides : Timed(r) /\ (timer[r] \in {"first", "again"} => pending[r].on)
    BY DEF ClockInv, Timed, TypeInv, TypeOK, Timers, Cards
<1>1. ASSUME NEW r \in Rides, TimerFires(r) \/ Sweep(r)
      PROVE  ClockInv'
    <2>1. /\ Publish(r, Event("BID_TIMEOUT", NoDriver))
          /\ Lapses(r, Event("BID_TIMEOUT", NoDriver))
          /\ UNCHANGED <<status, rider, pending, card, accepts>>
          /\ timer' = timer \/ timer' = [timer EXCEPT ![r] = "fired"]
        BY <1>1 DEF TimerFires, Sweep, memory, rows, apps
    <2>2. rider[r] # "idle"
        BY <1>0, <1>1 DEF TimerFires, Sweep, Stale, Timed, Blank
    <2>3. "BID_TIMEOUT" \in EventTypes \ {"REQUESTED"} /\ "BID_TIMEOUT" \notin AboutDriver \cup Leads
        BY DEF EventTypes, AboutDriver, Leads
    <2>4. \A s \in Rides : timer'[s] = timer[s] \/ timer'[s] \notin {"first", "again"}
        BY <1>0, <2>1
    <2>5. QED
        BY <2>1, <2>2, <2>3, <2>4, LapsesTyped, PublishesTimed
<1>2. ASSUME \A s \in Rides : Aside(s)
      PROVE  ClockInv'
    BY <1>2, AsideTimed DEF ClockInv
<1>3. ASSUME NEW r \in Rides, Age(r)
      PROVE  \A s \in Rides : Aside(s)
    BY <1>0, <1>3 DEF Age, Aside, rows, memory, apps
<1>4. ASSUME RideServiceDies
      PROVE  \A s \in Rides : Aside(s)
    BY <1>4 DEF RideServiceDies, Aside, NoMatch, rows, apps
<1>5. ASSUME NEW d \in Drivers, DriverOffline(d)
      PROVE  \A s \in Rides : Aside(s)
    <2>1. pending' = [s \in Rides |-> [pending[s] EXCEPT !.candidates = @ \ {d}]]
          /\ UNCHANGED <<status, queue, timer, accepts, card, rider, lapsed>>
        BY <1>5 DEF DriverOffline, apps
    <2>2. \A s \in Rides : pending'[s].on = pending[s].on
        BY <1>0, <2>1 DEF Matches
    <2>3. QED
        BY <1>0, <2>1, <2>2 DEF Aside
<1>6. ASSUME NEW d \in Drivers, DriverOnline(d)
      PROVE  ClockInv'
    <2>1. UNCHANGED <<status, queue, timer, accepts, rider, lapsed>>
        BY <1>6 DEF DriverOnline
    <2>2. PICK told \in SUBSET {s \in Rides : pending[s].on} :
              /\ pending' = [s \in Rides |->
                     IF s \in told THEN [pending[s] EXCEPT !.candidates = @ \cup {d}]
                     ELSE pending[s]]
              /\ card' = [s \in Rides |->
                     IF s \in told /\ card[s][d] = "none" THEN [card[s] EXCEPT ![d] = "offer"]
                     ELSE card[s]]
        BY <1>6 DEF DriverOnline
    <2>3. \A s \in Rides : pending'[s].on = pending[s].on
        BY <1>0, <2>2 DEF Matches
    <2>4. ASSUME NEW s \in Rides
          PROVE  Timed(s)'
        <3>1. CASE s \notin told
            <4>1. Aside(s)
                BY <1>0, <2>1, <2>2, <2>3, <3>1 DEF Aside
            <4>2. QED
                BY <1>0, <4>1, AsideTimed
        <3>2. CASE s \in told
            <4>1. rider[s] # "idle"
                BY <1>0, <2>2, <3>2 DEF Timed, Blank
            <4>2. \A c \in Drivers : card'[s][c] = "trip" => card[s][c] = "trip"
                <5>1. PICK old \in [Drivers -> Cards] : old = card[s]
                    BY <1>0
                <5>2. card'[s] = old \/ card'[s] = [old EXCEPT ![d] = "offer"]
                    BY <2>2, <5>1
                <5>3. QED
                    BY <5>1, <5>2
            <4>3. Own(s)
                BY <1>0, <2>1, <2>3, <4>1, <4>2
                DEF Own, Timed, RequestIsFirst, RequestWaits, Queued, Early, OnItsWay
            <4>4. QED
                BY <1>0, <4>3, OwnTimed
        <3>3. QED
            BY <3>1, <3>2
    <2>5. QED
        BY <2>4 DEF ClockInv
<1>7. QED
    BY <1>1, <1>2, <1>3, <1>4, <1>5, <1>6

(* The apps: what they send follows the request, and the driver's own      *)
(* messages follow the trip on the driver's screen.                        *)
LEMMA AppsTimed ==
    ASSUME TypeInv, ClockInv, NEW r \in Rides,
           \/ RiderRequests(r) \/ RiderCounters(r) \/ RiderCancels(r)
           \/ \E d \in Drivers :
                 \/ DriverBids(r, d) \/ DriverRejects(r, d) \/ DriverTravels(r, d)
                 \/ AcceptChecks(r, d) \/ FlowAccepts(r, d)
    PROVE  ClockInv'
<1>0. /\ card \in [Rides -> [Drivers -> Cards]] /\ driver[r] \in Drivers \cup {NoDriver}
      /\ rider \in [Rides -> {"idle", "searching", "matched", "over"}]
      /\ \A s \in Rides : Timed(s) /\ (timer[s] \in {"first", "again"} => pending[s].on)
    BY DEF ClockInv, Timed, TypeInv, TypeOK, Cards
<1>1. ASSUME NEW t \in EventTypes \ {"REQUESTED"}, NEW d \in Drivers \cup {NoDriver},
             t \in AboutDriver => d \in Drivers, Send(r, Event(t, d)), rider[r] # "idle",
             UNCHANGED rider, \A s \in Rides \ {r} : card'[s] = card[s],
             \A c \in Drivers : card'[r][c] = "trip" => card[r][c] = "trip",
             t \in Leads => \E c \in Drivers : card[r][c] = "trip"
      PROVE  ClockInv'
    <2>1. /\ Publish(r, Event(t, d)) /\ Lapses(r, Event(t, d))
          /\ UNCHANGED <<status, pending, timer, accepts>>
        BY <1>1 DEF Send, rows, memory
    <2>2. lapsed \subseteq lapsed' /\ (t = "CANCELLED_BY_DRIVER" => Recalled(r)')
        BY <2>1, LapsesTyped DEF Recalled, GivesUp
    <2>3. QED
        BY <1>1, <2>1, <2>2, PublishesTimed
<1>2. CASE RiderRequests(r)
    <2> DEFINE e == Event("REQUESTED", NoDriver)
    <2>1. "REQUESTED" \in EventTypes /\ "REQUESTED" \notin AboutDriver
        BY DEF EventTypes, AboutDriver
    <2>2. e \in Named /\ e.type = "REQUESTED"
        BY <2>1, EventTyped
    <2>3. /\ rider[r] = "idle" /\ rider' = [rider EXCEPT ![r] = "searching"]
          /\ queue' = Published(queue, r, e)
          /\ UNCHANGED <<status, pending, timer, accepts, card, lapsed>>
        BY <1>2 DEF RiderRequests, Publish, rows, memory
    <2> HIDE DEF e
    <2>4. Blank(r) /\ queue \in Queues /\ "ride" \in Groups
        BY <1>0, <2>3 DEF Timed, TypeInv, Groups
    <2>5. \A g \in Groups, s \in Rides : \A i \in 1..Len(queue'[g][s]) :
              \/ i \in 1..Len(queue[g][s]) /\ queue'[g][s][i] = queue[g][s][i]
              \/ s = r /\ queue'[g][s][i] = e
        BY <2>2, <2>3, <2>4, PublishedTyped
    <2>6. ASSUME NEW g \in Groups
          PROVE  /\ \A s \in Rides \ {r} : queue'[g][s] = queue[g][s]
                 /\ Len(queue'[g][r]) \in {0, 1}
        <3>1. queue[g] \in [Rides -> Seq(Named)] /\ queue[g][r] = <<>>
            BY <2>4 DEF Queues, Blank
        <3>2. queue'[g] = queue[g] \/ queue'[g] = [queue[g] EXCEPT ![r] = Append(queue[g][r], e)]
            BY <2>3 DEF Published
        <3>3. PICK old \in Seq(Named) : old = queue[g][r] /\ Len(old) = 0
            BY <3>1
        <3>4. Len(Append(old, e)) = 1
            BY <3>3
        <3>5. queue'[g][r] = old \/ queue'[g][r] = Append(old, e)
            BY <3>1, <3>2, <3>3
        <3>6. QED
            BY <3>1, <3>2, <3>3, <3>4, <3>5
    <2>7. RequestIsFirst(r)'
        BY <2>4, <2>6 DEF RequestIsFirst
    <2>8. \A u \in Leads \cup {"CANCELLED_BY_DRIVER"} : ~Queued(r, u)'
        BY <2>2, <2>4, <2>5 DEF Queued, Blank, Leads
    <2>9. ~OnItsWay(r)'
        BY <2>3, <2>4, <2>8 DEF OnItsWay, Blank, Live
    <2>10. Own(r)
        BY <1>0, <2>3, <2>7, <2>8, <2>9 DEF Own
    <2>11. \A s \in Rides \ {r} : Aside(s)
        BY <1>0, <2>3, <2>6 DEF Aside
    <2>12. QED
        BY <2>10, <2>11, RideTimed
<1>3. CASE RiderCounters(r) \/ RiderCancels(r)
    <2>1. PICK t \in {"RIDER_COUNTER", "CANCELLED_BY_RIDER"}, c \in Drivers \cup {NoDriver} :
              Send(r, Event(t, c))
        BY <1>0, <1>3 DEF RiderCounters, RiderCancels
    <2>2. t \in EventTypes \ {"REQUESTED"} /\ t \notin AboutDriver \cup Leads
        BY DEF EventTypes, AboutDriver, Leads
    <2>3. UNCHANGED <<rider, card>> /\ rider[r] # "idle"
        BY <1>3 DEF RiderCounters, RiderCancels, apps
    <2>4. QED
        BY <1>1, <2>1, <2>2, <2>3
<1>4. ASSUME NEW d \in Drivers, DriverBids(r, d) \/ DriverRejects(r, d) \/ DriverTravels(r, d)
      PROVE  ClockInv'
    <2>1. PICK t \in {"COUNTER_OFFER", "REJECTED", "ARRIVED", "STARTED", "COMPLETION_REQUESTED",
                      "CANCELLED_BY_DRIVER"} :
              /\ Send(r, Event(t, d)) /\ card[r][d] \in {"offer", "trip"}
              /\ t \in Leads => card[r][d] = "trip"
        BY <1>4 DEF DriverBids, DriverRejects, DriverTravels, Leads
    <2>2. rider[r] # "idle" /\ t \in EventTypes \ {"REQUESTED"}
        BY <1>0, <2>1 DEF Timed, Blank, EventTypes
    <2>3. UNCHANGED rider /\ (UNCHANGED card \/ card' = [card EXCEPT ![r][d] = "none"])
        BY <1>4 DEF DriverBids, DriverRejects, DriverTravels, apps
    <2>4. /\ \A s \in Rides \ {r} : card'[s] = card[s]
          /\ \A c \in Drivers : card'[r][c] = "trip" => card[r][c] = "trip"
        <3>1. PICK old \in [Drivers -> Cards] : old = card[r]
            BY <1>0
        <3>2. card' = card \/ card' = [card EXCEPT ![r] = [old EXCEPT ![d] = "none"]]
            BY <2>3, <3>1
        <3>3. QED
            BY <1>0, <3>1, <3>2
    <2>5. QED
        BY <1>1, <2>1, <2>2, <2>3, <2>4
<1>5. ASSUME NEW d \in Drivers, AcceptChecks(r, d)
      PROVE  ClockInv'
    <2>1. /\ rider[r] # "idle" /\ UNCHANGED <<status, rider, card, queue, pending, timer, lapsed>>
          /\ accepts' \subseteq accepts \cup {[ride |-> r, driver |-> d, held |-> FALSE]}
        BY <1>5 DEF AcceptChecks, rows, memory, apps
    <2>2. Own(r)
        BY <1>0, <2>1 DEF Own, Timed, RequestIsFirst, RequestWaits, Queued, Early, OnItsWay
    <2>3. \A s \in Rides \ {r} : Aside(s)
        BY <1>0, <2>1 DEF Aside
    <2>4. QED
        BY <2>2, <2>3, RideTimed
<1>6. ASSUME NEW d \in Drivers, FlowAccepts(r, d)
      PROVE  ClockInv'
    <2>1. /\ Publish(r, Event("OFFER_ACCEPTED", d)) /\ rider[r] # "idle"
          /\ UNCHANGED <<status, rider, card, pending, timer, accepts>>
          /\ lapsed \subseteq lapsed'
        BY <1>6 DEF FlowAccepts, rows, memory, apps
    <2>2. "OFFER_ACCEPTED" \in EventTypes \ {"REQUESTED"} /\ "OFFER_ACCEPTED" \notin Leads
        BY DEF EventTypes, Leads
    <2>3. QED
        BY <2>1, <2>2, PublishesTimed
<1>7. QED
    BY <1>2, <1>3, <1>4, <1>5, <1>6

LEMMA AcceptsTimed ==
    ASSUME TypeInv, ClockInv,
           GatewayDies \/ \E a \in accepts :
               AcceptHolds(a) \/ AcceptRefused(a) \/ AcceptPublishes(a) \/ AcceptFails(a)
    PROVE  ClockInv'
<1>0. /\ accepts \in SUBSET [ride : Rides, driver : Drivers, held : BOOLEAN]
      /\ \A s \in Rides : Timed(s) /\ (timer[s] \in {"first", "again"} => pending[s].on)
    BY DEF ClockInv, Timed, TypeInv, TypeOK
<1>1. ASSUME NEW a \in accepts, AcceptPublishes(a)
      PROVE  ClockInv'
    <2>1. PICK r \in Rides, d \in Drivers : r = a.ride /\ d = a.driver
        BY <1>0
    <2>2. /\ Publish(r, Event("OFFER_ACCEPTED", d)) /\ accepts' \subseteq accepts
          /\ UNCHANGED <<status, rider, card, pending, timer, lapsed>>
        BY <1>1, <2>1 DEF AcceptPublishes, rows, memory, apps
    <2>3. rider[r] # "idle"
        BY <1>0, <2>1 DEF Timed, Blank
    <2>4. "OFFER_ACCEPTED" \in EventTypes \ {"REQUESTED"} /\ "OFFER_ACCEPTED" \notin Leads
        BY DEF EventTypes, Leads
    <2>5. QED
        BY <2>2, <2>3, <2>4, PublishesTimed
<1>2. CASE ~\E a \in accepts : AcceptPublishes(a)
    <2>1. /\ UNCHANGED <<status, rider, card, queue, pending, timer>> /\ lapsed \subseteq lapsed'
          /\ \A b \in accepts' : \E c \in accepts : c.ride = b.ride
        <3>1. CASE GatewayDies
            BY <3>1, UnsentTyped DEF GatewayDies, rows, memory, apps
        <3>2. ASSUME NEW a \in accepts, AcceptHolds(a) \/ AcceptRefused(a)
              PROVE  <2>1
            <4>1. /\ accepts' \subseteq accepts \cup {[a EXCEPT !.held = TRUE]}
                  /\ [a EXCEPT !.held = TRUE].ride = a.ride
                BY <1>0, <3>2 DEF AcceptHolds, AcceptRefused
            <4>2. QED
                BY <3>2, <4>1 DEF AcceptHolds, AcceptRefused, rows, memory, apps
        <3>3. ASSUME NEW a \in accepts, AcceptFails(a)
              PROVE  <2>1
            <4>1. Unsent({a}) /\ {a} \in SUBSET accepts
                BY <3>3 DEF AcceptFails
            <4>2. QED
                BY <3>3, <4>1, UnsentTyped DEF AcceptFails, rows, memory, apps
        <3>4. QED
            BY <1>2, <3>1, <3>2, <3>3
    <2>2. \A s \in Rides : Aside(s)
        BY <1>0, <2>1 DEF Aside
    <2>3. QED
        BY <2>2, AsideTimed DEF ClockInv
<1>3. QED
    BY <1>1, <1>2

LEMMA NextTimed == TypeInv /\ ClockInv /\ [Next]_vars => ClockInv'
<1> SUFFICES ASSUME TypeInv, ClockInv, [Next]_vars
             PROVE  ClockInv'
    OBVIOUS
<1>1. CASE UNCHANGED vars
    <2>1. \A r \in Rides : Aside(r)
        BY <1>1 DEF Aside, ClockInv, Timed, vars, rows, memory, apps
    <2>2. QED
        BY <2>1, AsideTimed DEF ClockInv
<1>2. ASSUME NEW r \in Rides, NEW crash \in BOOLEAN,
             RideService(r, crash) \/ Gateway(r, crash) \/ Wallet(r, crash)
      PROVE  ClockInv'
    BY <1>2, RideServiceTimed, ConsumersTimed
<1>3. ASSUME NEW r \in Rides,
             \/ TimerFires(r) \/ Sweep(r) \/ Age(r)
             \/ RiderRequests(r) \/ RiderCounters(r) \/ RiderCancels(r)
      PROVE  ClockInv'
    BY <1>3, ClocksTimed, AppsTimed
<1>4. ASSUME NEW r \in Rides, NEW d \in Drivers,
             \/ DriverBids(r, d) \/ DriverRejects(r, d) \/ DriverTravels(r, d)
             \/ AcceptChecks(r, d) \/ FlowAccepts(r, d)
      PROVE  ClockInv'
    BY <1>4, AppsTimed
<1>5. CASE \/ GatewayDies \/ RideServiceDies
           \/ \E d \in Drivers : DriverOnline(d) \/ DriverOffline(d)
           \/ \E a \in accepts :
                  AcceptHolds(a) \/ AcceptRefused(a) \/ AcceptPublishes(a) \/ AcceptFails(a)
    BY <1>5, AcceptsTimed, ClocksTimed
<1>6. QED
    BY <1>1, <1>2, <1>3, <1>4, <1>5 DEF Next

(* No clock of an auction runs over a ride that has a driver, for any      *)
(* number of rides, drivers, messages and crashes, unless the driver gave  *)
(* the ride up.                                                            *)
THEOREM ClockStops == Spec => []ClockStopsOnceMatched
<1>1. Init => ClockInv
    <2>1. Init => \A r \in Rides : ~Early(r) /\ Blank(r) /\ RequestIsFirst(r)
        BY DEF Init, Early, Blank, RequestWaits, RequestIsFirst, NoMatch, Groups
    <2>2. Init => \A r \in Rides : ~Queued(r, "CANCELLED_BY_DRIVER") /\ timer[r] = "off"
        BY DEF Init, Queued
    <2>3. QED
        BY <2>1, <2>2 DEF ClockInv, Timed
<1>2. IInv /\ ClockInv /\ [Next]_vars => ClockInv'
    BY NextTimed DEF IInv
<1>3. ClockInv => ClockStopsOnceMatched
    BY DEF ClockInv, Timed, Early, OnItsWay, Recalled, ClockStopsOnceMatched
<1>4. QED
    BY <1>1, <1>2, <1>3, InitInv, NextInv, PTL DEF Spec

-----------------------------------------------------------------------------
(***************************************************************************)
(* Accounts.  AccountsInv says what every row, request, background job and *)
(* code may be between any two steps: an identity is one row's and only    *)
(* deletion takes it from it; what a request goes on with fits its step;   *)
(* the account a number's messages are served as is its writer's; and a    *)
(* code, in Redis, in a request that goes on, or in an inbox, was issued   *)
(* for one number.  A request whose code was judged right therefore has in *)
(* hand the number the code went to.                                       *)
(***************************************************************************)

(***************************************************************************)
(* Identities: an account keeps the one it came with until it is deleted.  *)
(***************************************************************************)
OneIdentity ==
    \A u, v \in Used : users[u].did = users[v].did => u = v
DeletedByItself ==
    \A u \in Used : users[u].did[1] = "deleted" => users[u].did = Deleted(u)
UsersInv == users \in [Rows -> Users \cup {None}] /\ OneIdentity /\ DeletedByItself

UsersGoOn ==
    Used \subseteq Used' /\ \A u \in Used : users'[u].did \in {users[u].did, Deleted(u)}

(* The account u is the writer of the number p, or was. *)
Writes(u, p) == users[u].did \in {Whatsapp(p), Deleted(u)}

AnsweredInv ==
    /\ answered \in [Phones -> Rows \cup {None}]
    /\ \A p \in Phones : answered[p] # None => answered[p] \in Used /\ Writes(answered[p], p)

JobsInv ==
    job \in [Jobs -> {Idle} \cup
                [at : {"va", "customer", "save", "account"}, row : Used, route : BOOLEAN] \cup
                [at : {"record"}, row : Used, route : BOOLEAN, va : Nat]]

(***************************************************************************)
(* Requests, by what they are about                                        *)
(***************************************************************************)
Entries == [code : Codes, phone : Phones, tries : Nat]
AccountKeys == {AccountKey(u) : u \in Used}
LoginKeys == {LoginKey(p) : p \in Phones}

SigningUp ==
    [at : {"signup", "create"}, email : Emails, role : Roles, phone : Phones \cup {None}]
Claiming ==
    [at : {"claim", "upgrade", "ensure", "wallet"}, row : Used, role : Roles,
     phone : Phones \cup {None}, upgrade : BOOLEAN]
Creating == [at : {"ensure", "publish", "wallet"}, row : Used, role : Roles, new : BOOLEAN]
SigningIn ==
    [at : {"social", "socialEmail", "socialCreate"}, did : {"google", "apple"} \X Emails,
     email : Emails \cup {None}, trusted : BOOLEAN, role : Roles]
SignedIn == [at : {"driver", "wallet"}, row : Used]
Writing == [at : {"onboard", "waCreate", "raced"}, from : Phones]
Served == {s \in [at : {"wallet"}, from : Phones, row : Used] : Writes(s.row, s.from)}
Resetting == [at : {"reset"}, email : Emails]
Hashing == [at : {"hash"}, row : Used]
AskSteps == {"count", "expire", "store", "deliver", "note", "undo", "uncount"}
AskingCode ==
    {s \in [at : AskSteps, key : Keys, phone : Phones, code : Codes \cup {None},
             verify : BOOLEAN] : s.at = "deliver" => s.code \in Codes}
Entering == [at : {"read"}, key : AccountKeys \cup LoginKeys, code : Enterable]
Checking ==
    [at : {"check"}, key : AccountKeys \cup LoginKeys, code : Enterable, entry : Entries]
LoggingIn ==
    [at : {"miss", "spend", "forgive", "resolve"}, key : LoginKeys, code : Enterable,
     entry : Entries]
Naming ==
    {s \in [at : {"write", "clear"}, key : AccountKeys, code : Enterable, entry : Entries] :
        s.code \in inbox[s.entry.phone]}

AccountRequests ==
    SigningUp \cup Claiming \cup Creating \cup SigningIn \cup SignedIn \cup Writing \cup Served
    \cup Resetting \cup Hashing
CodeRequests == AskingCode \cup Entering \cup Checking \cup LoggingIn \cup Naming

RequestsInv == req \in [Requests -> {Idle} \cup AccountRequests \cup CodeRequests]

(***************************************************************************)
(* Codes: wherever a code is, it is one number's.                          *)
(***************************************************************************)
CodesTyped ==
    /\ otp \in [Keys -> Entries \cup {None}]
    /\ twilio \in [Phones -> Codes \cup {None}]
    /\ inbox \in [Phones -> SUBSET Codes]
    /\ managed \in [Phones -> BOOLEAN]
    /\ issued \subseteq Codes

WithEntry == {"check", "miss", "spend", "forgive", "resolve", "write", "clear"}

HeldFor(c, p) ==
    \/ c \in inbox[p]
    \/ \E k \in Keys : otp[k] # None /\ otp[k].code = c /\ otp[k].phone = p
    \/ \E r \in Requests :
          \/ req[r].at \in WithEntry /\ req[r].entry.code = c /\ req[r].entry.phone = p
          \/ req[r].at = "deliver" /\ req[r].code = c /\ req[r].phone = p

OneNumberPerCode ==
    /\ \A c \in Codes, p \in Phones : HeldFor(c, p) => c \in issued
    /\ \A c \in Codes, p, q \in Phones : HeldFor(c, p) /\ HeldFor(c, q) => p = q

CodesInv ==
    /\ CodesTyped /\ OneNumberPerCode
    /\ \A p \in Phones : twilio[p] # None => twilio[p] \in inbox[p]

AccountsInv ==
    /\ UsersInv /\ AnsweredInv /\ JobsInv /\ RequestsInv /\ CodesInv
    /\ traffic \in Traffics

-----------------------------------------------------------------------------
(* Users *)

LEMMA SameUsers ==
    ASSUME UsersInv, users' = users
    PROVE  UsersInv' /\ UsersGoOn
BY DEF UsersInv, UsersGoOn, OneIdentity, DeletedByItself, Used

LEMMA UserTyped ==
    ASSUME UsersInv, NEW u \in Used
    PROVE  u \in Rows /\ users[u] \in Users /\ users[u] # None
BY DEF UsersInv, Used

(* A row is written: its identity stays, or is deleted. *)
LEMMA RowChanges ==
    ASSUME UsersInv, NEW u \in Used, NEW user \in Users,
           users' = [users EXCEPT ![u] = user], user.did \in {users[u].did, Deleted(u)}
    PROVE  UsersInv' /\ UsersGoOn
<1>1. u \in Rows /\ user # None
    BY UserTyped, NoneIsNoUser
<1>2. /\ users' \in [Rows -> Users \cup {None}]
      /\ \A v \in Rows : users'[v] = IF v = u THEN user ELSE users[v]
    BY <1>1 DEF UsersInv
<1>3. Used' = Used
    BY <1>1, <1>2 DEF Used
<1>4. UsersGoOn
    BY <1>2, <1>3 DEF UsersGoOn, Used
<1>5. DeletedByItself'
    BY <1>1, <1>2, <1>3 DEF UsersInv, DeletedByItself, Deleted, Used
<1>6. OneIdentity'
    <2>1. ASSUME NEW v \in Used, NEW w \in Used, users'[v].did = users'[w].did, v # w
          PROVE  FALSE
        <3>1. /\ users'[v].did = users[v].did \/ users'[v].did = Deleted(v)
              /\ users'[w].did = users[w].did \/ users'[w].did = Deleted(w)
            BY <1>4 DEF UsersGoOn
        <3>2. /\ users'[v].did[1] = "deleted" => users'[v].did = Deleted(v)
              /\ users'[w].did[1] = "deleted" => users'[w].did = Deleted(w)
            BY <1>3, <1>5 DEF DeletedByItself
        <3>3. Deleted(v)[1] = "deleted" /\ Deleted(w)[1] = "deleted" /\ Deleted(v) # Deleted(w)
            BY <2>1 DEF Deleted
        <3>4. users[v].did # users[w].did
            BY <2>1 DEF UsersInv, OneIdentity
        <3>5. QED
            BY <2>1, <3>1, <3>2, <3>3, <3>4
    <2>2. QED
        BY <1>3, <2>1 DEF OneIdentity
<1>7. QED
    BY <1>2, <1>4, <1>5, <1>6 DEF UsersInv

LEMMA NextRowIsFree ==
    ASSUME Used # Rows
    PROVE  NextRow \in Rows /\ NextRow \notin Used
<1>1. Rows \subseteq Nat
    <2>1. ASSUME NEW x \in 1 .. Cardinality(Rows)  PROVE x \in Nat
        OBVIOUS
    <2>2. QED
        BY <2>1, AccountsAssumption
<1>2. PICK free : free = Rows \ Used
    OBVIOUS
<1>3. free # {} /\ free \subseteq Nat
    BY <1>1, <1>2 DEF Used
<1>4. PICK u \in free : \A v \in free : u <= v
    <2>1. PICK R : IsWellFoundedOn(R, Nat) /\ \A x, y \in Nat : x < y => <<x, y>> \in R
        BY OrderOfNaturals, Zenon
    <2>2. PICK x \in free : \A y \in free : ~ (<<y, x>> \in R)
        BY <1>3, <2>1, MinimalElement, Zenon
    <2>3. \A y \in free : ~ (y < x)
        BY <1>3, <2>1, <2>2, Zenon
    <2>4. QED
        BY <1>3, <2>3
<1>5. u \in Rows /\ u \notin Used /\ \A v \in Rows : v < u => v \in Used
    BY <1>1, <1>2, <1>3, <1>4
<1>6. QED
    BY <1>5 DEF NextRow

LEMMA RowCreated ==
    ASSUME UsersInv, NEW d \in Identities, d[1] # "deleted", NEW e \in Emails \cup {None},
           NEW p \in Phones \cup {None}, NEW h \in BOOLEAN, NEW role \in Roles \cup {"RIDER"},
           Create(d, e, p, h, role)
    PROVE  /\ UsersInv' /\ UsersGoOn
           /\ NextRow \in Used' /\ users'[NextRow].did = d
<1>1. PICK u : u = NextRow
    OBVIOUS
<1>2. u \in Rows /\ u \notin Used
    BY <1>1, NextRowIsFree DEF Create
<1>3. PICK user : user = [did |-> d, email |-> e, phone |-> p, hash |-> h, role |-> role,
                          customer |-> FALSE]
    OBVIOUS
<1>4. user \in Users /\ user # None /\ user.did = d
    <2>1. user \in Users
        BY <1>3 DEF Users
    <2>2. user.did = d
        BY <1>3
    <2>3. QED
        BY <2>1, <2>2, NoneIsNoUser
<1>5. users' = [users EXCEPT ![u] = user]
    BY <1>1, <1>3 DEF Create
<1>6. /\ users' \in [Rows -> Users \cup {None}]
      /\ \A v \in Rows : users'[v] = IF v = u THEN user ELSE users[v]
    BY <1>2, <1>4, <1>5 DEF UsersInv
<1>7. Used' = Used \cup {u}
    BY <1>2, <1>4, <1>6 DEF Used
<1>8. UsersGoOn
    BY <1>2, <1>6, <1>7 DEF UsersGoOn, Used
<1>9. OneIdentity'
    <2>1. \A v \in Used : users[v].did # d
        BY DEF Create, Free, ByDid
    <2>2. QED
        BY <1>2, <1>4, <1>6, <1>7, <2>1 DEF UsersInv, OneIdentity, Used
<1>10. DeletedByItself'
    BY <1>2, <1>4, <1>6, <1>7 DEF UsersInv, DeletedByItself, Deleted, Used
<1>11. QED
    BY <1>1, <1>2, <1>4, <1>6, <1>7, <1>8, <1>9, <1>10 DEF UsersInv

-----------------------------------------------------------------------------
(* Requests: which form goes with which step *)

OpenRequests == {Idle} \cup AccountRequests \cup CodeRequests

LEMMA StepOfForm ==
    /\ Idle.at = "idle"
    /\ \A s \in SigningUp : s.at \in {"signup", "create"}
    /\ \A s \in Claiming : s.at \in {"claim", "upgrade", "ensure", "wallet"}
    /\ \A s \in Creating : s.at \in {"ensure", "publish", "wallet"}
    /\ \A s \in SigningIn : s.at \in {"social", "socialEmail", "socialCreate"}
    /\ \A s \in SignedIn : s.at \in {"driver", "wallet"}
    /\ \A s \in Writing : s.at \in {"onboard", "waCreate", "raced"}
    /\ \A s \in Served : s.at = "wallet"
    /\ \A s \in Resetting : s.at = "reset"
    /\ \A s \in Hashing : s.at = "hash"
    /\ \A s \in AskingCode : s.at \in AskSteps
    /\ \A s \in Entering : s.at = "read"
    /\ \A s \in Checking : s.at = "check"
    /\ \A s \in LoggingIn : s.at \in {"miss", "spend", "forgive", "resolve"}
    /\ \A s \in Naming : s.at \in {"write", "clear"}
<1>1. Idle.at = "idle"
    BY DEF Idle
<1>2. \A s \in SigningUp : s.at \in {"signup", "create"}
    BY DEF SigningUp
<1>3. \A s \in Claiming : s.at \in {"claim", "upgrade", "ensure", "wallet"}
    BY DEF Claiming
<1>4. \A s \in Creating : s.at \in {"ensure", "publish", "wallet"}
    BY DEF Creating
<1>5. \A s \in SigningIn : s.at \in {"social", "socialEmail", "socialCreate"}
    BY DEF SigningIn
<1>6. \A s \in SignedIn : s.at \in {"driver", "wallet"}
    BY DEF SignedIn
<1>7. \A s \in Writing : s.at \in {"onboard", "waCreate", "raced"}
    BY DEF Writing
<1>8. \A s \in Served : s.at = "wallet"
    BY DEF Served
<1>9. (\A s \in Resetting : s.at = "reset") /\ (\A s \in Hashing : s.at = "hash")
    BY DEF Resetting, Hashing
<1>10. \A s \in AskingCode : s.at \in AskSteps
    BY DEF AskingCode
<1>11. (\A s \in Entering : s.at = "read") /\ (\A s \in Checking : s.at = "check")
    BY DEF Entering, Checking
<1>12. \A s \in LoggingIn : s.at \in {"miss", "spend", "forgive", "resolve"}
    BY DEF LoggingIn
<1>13. \A s \in Naming : s.at \in {"write", "clear"}
    BY DEF Naming
<1>14. QED
    BY <1>1, <1>2, <1>3, <1>4, <1>5, <1>6, <1>7, <1>8, <1>9, <1>10, <1>11, <1>12, <1>13, Zenon

LEMMA FormOfStep ==
    ASSUME NEW s \in OpenRequests
    PROVE  /\ s.at \in {"signup", "create"} => s \in SigningUp
           /\ s.at \in {"claim", "upgrade"} => s \in Claiming
           /\ s.at = "ensure" => s \in Claiming \cup Creating
           /\ s.at = "publish" => s \in Creating
           /\ s.at \in {"social", "socialEmail", "socialCreate"} => s \in SigningIn
           /\ s.at = "driver" => s \in SignedIn
           /\ s.at = "wallet" => s \in Claiming \cup Creating \cup SignedIn \cup Served
           /\ s.at \in {"onboard", "waCreate", "raced"} => s \in Writing
           /\ s.at = "reset" => s \in Resetting
           /\ s.at = "hash" => s \in Hashing
           /\ s.at \in AskSteps => s \in AskingCode
           /\ s.at = "read" => s \in Entering
           /\ s.at = "check" => s \in Checking
           /\ s.at \in {"miss", "spend", "forgive", "resolve"} => s \in LoggingIn
           /\ s.at \in {"write", "clear"} => s \in Naming
<1>1. \/ s = Idle \/ s \in SigningUp \/ s \in Claiming \/ s \in Creating \/ s \in SigningIn
      \/ s \in SignedIn \/ s \in Writing \/ s \in Served \/ s \in Resetting \/ s \in Hashing
      \/ s \in AskingCode \/ s \in Entering \/ s \in Checking \/ s \in LoggingIn
      \/ s \in Naming
    BY DEF OpenRequests, AccountRequests, CodeRequests
<1>2. QED
    BY <1>1, StepOfForm DEF AskSteps

LEMMA RequestAt ==
    ASSUME RequestsInv, NEW r \in Requests
    PROVE  req[r] \in OpenRequests
BY DEF RequestsInv, OpenRequests

InboxGrows == \A p \in Phones : inbox[p] \subseteq inbox'[p]

LEMMA OpenStaysOpen ==
    ASSUME UsersGoOn, InboxGrows
    PROVE  OpenRequests \subseteq OpenRequests'
<1>1. Used \subseteq Used' /\ Enterable \subseteq Enterable' /\ AccountKeys \subseteq AccountKeys'
    BY DEF UsersGoOn, InboxGrows, Enterable, AccountKeys
<1>2. SigningUp' = SigningUp /\ SigningIn' = SigningIn /\ Writing' = Writing
      /\ Resetting' = Resetting /\ AskingCode' = AskingCode /\ Entries' = Entries
      /\ LoginKeys' = LoginKeys
    BY DEF SigningUp, SigningIn, Writing, Resetting, AskingCode, Entries, LoginKeys, Keys,
           AccountKey, LoginKey
<1>3. Claiming \subseteq Claiming' /\ Creating \subseteq Creating'
    BY <1>1 DEF Claiming, Creating
<1>4. SignedIn \subseteq SignedIn' /\ Hashing \subseteq Hashing'
    BY <1>1 DEF SignedIn, Hashing
<1>5. Served \subseteq Served'
    <2>1. ASSUME NEW s \in Served  PROVE s \in Served'
        <3>1. s \in [at : {"wallet"}, from : Phones, row : Used] /\ Writes(s.row, s.from)
            BY DEF Served
        <3>2. s.row \in Used
            BY <3>1
        <3>3. s \in [at : {"wallet"}, from : Phones, row : Used']
            BY <1>1, <3>1
        <3>4. Writes(s.row, s.from)'
            BY <3>1, <3>2 DEF Writes, UsersGoOn, Deleted, Whatsapp
        <3>5. QED
            BY <3>3, <3>4 DEF Served
    <2>2. QED
        BY <2>1
<1>6. Entering \subseteq Entering' /\ Checking \subseteq Checking'
    BY <1>1, <1>2 DEF Entering, Checking
<1>7. LoggingIn \subseteq LoggingIn'
    BY <1>1, <1>2 DEF LoggingIn
<1>8. Naming \subseteq Naming'
    <2>1. ASSUME NEW s \in Naming  PROVE s \in Naming'
        <3>1. /\ s \in [at : {"write", "clear"}, key : AccountKeys, code : Enterable,
                        entry : Entries]
              /\ s.code \in inbox[s.entry.phone]
            BY DEF Naming
        <3>2. s.entry \in Entries
            BY <3>1
        <3>3. s.entry.phone \in Phones
            BY <3>2 DEF Entries
        <3>4. s \in [at : {"write", "clear"}, key : AccountKeys', code : Enterable',
                     entry : Entries']
            BY <1>1, <1>2, <3>1
        <3>5. s.code \in inbox'[s.entry.phone]
            BY <3>1, <3>3 DEF InboxGrows
        <3>6. QED
            BY <3>4, <3>5 DEF Naming
    <2>2. QED
        BY <2>1
<1>9. QED
    BY <1>2, <1>3, <1>4, <1>5, <1>6, <1>7, <1>8 DEF OpenRequests, AccountRequests, CodeRequests

LEMMA RequestMoves ==
    ASSUME RequestsInv, UsersGoOn, InboxGrows, NEW r \in Requests, NEW s \in OpenRequests',
           req' = [req EXCEPT ![r] = s]
    PROVE  RequestsInv' /\ req'[r] = s /\ \A q \in Requests : q # r => req'[q] = req[q]
<1>1. req \in [Requests -> OpenRequests] /\ req' = [req EXCEPT ![r] = s]
    BY DEF RequestsInv, OpenRequests
<1>2. req' \in [Requests -> OpenRequests']
    BY <1>1, OpenStaysOpen
<1>3. RequestsInv'
    BY <1>2 DEF RequestsInv, OpenRequests
<1>4. QED
    BY <1>1, <1>3

LEMMA RequestsStay ==
    ASSUME RequestsInv, UsersGoOn, InboxGrows, req' = req
    PROVE  RequestsInv'
<1>1. req \in [Requests -> OpenRequests]
    BY DEF RequestsInv, OpenRequests
<1>2. req' \in [Requests -> OpenRequests']
    BY <1>1, OpenStaysOpen
<1>3. QED
    BY <1>2 DEF RequestsInv, OpenRequests

-----------------------------------------------------------------------------
(* Codes: what a step may add to where a code is *)

LEMMA HoldersShrink ==
    ASSUME OneNumberPerCode, issued \subseteq issued',
           \A c \in Codes, p \in Phones : HeldFor(c, p)' => HeldFor(c, p)
    PROVE  OneNumberPerCode'
BY DEF OneNumberPerCode

LEMMA HoldersGrow ==
    ASSUME OneNumberPerCode, NEW f \in Codes, NEW n \in Phones, f \notin issued,
           issued' = issued \cup {f},
           \A c \in Codes, p \in Phones : HeldFor(c, p)' => HeldFor(c, p) \/ (c = f /\ p = n)
    PROVE  OneNumberPerCode'
<1>1. ASSUME NEW c \in Codes, NEW p \in Phones, HeldFor(c, p)'  PROVE c \in issued'
    BY <1>1 DEF OneNumberPerCode
<1>2. ASSUME NEW c \in Codes, NEW p \in Phones, NEW q \in Phones, HeldFor(c, p)', HeldFor(c, q)'
      PROVE  p = q
    <2>1. HeldFor(c, p) \/ (c = f /\ p = n)
        BY <1>2
    <2>2. HeldFor(c, q) \/ (c = f /\ q = n)
        BY <1>2
    <2>3. HeldFor(c, p) => c # f
        BY DEF OneNumberPerCode
    <2>4. HeldFor(c, q) => c # f
        BY DEF OneNumberPerCode
    <2>5. QED
        BY <2>1, <2>2, <2>3, <2>4 DEF OneNumberPerCode
<1>3. QED
    BY <1>1, <1>2 DEF OneNumberPerCode

(* A request that does not touch Redis goes on without a code, or with the *)
(* entry it had.                                                           *)
Codeless(s) == s.at \notin WithEntry /\ s.at # "deliver"
SameEntry(s, t) == s.at \in WithEntry /\ t.at \in WithEntry /\ t.entry = s.entry

LEMMA CodesElsewhere ==
    ASSUME CodesInv, UNCHANGED codeVars, NEW r \in Requests, NEW s,
           req'[r] = s, \A q \in Requests : q # r => req'[q] = req[q],
           Codeless(s) \/ SameEntry(req[r], s)
    PROVE  CodesInv'
<1>1. /\ otp' = otp /\ twilio' = twilio /\ inbox' = inbox /\ managed' = managed
      /\ issued' = issued
    BY DEF codeVars
<1>2. ASSUME NEW c \in Codes, NEW p \in Phones, HeldFor(c, p)'  PROVE HeldFor(c, p)
    <2>1. CASE \E q \in Requests :
                 \/ req'[q].at \in WithEntry /\ req'[q].entry.code = c /\ req'[q].entry.phone = p
                 \/ req'[q].at = "deliver" /\ req'[q].code = c /\ req'[q].phone = p
        <3>1. PICK q \in Requests :
                 \/ req'[q].at \in WithEntry /\ req'[q].entry.code = c /\ req'[q].entry.phone = p
                 \/ req'[q].at = "deliver" /\ req'[q].code = c /\ req'[q].phone = p
            BY <2>1
        <3>2. CASE q = r
            <4>1. s.at \in WithEntry => s.at # "deliver"
                BY DEF WithEntry
            <4>2. SameEntry(req[r], s)
                BY <3>1, <3>2 DEF Codeless
            <4>3. QED
                BY <3>1, <3>2, <4>1, <4>2 DEF SameEntry, HeldFor
        <3>3. CASE q # r
            BY <3>1, <3>3 DEF HeldFor
        <3>4. QED
            BY <3>2, <3>3
    <2>2. QED
        BY <1>1, <1>2, <2>1 DEF HeldFor
<1>3. OneNumberPerCode'
    BY <1>1, <1>2, HoldersShrink DEF CodesInv
<1>4. QED
    BY <1>1, <1>3 DEF CodesInv, CodesTyped, Entries

-----------------------------------------------------------------------------
(* How requests go on *)

LEMMA AccountGoes ==
    ASSUME NEW s, NEW step
    PROVE  /\ s \in SigningUp /\ step = "create" => [s EXCEPT !.at = step] \in SigningUp
           /\ s \in Claiming /\ step \in {"upgrade", "ensure", "wallet"} =>
                 [s EXCEPT !.at = step] \in Claiming
           /\ s \in Creating /\ step \in {"publish", "wallet"} =>
                 [s EXCEPT !.at = step] \in Creating
           /\ s \in SigningIn /\ step \in {"socialEmail", "socialCreate"} =>
                 [s EXCEPT !.at = step] \in SigningIn
           /\ s \in SignedIn /\ step = "wallet" => [s EXCEPT !.at = step] \in SignedIn
           /\ s \in Writing /\ step \in {"waCreate", "raced"} =>
                 [s EXCEPT !.at = step] \in Writing
<1>1. s \in SigningUp /\ step = "create" => [s EXCEPT !.at = step] \in SigningUp
    BY DEF SigningUp
<1>2. s \in Claiming /\ step \in {"upgrade", "ensure", "wallet"} =>
         [s EXCEPT !.at = step] \in Claiming
    BY DEF Claiming
<1>3. s \in Creating /\ step \in {"publish", "wallet"} => [s EXCEPT !.at = step] \in Creating
    BY DEF Creating
<1>4. s \in SigningIn /\ step \in {"socialEmail", "socialCreate"} =>
         [s EXCEPT !.at = step] \in SigningIn
    BY DEF SigningIn
<1>5. s \in SignedIn /\ step = "wallet" => [s EXCEPT !.at = step] \in SignedIn
    BY DEF SignedIn
<1>6. s \in Writing /\ step \in {"waCreate", "raced"} => [s EXCEPT !.at = step] \in Writing
    BY DEF Writing
<1>7. QED
    BY <1>1, <1>2, <1>3, <1>4, <1>5, <1>6

LEMMA OpenForms ==
    /\ Idle \in OpenRequests /\ Codeless(Idle)
    /\ AccountRequests \subseteq OpenRequests /\ CodeRequests \subseteq OpenRequests
    /\ \A s \in AccountRequests : Codeless(s)
<1>1. /\ Idle \in OpenRequests
      /\ AccountRequests \subseteq OpenRequests /\ CodeRequests \subseteq OpenRequests
    BY DEF OpenRequests
<1>2. Codeless(Idle)
    BY StepOfForm DEF Codeless, WithEntry
<1>3. ASSUME NEW s \in AccountRequests  PROVE Codeless(s)
    <2>1. \/ s \in SigningUp \/ s \in Claiming \/ s \in Creating \/ s \in SigningIn
          \/ s \in SignedIn \/ s \in Writing \/ s \in Served \/ s \in Resetting \/ s \in Hashing
        BY DEF AccountRequests
    <2>2. s.at \in {"signup", "create", "claim", "upgrade", "ensure", "wallet", "publish", "social",
                   "socialEmail", "socialCreate", "driver", "onboard", "waCreate", "raced",
                   "reset", "hash"}
        BY <2>1, StepOfForm
    <2>3. QED
        BY <2>2 DEF Codeless, WithEntry
<1>4. \A s \in AccountRequests : Codeless(s)
    BY <1>3, Zenon
<1>5. QED
    BY <1>1, <1>2, <1>4, Zenon

LEMMA GotoMoves ==
    ASSUME NEW r \in Requests, NEW step, Goto(r, step)
    PROVE  req' = [req EXCEPT ![r] = [req[r] EXCEPT !.at = step]]
BY DEF Goto

JobForms ==
    {Idle} \cup
    [at : {"va", "customer", "save", "account"}, row : Used, route : BOOLEAN] \cup
    [at : {"record"}, row : Used, route : BOOLEAN, va : Nat]

LEMMA JobsStay ==
    ASSUME JobsInv, UsersGoOn, job' = job
    PROVE  JobsInv'
<1>1. Used \subseteq Used'
    BY DEF UsersGoOn
<1>2. JobForms \subseteq JobForms'
    BY <1>1 DEF JobForms
<1>3. job \in [Jobs -> JobForms]
    BY DEF JobsInv, JobForms
<1>4. job' \in [Jobs -> JobForms']
    BY <1>2, <1>3
<1>5. QED
    BY <1>4 DEF JobsInv, JobForms

LEMMA JobMoves ==
    ASSUME JobsInv, UsersGoOn, NEW j \in Jobs, NEW s \in JobForms', job' = [job EXCEPT ![j] = s]
    PROVE  JobsInv'
<1>1. Used \subseteq Used'
    BY DEF UsersGoOn
<1>2. JobForms \subseteq JobForms'
    BY <1>1 DEF JobForms
<1>3. job \in [Jobs -> JobForms]
    BY DEF JobsInv, JobForms
<1>4. job' \in [Jobs -> JobForms']
    BY <1>2, <1>3
<1>5. QED
    BY <1>4 DEF JobsInv, JobForms

LEMMA AnsweredStays ==
    ASSUME AnsweredInv, UsersGoOn, answered' = answered
    PROVE  AnsweredInv'
<1>1. ASSUME NEW p \in Phones, answered'[p] # None
      PROVE  answered'[p] \in Used' /\ Writes(answered[p], p)'
    <2>1. answered[p] \in Used /\ Writes(answered[p], p)
        BY <1>1 DEF AnsweredInv
    <2>2. QED
        BY <2>1 DEF UsersGoOn, Writes, Whatsapp, Deleted
<1>2. QED
    BY <1>1 DEF AnsweredInv

(* A step of a request that is about accounts *)
LEMMA AccountStep ==
    ASSUME AccountsInv, NEW r \in Requests, NEW s \in OpenRequests',
           req' = [req EXCEPT ![r] = s], Codeless(s) \/ SameEntry(req[r], s),
           UNCHANGED codeVars, traffic' = traffic, UsersInv', UsersGoOn, AnsweredInv', JobsInv'
    PROVE  AccountsInv'
<1>1. InboxGrows
    BY DEF InboxGrows, codeVars
<1>2. RequestsInv' /\ req'[r] = s /\ \A q \in Requests : q # r => req'[q] = req[q]
    BY <1>1, RequestMoves DEF AccountsInv
<1>3. CodesInv'
    BY <1>2, CodesElsewhere DEF AccountsInv
<1>4. QED
    BY <1>2, <1>3 DEF AccountsInv

LEMMA QuietStep ==
    ASSUME AccountsInv, NEW r \in Requests, NEW s, s = Idle \/ s \in AccountRequests,
           req' = [req EXCEPT ![r] = s],
           UNCHANGED codeVars, traffic' = traffic, users' = users, answered' = answered,
           job' = job
    PROVE  AccountsInv'
<1>1. UsersInv' /\ UsersGoOn
    BY SameUsers DEF AccountsInv
<1>2. AnsweredInv' /\ JobsInv'
    BY <1>1, AnsweredStays, JobsStay DEF AccountsInv
<1>3. InboxGrows
    BY DEF InboxGrows, codeVars
<1>4. s \in OpenRequests' /\ Codeless(s)
    BY <1>1, <1>3, OpenForms, OpenStaysOpen
<1>5. QED
    BY <1>1, <1>2, <1>4, AccountStep

(* A step of a request that writes a row it has in hand *)
LEMMA RowStep ==
    ASSUME AccountsInv, NEW r \in Requests, NEW s, s = Idle \/ s \in AccountRequests,
           req' = [req EXCEPT ![r] = s], UsersInv', UsersGoOn,
           UNCHANGED codeVars, traffic' = traffic, answered' = answered, job' = job
    PROVE  AccountsInv'
<1>2. AnsweredInv' /\ JobsInv'
    BY AnsweredStays, JobsStay DEF AccountsInv
<1>3. InboxGrows
    BY DEF InboxGrows, codeVars
<1>4. s \in OpenRequests' /\ Codeless(s)
    BY <1>3, OpenForms, OpenStaysOpen
<1>5. QED
    BY <1>2, <1>4, AccountStep

-----------------------------------------------------------------------------
(* Requests come *)

LEMMA NumbersArePhones ==
    ASSUME AccountsInv
    PROVE  Numbers \subseteq Phones
BY AccountsAssumption DEF AccountsInv, Numbers

LEMMA RequestComes ==
    ASSUME AccountsInv, NEW r \in Requests, NEW door, NEW s \in AccountRequests, Comes(r, door, s)
    PROVE  AccountsInv'
BY QuietStep DEF Comes, accountVars

LEMMA PeopleCome ==
    ASSUME AccountsInv, NEW r \in Requests,
           Signup(r) \/ GoogleSignIn(r) \/ AppleSignIn(r) \/ ResetPassword(r)
    PROVE  AccountsInv'
<1>1. CASE Signup(r)
    <2>1. PICK e \in Emails, role \in Roles, p \in Numbers \cup {None} :
             Comes(r, "signup", [at |-> "signup", email |-> e, role |-> role, phone |-> p])
        BY <1>1 DEF Signup
    <2>2. [at |-> "signup", email |-> e, role |-> role, phone |-> p] \in SigningUp
        BY NumbersArePhones DEF SigningUp
    <2>3. [at |-> "signup", email |-> e, role |-> role, phone |-> p] \in AccountRequests
        BY <2>2 DEF AccountRequests
    <2>4. QED
        BY <2>1, <2>3, RequestComes
<1>2. ASSUME NEW token, token.did \in {"google", "apple"} \X Emails,
             token.email \in Emails \cup {None}, token.trusted \in BOOLEAN, SignsIn(r, {token})
      PROVE  AccountsInv'
    <2>1. PICK role \in Roles :
             Comes(r, "social", [at |-> "social", did |-> token.did, email |-> token.email,
                                 trusted |-> token.trusted, role |-> role])
        BY <1>2 DEF SignsIn
    <2>2. [at |-> "social", did |-> token.did, email |-> token.email,
           trusted |-> token.trusted, role |-> role] \in SigningIn
        BY <1>2 DEF SigningIn
    <2>3. [at |-> "social", did |-> token.did, email |-> token.email,
           trusted |-> token.trusted, role |-> role] \in AccountRequests
        BY <2>2 DEF AccountRequests
    <2>4. QED
        BY <2>1, <2>3, RequestComes
<1>3. ASSUME NEW provider \in {"google", "apple"}, NEW e \in Emails,
             NEW email \in Emails \cup {None}, NEW v \in BOOLEAN,
             SignsIn(r, {Says(provider, e, email, v)})
      PROVE  AccountsInv'
    <2>1. /\ Says(provider, e, email, v).did \in {"google", "apple"} \X Emails
          /\ Says(provider, e, email, v).email \in Emails \cup {None}
          /\ Says(provider, e, email, v).trusted \in BOOLEAN
        BY DEF Says, Social
    <2>2. QED
        BY <1>2, <1>3, <2>1
<1>4. CASE GoogleSignIn(r)
    <2>1. PICK e \in Emails : SignsIn(r, GoogleSays(e))
        BY <1>4 DEF GoogleSignIn
    <2>2. PICK v \in BOOLEAN : SignsIn(r, {Says("google", e, e, v)})
        BY <2>1 DEF SignsIn, GoogleSays
    <2>3. QED
        BY <1>3, <2>2
<1>5. CASE AppleSignIn(r)
    <2>1. PICK e \in Emails : SignsIn(r, AppleSays(e))
        BY <1>5 DEF AppleSignIn
    <2>2. PICK email \in {e, None} : SignsIn(r, {Says("apple", e, email, TRUE)})
        BY <2>1 DEF SignsIn, AppleSays
    <2>3. QED
        BY <1>3, <2>2
<1>6. CASE ResetPassword(r)
    <2>1. PICK e \in Emails : Comes(r, "reset", [at |-> "reset", email |-> e])
        BY <1>6 DEF ResetPassword
    <2>2. [at |-> "reset", email |-> e] \in Resetting
        BY DEF Resetting
    <2>3. [at |-> "reset", email |-> e] \in AccountRequests
        BY <2>2 DEF AccountRequests
    <2>4. QED
        BY <2>1, <2>3, RequestComes
<1>7. QED
    BY <1>1, <1>4, <1>5, <1>6

LEMMA WriterComes ==
    ASSUME AccountsInv, NEW r \in Requests, NEW p \in Phones, Message(r, p)
    PROVE  AccountsInv'
<1>1. [at |-> "onboard", from |-> p] \in Writing
    BY DEF Writing
<1>2. [at |-> "onboard", from |-> p] \in AccountRequests
    BY <1>1 DEF AccountRequests
<1>3. QED
    BY <1>2, QuietStep DEF Message, accountVars, rest

-----------------------------------------------------------------------------
(* Accounts: each step of a request *)

LEMMA FormAt ==
    ASSUME AccountsInv, NEW r \in Requests
    PROVE  /\ At(r, "signup") \/ At(r, "create") => req[r] \in SigningUp
           /\ At(r, "claim") \/ At(r, "upgrade") => req[r] \in Claiming
           /\ At(r, "ensure") => req[r] \in Claiming \cup Creating
           /\ At(r, "publish") => req[r] \in Creating
           /\ At(r, "social") \/ At(r, "socialEmail") \/ At(r, "socialCreate") =>
                 req[r] \in SigningIn
           /\ At(r, "driver") => req[r] \in SignedIn
           /\ At(r, "wallet") => req[r] \in Claiming \cup Creating \cup SignedIn \cup Served
           /\ At(r, "onboard") \/ At(r, "waCreate") \/ At(r, "raced") => req[r] \in Writing
           /\ At(r, "reset") => req[r] \in Resetting
           /\ At(r, "hash") => req[r] \in Hashing
           /\ (\E step \in AskSteps : At(r, step)) => req[r] \in AskingCode
           /\ At(r, "read") => req[r] \in Entering
           /\ At(r, "check") => req[r] \in Checking
           /\ At(r, "miss") \/ At(r, "spend") \/ At(r, "forgive") \/ At(r, "resolve") =>
                 req[r] \in LoggingIn
           /\ At(r, "write") \/ At(r, "clear") => req[r] \in Naming
<1>1. req[r] \in OpenRequests
    BY RequestAt DEF AccountsInv
<1>2. QED
    BY <1>1, FormOfStep DEF At

LEMMA UsersByEmail ==
    ASSUME AccountsInv, NEW e, NEW u \in ByEmail(e)
    PROVE  u \in Used /\ users[u] \in Users
BY UserTyped DEF AccountsInv, ByEmail

LEMMA SignupFindsStep ==
    ASSUME AccountsInv, NEW r \in Requests, SignupFinds(r)
    PROVE  AccountsInv'
<1>1. req[r] \in SigningUp
    BY FormAt DEF SignupFinds
<1>2. UNCHANGED <<codeVars, traffic, users, answered, job>>
    BY DEF SignupFinds, accountVars, rest
<1>3. CASE Goto(r, "create")
    <2>1. [req[r] EXCEPT !.at = "create"] \in AccountRequests
        BY <1>1, AccountGoes DEF AccountRequests
    <2>2. QED
        BY <1>2, <1>3, <2>1, GotoMoves, QuietStep
<1>4. CASE Done(r)
    BY <1>2, <1>4, QuietStep DEF Done
<1>5. ASSUME NEW u \in ByEmail(req[r].email),
             req' = [req EXCEPT ![r] =
                       [at |-> "claim", row |-> u, role |-> req[r].role,
                        phone |-> IF users[u].phone = None THEN req[r].phone ELSE None,
                        upgrade |-> Drives(req[r].role) /\ users[u].role = "RIDER"]]
      PROVE  AccountsInv'
    <2>1. PICK s : s = [at |-> "claim", row |-> u, role |-> req[r].role,
                        phone |-> IF users[u].phone = None THEN req[r].phone ELSE None,
                        upgrade |-> Drives(req[r].role) /\ users[u].role = "RIDER"]
        OBVIOUS
    <2>2. u \in Used /\ req[r].role \in Roles /\ req[r].phone \in Phones \cup {None}
        BY <1>1, UsersByEmail DEF SigningUp
    <2>3. (Drives(req[r].role) /\ users[u].role = "RIDER") \in BOOLEAN
        OBVIOUS
    <2>4. s \in Claiming
        BY <2>1, <2>2, <2>3 DEF Claiming
    <2>5. s \in AccountRequests
        BY <2>4 DEF AccountRequests
    <2>6. QED
        BY <1>2, <1>5, <2>1, <2>5, QuietStep
<1>6. QED
    BY <1>3, <1>4, <1>5 DEF SignupFinds

LEMMA UserWritten ==
    ASSUME NEW user \in Users, NEW p \in Phones \cup {None}, NEW e \in Emails \cup {None},
           NEW h \in BOOLEAN, NEW role \in Roles \cup {"RIDER", "BOTH"}, NEW d \in Identities
    PROVE  /\ [user EXCEPT !.hash = h] \in Users /\ [user EXCEPT !.hash = h].did = user.did
           /\ [user EXCEPT !.phone = p] \in Users /\ [user EXCEPT !.phone = p].did = user.did
           /\ [user EXCEPT !.email = e] \in Users /\ [user EXCEPT !.email = e].did = user.did
           /\ [user EXCEPT !.role = role] \in Users /\ [user EXCEPT !.role = role].did = user.did
           /\ [user EXCEPT !.customer = TRUE] \in Users
           /\ [user EXCEPT !.customer = TRUE].did = user.did
           /\ [user EXCEPT !.did = d] \in Users /\ [user EXCEPT !.did = d].did = d
BY DEF Users

LEMMA ClaimStep ==
    ASSUME AccountsInv, NEW r \in Requests, Claim(r)
    PROVE  AccountsInv'
<1>1. /\ req[r] \in Claiming /\ UNCHANGED <<codeVars, traffic, answered, job>>
    BY FormAt DEF Claim, rest
<1>2. PICK u : u = req[r].row
    OBVIOUS
<1>3. u \in Used /\ req[r].phone \in Phones \cup {None} /\ UsersInv
    BY <1>1, <1>2 DEF Claiming, AccountsInv
<1>4. users[u] \in Users
    BY <1>3, UserTyped
<1>5. users[u].phone \in Phones \cup {None}
    BY <1>4 DEF Users
<1>6. PICK p : p = IF req[r].phone = None THEN users[u].phone ELSE req[r].phone
    OBVIOUS
<1>7. p \in Phones \cup {None}
    BY <1>3, <1>5, <1>6
<1>8. PICK user : user = [users[u] EXCEPT !.hash = TRUE]
    OBVIOUS
<1>9. user \in Users /\ user.did = users[u].did /\ user.phone = users[u].phone
    BY <1>4, <1>8 DEF Users
<1>10. [user EXCEPT !.phone = p] \in Users /\ [user EXCEPT !.phone = p].did = users[u].did
    BY <1>7, <1>9 DEF Users
<1>11. users' = [users EXCEPT ![u] = [user EXCEPT !.phone = p]]
    BY <1>2, <1>3, <1>6, <1>8, <1>9 DEF Claim, UsersInv, Used
<1>12. UsersInv' /\ UsersGoOn
    BY <1>3, <1>10, <1>11, RowChanges
<1>13. PICK step : step \in {"upgrade", "ensure", "wallet"} /\ Goto(r, step)
    BY DEF Claim
<1>14. [req[r] EXCEPT !.at = step] \in AccountRequests
    BY <1>1, <1>13, AccountGoes DEF AccountRequests
<1>15. QED
    BY <1>1, <1>12, <1>13, <1>14, GotoMoves, RowStep

LEMMA UpgradeStep ==
    ASSUME AccountsInv, NEW r \in Requests, Upgrade(r)
    PROVE  AccountsInv'
<1>1. /\ req[r] \in Claiming /\ UNCHANGED <<codeVars, traffic, answered, job>>
      /\ Goto(r, "ensure")
    BY FormAt DEF Upgrade, rest
<1>2. req[r].row \in Used /\ UsersInv
    BY <1>1 DEF Claiming, AccountsInv
<1>3. users[req[r].row] \in Users
    BY <1>2, UserTyped
<1>4. PICK user : user = [users[req[r].row] EXCEPT !.role = "BOTH"]
    OBVIOUS
<1>5. user \in Users /\ user.did = users[req[r].row].did
    BY <1>3, <1>4 DEF Users
<1>6. users' = [users EXCEPT ![req[r].row] = user]
    BY <1>4 DEF Upgrade
<1>7. UsersInv' /\ UsersGoOn
    BY <1>2, <1>5, <1>6, RowChanges
<1>8. [req[r] EXCEPT !.at = "ensure"] \in AccountRequests
    BY <1>1, AccountGoes DEF AccountRequests
<1>9. QED
    BY <1>1, <1>7, <1>8, GotoMoves, RowStep

LEMMA SetsPasswordStep ==
    ASSUME AccountsInv, NEW r \in Requests, SetsPassword(r)
    PROVE  AccountsInv'
<1>1. req[r] \in Hashing /\ UNCHANGED <<codeVars, traffic, answered, job>>
    BY FormAt DEF SetsPassword, rest
<1>2. req[r].row \in Used /\ UsersInv
    BY <1>1 DEF Hashing, AccountsInv
<1>3. users[req[r].row] \in Users
    BY <1>2, UserTyped
<1>4. PICK user : user = [users[req[r].row] EXCEPT !.hash = TRUE]
    OBVIOUS
<1>5. user \in Users /\ user.did = users[req[r].row].did
    BY <1>3, <1>4 DEF Users
<1>6. users' = [users EXCEPT ![req[r].row] = user]
    BY <1>4 DEF SetsPassword
<1>7. UsersInv' /\ UsersGoOn
    BY <1>2, <1>5, <1>6, RowChanges
<1>8. QED
    BY <1>1, <1>7, RowStep DEF SetsPassword, Done

LEMMA LocalIdentity ==
    ASSUME NEW u \in Rows
    PROVE  Local(u) \in Identities /\ Local(u)[1] # "deleted"
BY DEF Local, Identities

LEMMA SignupCreatesStep ==
    ASSUME AccountsInv, NEW r \in Requests, SignupCreates(r)
    PROVE  AccountsInv'
<1>1. /\ req[r] \in SigningUp /\ UNCHANGED <<codeVars, traffic, answered, job>>
    BY FormAt DEF SignupCreates, rest
<1>2. /\ req[r].email \in Emails /\ req[r].role \in Roles /\ req[r].phone \in Phones \cup {None}
    BY <1>1 DEF SigningUp
<1>3. CASE Done(r) /\ UNCHANGED users
    BY <1>1, <1>3, QuietStep DEF Done
<1>4. CASE /\ Create(Local(NextRow), req[r].email, req[r].phone, TRUE, req[r].role)
           /\ req' = [req EXCEPT ![r] =
                [at |-> IF Drives(req[r].role) THEN "ensure" ELSE "publish",
                 row |-> NextRow, role |-> req[r].role, new |-> TRUE]]
    <2>1. NextRow \in Rows
        BY <1>4, NextRowIsFree DEF Create
    <2>2. UsersInv' /\ UsersGoOn /\ NextRow \in Used'
        BY <1>2, <1>4, <2>1, LocalIdentity, RowCreated DEF AccountsInv
    <2>3. PICK s : s = [at |-> IF Drives(req[r].role) THEN "ensure" ELSE "publish",
                        row |-> NextRow, role |-> req[r].role, new |-> TRUE]
        OBVIOUS
    <2>4. s \in Creating'
        BY <1>2, <2>2, <2>3 DEF Creating
    <2>5. s.at \in {"ensure", "publish"}
        BY <2>3
    <2>6. s \in OpenRequests' /\ Codeless(s)
        BY <2>4, <2>5 DEF OpenRequests, AccountRequests, Codeless, WithEntry
    <2>7. AnsweredInv' /\ JobsInv'
        BY <1>1, <2>2, AnsweredStays, JobsStay DEF AccountsInv
    <2>8. QED
        BY <1>1, <1>4, <2>2, <2>3, <2>6, <2>7, AccountStep
<1>5. QED
    BY <1>3, <1>4 DEF SignupCreates

LEMMA EnsureDriverStep ==
    ASSUME AccountsInv, NEW r \in Requests,
           EnsureDriver(r) \/ PublishCreated(r) \/ CreateDriver(r)
    PROVE  AccountsInv'
<1>1. UNCHANGED <<codeVars, traffic, users, answered, job>>
    BY DEF EnsureDriver, PublishCreated, CreateDriver, restButFaults, accountVars
<1>2. CASE Done(r)
    BY <1>1, <1>2, QuietStep DEF Done
<1>3. CASE EnsureDriver(r) /\ ~Done(r)
    <2>1. PICK step \in {"publish", "wallet"} : Goto(r, step)
        BY <1>3 DEF EnsureDriver
    <2>2. req[r] \in Claiming \cup Creating
        BY <1>3, FormAt DEF EnsureDriver
    <2>3. req[r] \in Claiming => step = "wallet"
        <3>1. req[r] \in Claiming => "new" \notin DOMAIN req[r]
            BY DEF Claiming
        <3>2. CASE "new" \in DOMAIN req[r]
            BY <3>1, <3>2
        <3>3. CASE "new" \notin DOMAIN req[r]
            <4>1. Goto(r, "wallet")
                BY <1>3, <3>3 DEF EnsureDriver
            <4>2. req[r] \in Claiming =>
                     req'[r].at = step /\ req'[r].at = "wallet"
                BY <2>1, <4>1 DEF Goto, Claiming, AccountsInv, RequestsInv
            <4>3. QED
                BY <4>2
        <3>4. QED
            BY <3>2, <3>3
    <2>4. [req[r] EXCEPT !.at = step] \in AccountRequests
        BY <2>1, <2>2, <2>3, AccountGoes DEF AccountRequests
    <2>5. QED
        BY <1>1, <2>1, <2>4, GotoMoves, QuietStep
<1>4. CASE PublishCreated(r) /\ ~Done(r)
    <2>1. Goto(r, "wallet") /\ req[r] \in Creating
        BY <1>4, FormAt DEF PublishCreated
    <2>2. [req[r] EXCEPT !.at = "wallet"] \in AccountRequests
        BY <2>1, AccountGoes DEF AccountRequests
    <2>3. QED
        BY <1>1, <2>1, <2>2, GotoMoves, QuietStep
<1>5. CASE CreateDriver(r) /\ ~Done(r)
    <2>1. Goto(r, "wallet") /\ req[r] \in SignedIn
        BY <1>5, FormAt DEF CreateDriver
    <2>2. [req[r] EXCEPT !.at = "wallet"] \in AccountRequests
        BY <2>1, AccountGoes DEF AccountRequests
    <2>3. QED
        BY <1>1, <2>1, <2>2, GotoMoves, QuietStep
<1>6. QED
    BY <1>2, <1>3, <1>4, <1>5

LEMMA JobSpawned ==
    ASSUME JobsInv, UsersGoOn, NEW u \in Used, Spawned(u)
    PROVE  JobsInv'
<1>1. PICK j \in Jobs : job' = [job EXCEPT ![j] = [at |-> "va", row |-> u, route |-> FALSE]]
    BY DEF Spawned
<1>2. u \in Used'
    BY DEF UsersGoOn
<1>3. [at |-> "va", row |-> u, route |-> FALSE] \in JobForms'
    BY <1>2 DEF JobForms
<1>4. QED
    BY <1>1, <1>3, JobMoves

LEMMA EnsureWalletStep ==
    ASSUME AccountsInv, NEW r \in Requests, EnsureWallet(r)
    PROVE  AccountsInv'
<1>1. UNCHANGED <<codeVars, traffic, users>> /\ Done(r)
    BY DEF EnsureWallet, restButFaults
<1>2. req[r] \in Claiming \cup Creating \cup SignedIn \cup Served
    BY FormAt DEF EnsureWallet
<1>3. /\ req[r].row \in Used
      /\ "from" \in DOMAIN req[r] => req[r] \in Served
    <2>1. req[r] \in Claiming => req[r].row \in Used /\ "from" \notin DOMAIN req[r]
        BY DEF Claiming
    <2>2. req[r] \in Creating => req[r].row \in Used /\ "from" \notin DOMAIN req[r]
        BY DEF Creating
    <2>3. req[r] \in SignedIn => req[r].row \in Used /\ "from" \notin DOMAIN req[r]
        BY DEF SignedIn
    <2>4. req[r] \in Served => req[r].row \in Used
        BY DEF Served
    <2>5. QED
        BY <1>2, <2>1, <2>2, <2>3, <2>4
<1>4. UsersInv' /\ UsersGoOn
    BY <1>1, SameUsers DEF AccountsInv
<1>5. JobsInv'
    BY <1>3, <1>4, JobsStay, JobSpawned DEF AccountsInv, EnsureWallet
<1>6. AnsweredInv'
    <2>1. CASE answered' = answered
        BY <1>4, <2>1, AnsweredStays DEF AccountsInv
    <2>2. CASE answered' = [answered EXCEPT ![req[r].from] = req[r].row] /\ req[r] \in Served
        <3>1. PICK p, u : p = req[r].from /\ u = req[r].row
            OBVIOUS
        <3>2. p \in Phones /\ u \in Used /\ Writes(u, p)
            BY <2>2, <3>1 DEF Served
        <3>3. /\ answered' \in [Phones -> Rows \cup {None}]
              /\ \A q \in Phones : answered'[q] = IF q = p THEN u ELSE answered[q]
            BY <2>2, <3>1, <3>2 DEF AccountsInv, AnsweredInv, Used
        <3>4. ASSUME NEW q \in Phones, answered'[q] # None
              PROVE  answered'[q] \in Used /\ Writes(answered'[q], q)
            BY <3>2, <3>3, <3>4 DEF AccountsInv, AnsweredInv
        <3>5. ASSUME NEW q \in Phones, answered'[q] # None
              PROVE  answered'[q] \in Used' /\ Writes(answered[q], q)'
            BY <1>1, <3>4, <3>5 DEF Used, Writes, Whatsapp, Deleted
        <3>6. QED
            BY <3>3, <3>5 DEF AnsweredInv
    <2>3. QED
        BY <1>3, <2>1, <2>2 DEF EnsureWallet
<1>7. Idle \in OpenRequests' /\ Codeless(Idle)
    BY OpenForms DEF OpenRequests
<1>8. QED
    BY <1>1, <1>4, <1>5, <1>6, <1>7, AccountStep DEF Done

LEMMA ServeStep ==
    ASSUME AccountsInv, NEW r \in Requests, NEW u \in Used, Serve(r, u)
    PROVE  AccountsInv'
<1>1. UNCHANGED <<codeVars, traffic, users, answered>> /\ Done(r) /\ Spawned(u)
    BY DEF Serve, rest
<1>2. UsersInv' /\ UsersGoOn
    BY <1>1, SameUsers DEF AccountsInv
<1>3. JobsInv' /\ AnsweredInv'
    BY <1>1, <1>2, JobSpawned, AnsweredStays DEF AccountsInv
<1>4. Idle \in OpenRequests' /\ Codeless(Idle)
    BY OpenForms DEF OpenRequests
<1>5. QED
    BY <1>1, <1>2, <1>3, <1>4, AccountStep DEF Done

LEMMA SocialFindsStep ==
    ASSUME AccountsInv, NEW r \in Requests, SocialFinds(r) \/ SocialLinks(r)
    PROVE  AccountsInv'
<1>1. req[r] \in SigningIn
    BY FormAt DEF SocialFinds, SocialLinks
<1>2. CASE \E u \in Used : Serve(r, u)
    BY <1>2, ServeStep
<1>3. CASE /\ UNCHANGED <<accountVars, rest>>
           /\ \E step \in {"socialEmail", "socialCreate"} : Goto(r, step)
    <2>1. PICK step \in {"socialEmail", "socialCreate"} : Goto(r, step)
        BY <1>3
    <2>2. [req[r] EXCEPT !.at = step] \in AccountRequests
        BY <1>1, AccountGoes DEF AccountRequests
    <2>3. UNCHANGED <<codeVars, traffic, users, answered, job>>
        BY <1>3 DEF accountVars, rest
    <2>4. QED
        BY <2>1, <2>2, <2>3, GotoMoves, QuietStep
<1>4. \A d : ByDid(d) \subseteq Used
    BY DEF ByDid
<1>5. \A e : ByEmail(e) \subseteq Used
    BY DEF ByEmail
<1>6. CASE SocialFinds(r)
    <2>1. CASE ByDid(req[r].did) # {}
        <3>1. PICK u \in ByDid(req[r].did) : Serve(r, u)
            BY <1>6, <2>1 DEF SocialFinds
        <3>2. QED
            BY <1>2, <1>4, <3>1
    <2>2. CASE ByDid(req[r].did) = {}
        BY <1>3, <1>6, <2>2 DEF SocialFinds
    <2>3. QED
        BY <2>1, <2>2
<1>7. CASE SocialLinks(r)
    <2>1. CASE ByEmail(req[r].email) # {}
        <3>1. PICK u \in ByEmail(req[r].email) : Serve(r, u)
            BY <1>7, <2>1 DEF SocialLinks
        <3>2. QED
            BY <1>2, <1>5, <3>1
    <2>2. CASE ByEmail(req[r].email) = {}
        BY <1>3, <1>7, <2>2 DEF SocialLinks
    <2>3. QED
        BY <2>1, <2>2
<1>8. QED
    BY <1>6, <1>7

LEMMA SocialCreatesStep ==
    ASSUME AccountsInv, NEW r \in Requests, SocialCreates(r)
    PROVE  AccountsInv'
<1>1. /\ req[r] \in SigningIn /\ UNCHANGED <<codeVars, traffic, answered, job>>
    BY FormAt DEF SocialCreates, rest
<1>2. /\ req[r].email \in Emails \cup {None} /\ req[r].role \in Roles
      /\ req[r].did \in {"google", "apple"} \X Emails
    BY <1>1 DEF SigningIn
<1>3. req[r].did \in Identities /\ req[r].did[1] # "deleted"
    BY <1>2 DEF Identities
<1>4. CASE Done(r) /\ UNCHANGED users
    BY <1>1, <1>4, QuietStep DEF Done
<1>5. CASE /\ Create(req[r].did, req[r].email, None, FALSE, req[r].role)
           /\ req' = [req EXCEPT ![r] =
                [at |-> IF Drives(req[r].role) THEN "driver" ELSE "wallet", row |-> NextRow]]
    <2>1. UsersInv' /\ UsersGoOn /\ NextRow \in Used'
        BY <1>2, <1>3, <1>5, RowCreated DEF AccountsInv
    <2>2. PICK s : s = [at |-> IF Drives(req[r].role) THEN "driver" ELSE "wallet",
                        row |-> NextRow]
        OBVIOUS
    <2>3. s \in SignedIn' /\ s.at \in {"driver", "wallet"}
        BY <2>1, <2>2 DEF SignedIn
    <2>4. s \in OpenRequests' /\ Codeless(s)
        BY <2>3 DEF OpenRequests, AccountRequests, Codeless, WithEntry
    <2>5. AnsweredInv' /\ JobsInv'
        BY <1>1, <2>1, AnsweredStays, JobsStay DEF AccountsInv
    <2>6. QED
        BY <1>1, <1>5, <2>1, <2>2, <2>4, <2>5, AccountStep
<1>6. QED
    BY <1>4, <1>5 DEF SocialCreates

LEMMA WriterFound ==
    ASSUME AccountsInv, NEW p \in Phones, NEW u \in ByDid(Whatsapp(p))
    PROVE  u \in Used /\ Writes(u, p)
BY DEF ByDid, Writes

LEMMA OnboardsStep ==
    ASSUME AccountsInv, NEW r \in Requests, Onboards(r)
    PROVE  AccountsInv'
<1>1. req[r] \in Writing /\ UNCHANGED <<codeVars, traffic, users, answered, job>>
    BY FormAt DEF Onboards, accountVars, rest
<1>2. PICK p : p = req[r].from /\ p \in Phones
    BY <1>1 DEF Writing
<1>3. CASE ByDid(Whatsapp(p)) = {}
    <2>1. Goto(r, "waCreate")
        BY <1>2, <1>3 DEF Onboards
    <2>2. [req[r] EXCEPT !.at = "waCreate"] \in AccountRequests
        BY <1>1, AccountGoes DEF AccountRequests
    <2>3. QED
        BY <1>1, <2>1, <2>2, GotoMoves, QuietStep
<1>4. CASE ByDid(Whatsapp(p)) # {}
    <2>1. PICK u : u = CHOOSE v \in ByDid(Whatsapp(p)) : TRUE
        OBVIOUS
    <2>2. u \in Used /\ Writes(u, p)
        BY <1>2, <1>4, <2>1, WriterFound
    <2>3. PICK s : s = [at |-> "wallet", from |-> p, row |-> u]
        OBVIOUS
    <2>4. s \in Served
        BY <1>2, <2>2, <2>3 DEF Served
    <2>5. s \in AccountRequests
        BY <2>4 DEF AccountRequests
    <2>6. req' = [req EXCEPT ![r] = s]
        BY <1>2, <1>4, <2>1, <2>3 DEF Onboards
    <2>7. QED
        BY <1>1, <2>5, <2>6, QuietStep
<1>5. QED
    BY <1>3, <1>4

LEMMA WhatsappCreatesStep ==
    ASSUME AccountsInv, NEW r \in Requests, WhatsappCreates(r)
    PROVE  AccountsInv'
<1>1. req[r] \in Writing /\ UNCHANGED <<codeVars, traffic, answered, job>>
    BY FormAt DEF WhatsappCreates, rest
<1>2. PICK p : p = req[r].from /\ p \in Phones
    BY <1>1 DEF Writing
<1>3. CASE Done(r) /\ UNCHANGED users
    BY <1>1, <1>3, QuietStep DEF Done
<1>4. CASE Goto(r, "raced") /\ UNCHANGED users
    <2>1. [req[r] EXCEPT !.at = "raced"] \in AccountRequests
        BY <1>1, AccountGoes DEF AccountRequests
    <2>2. QED
        BY <1>1, <1>4, <2>1, GotoMoves, QuietStep
<1>5. CASE /\ Create(Whatsapp(p), None, p, FALSE, "RIDER")
           /\ req' = [req EXCEPT ![r] = [at |-> "wallet", from |-> p, row |-> NextRow]]
    <2>1. Whatsapp(p) \in Identities /\ Whatsapp(p)[1] # "deleted"
        BY <1>2 DEF Whatsapp, Identities
    <2>2. /\ UsersInv' /\ UsersGoOn
          /\ NextRow \in Used' /\ users'[NextRow].did = Whatsapp(p)
        BY <1>2, <1>5, <2>1, RowCreated DEF AccountsInv
    <2>3. PICK u : u = NextRow
        OBVIOUS
    <2>4. PICK s : s = [at |-> "wallet", from |-> p, row |-> u]
        OBVIOUS
    <2>5. s.at = "wallet" /\ s.from = p /\ s.row = u
          /\ s \in [at : {"wallet"}, from : Phones, row : Used']
        BY <1>2, <2>2, <2>3, <2>4
    <2>6. Writes(s.row, s.from)'
        BY <2>2, <2>3, <2>5 DEF Writes, Whatsapp
    <2>7. s \in Served'
        BY <2>5, <2>6 DEF Served
    <2>8. s \in OpenRequests' /\ Codeless(s)
        BY <2>5, <2>7 DEF OpenRequests, AccountRequests, Codeless, WithEntry
    <2>9. AnsweredInv' /\ JobsInv'
        BY <1>1, <2>2, AnsweredStays, JobsStay DEF AccountsInv
    <2>10. QED
        BY <1>1, <1>5, <2>2, <2>3, <2>4, <2>8, <2>9, AccountStep
<1>6. QED
    BY <1>2, <1>3, <1>4, <1>5 DEF WhatsappCreates

LEMMA RacedStep ==
    ASSUME AccountsInv, NEW r \in Requests, Raced(r)
    PROVE  AccountsInv'
<1>1. req[r] \in Writing /\ UNCHANGED <<codeVars, traffic, users, job>> /\ Done(r)
    BY FormAt DEF Raced, rest
<1>2. PICK p : p = req[r].from /\ p \in Phones
    BY <1>1 DEF Writing
<1>3. UsersInv' /\ UsersGoOn
    BY <1>1, SameUsers DEF AccountsInv
<1>4. JobsInv'
    BY <1>1, <1>3, JobsStay DEF AccountsInv
<1>5. AnsweredInv'
    <2>1. CASE ByDid(Whatsapp(p)) = {}
        <3>1. answered' = answered
            BY <1>2, <2>1 DEF Raced, AccountsInv, AnsweredInv
        <3>2. QED
            BY <1>3, <3>1, AnsweredStays DEF AccountsInv
    <2>2. CASE ByDid(Whatsapp(p)) # {}
        <3>1. PICK u : u = CHOOSE v \in ByDid(Whatsapp(p)) : TRUE
            OBVIOUS
        <3>2. u \in Used /\ Writes(u, p)
            BY <1>2, <2>2, <3>1, WriterFound
        <3>3. answered' = [answered EXCEPT ![p] = u]
            BY <1>2, <2>2, <3>1 DEF Raced
        <3>4. /\ answered' \in [Phones -> Rows \cup {None}]
              /\ \A q \in Phones : answered'[q] = IF q = p THEN u ELSE answered[q]
            BY <1>2, <3>2, <3>3 DEF AccountsInv, AnsweredInv, Used
        <3>5. ASSUME NEW q \in Phones, answered'[q] # None
              PROVE  answered'[q] \in Used /\ Writes(answered'[q], q)
            BY <3>2, <3>4, <3>5 DEF AccountsInv, AnsweredInv
        <3>6. ASSUME NEW q \in Phones, answered'[q] # None
              PROVE  answered'[q] \in Used' /\ Writes(answered[q], q)'
            BY <1>1, <3>5, <3>6 DEF Used, Writes, Whatsapp, Deleted
        <3>7. QED
            BY <3>4, <3>6 DEF AnsweredInv
    <2>3. QED
        BY <2>1, <2>2
<1>6. Idle \in OpenRequests' /\ Codeless(Idle)
    BY OpenForms DEF OpenRequests
<1>7. QED
    BY <1>1, <1>3, <1>4, <1>5, <1>6, AccountStep DEF Done

LEMMA ResetFindsStep ==
    ASSUME AccountsInv, NEW r \in Requests, ResetFinds(r)
    PROVE  AccountsInv'
<1>1. UNCHANGED <<codeVars, traffic, users, answered, job>>
    BY DEF ResetFinds, accountVars, rest
<1>2. CASE Done(r)
    BY <1>1, <1>2, QuietStep DEF Done
<1>3. ASSUME NEW u \in ByEmail(req[r].email),
             req' = [req EXCEPT ![r] = [at |-> "hash", row |-> u]]
      PROVE  AccountsInv'
    <2>1. [at |-> "hash", row |-> u] \in Hashing
        BY UsersByEmail DEF Hashing
    <2>2. [at |-> "hash", row |-> u] \in AccountRequests
        BY <2>1 DEF AccountRequests
    <2>3. QED
        BY <1>1, <1>3, <2>2, QuietStep
<1>4. QED
    BY <1>2, <1>3 DEF ResetFinds

LEMMA ResolvesLoginStep ==
    ASSUME AccountsInv, NEW r \in Requests, ResolvesLogin(r)
    PROVE  AccountsInv'
<1>1. req[r] \in LoggingIn /\ UNCHANGED <<codeVars, traffic, users, answered, job>>
    BY FormAt DEF ResolvesLogin, accountVars, rest
<1>2. req[r].entry \in Entries
    BY <1>1 DEF LoggingIn
<1>3. req[r].entry.phone \in Phones
    BY <1>2 DEF Entries
<1>4. CASE Done(r)
    BY <1>1, <1>4, QuietStep DEF Done
<1>5. CASE req' = [req EXCEPT ![r] = [at |-> "onboard", from |-> req[r].entry.phone]]
    <2>1. [at |-> "onboard", from |-> req[r].entry.phone] \in Writing
        BY <1>3 DEF Writing
    <2>2. [at |-> "onboard", from |-> req[r].entry.phone] \in AccountRequests
        BY <2>1 DEF AccountRequests
    <2>3. QED
        BY <1>1, <1>5, <2>2, QuietStep
<1>6. QED
    BY <1>4, <1>5 DEF ResolvesLogin

(* The number that is put on an account is the one the code was sent to. *)
LEMMA NamesItsNumber ==
    ASSUME NEW s \in Naming
    PROVE  /\ s.entry.phone \in Phones /\ s.code \in inbox[s.entry.phone]
           /\ s.key \in AccountKeys /\ s.key[2] \in Used /\ s.key = AccountKey(s.key[2])
<1>1. /\ s \in [at : {"write", "clear"}, key : AccountKeys, code : Enterable, entry : Entries]
      /\ s.code \in inbox[s.entry.phone]
    BY DEF Naming
<1>2. s.entry \in Entries /\ s.key \in AccountKeys
    BY <1>1
<1>3. s.entry.phone \in Phones
    BY <1>2 DEF Entries
<1>4. PICK u \in Used : s.key = AccountKey(u)
    BY <1>2 DEF AccountKeys
<1>5. AccountKey(u)[2] = u
    BY DEF AccountKey
<1>6. QED
    BY <1>1, <1>2, <1>3, <1>4, <1>5

LEMMA NamingGoes ==
    ASSUME NEW s \in Naming, NEW t, t = [s EXCEPT !.at = "clear"]
    PROVE  t \in Naming /\ SameEntry(s, t)
<1>1. /\ s \in [at : {"write", "clear"}, key : AccountKeys, code : Enterable, entry : Entries]
      /\ s.code \in inbox[s.entry.phone]
    BY DEF Naming
<1>2. /\ t \in [at : {"write", "clear"}, key : AccountKeys, code : Enterable, entry : Entries]
      /\ t.at = "clear" /\ t.code = s.code /\ t.entry = s.entry
    BY <1>1
<1>3. t \in Naming
    BY <1>1, <1>2 DEF Naming
<1>4. s.at \in {"write", "clear"}
    BY <1>1
<1>5. QED
    BY <1>2, <1>3, <1>4 DEF SameEntry, WithEntry

LEMMA PutsNumberStep ==
    ASSUME AccountsInv, NEW r \in Requests, PutsNumber(r)
    PROVE  AccountsInv'
<1>1. req[r] \in Naming /\ UNCHANGED <<codeVars, traffic, answered, job>>
    BY FormAt DEF PutsNumber, rest
<1>2. PICK u, p : u = req[r].key[2] /\ p = req[r].entry.phone
    OBVIOUS
<1>3. u \in Used /\ p \in Phones /\ UsersInv
    BY <1>1, <1>2, NamesItsNumber DEF AccountsInv
<1>4. users[u] \in Users
    BY <1>3, UserTyped
<1>5. PICK user : user = [users[u] EXCEPT !.phone = p]
    OBVIOUS
<1>6. user \in Users /\ user.did = users[u].did
    BY <1>3, <1>4, <1>5 DEF Users
<1>7. users' = [users EXCEPT ![u] = user]
    BY <1>2, <1>5 DEF PutsNumber, ProvedNumber
<1>8. UsersInv' /\ UsersGoOn
    BY <1>3, <1>6, <1>7, RowChanges
<1>9. AnsweredInv' /\ JobsInv'
    BY <1>1, <1>8, AnsweredStays, JobsStay DEF AccountsInv
<1>10. InboxGrows
    BY <1>1 DEF InboxGrows, codeVars
<1>11. PICK t : t = [req[r] EXCEPT !.at = "clear"]
    OBVIOUS
<1>12. t \in Naming /\ SameEntry(req[r], t)
    BY <1>1, <1>11, NamingGoes
<1>13. t \in OpenRequests'
    BY <1>8, <1>10, <1>12, OpenStaysOpen DEF OpenRequests, CodeRequests
<1>14. req' = [req EXCEPT ![r] = t]
    BY <1>11, GotoMoves DEF PutsNumber
<1>15. QED
    BY <1>1, <1>8, <1>9, <1>12, <1>13, <1>14, AccountStep

-----------------------------------------------------------------------------
(* Codes: each step *)

LEMMA HoldersGo ==
    ASSUME NEW r \in Requests, NEW s, req'[r] = s, \A q \in Requests : q # r => req'[q] = req[q],
           NEW added,
           \A c \in Codes, p \in Phones : c \in inbox'[p] => HeldFor(c, p) \/ <<c, p>> \in added,
           \A k \in Keys : \/ otp'[k] = None
                           \/ HeldFor(otp'[k].code, otp'[k].phone)
                           \/ <<otp'[k].code, otp'[k].phone>> \in added,
           s.at \in WithEntry => HeldFor(s.entry.code, s.entry.phone),
           s.at = "deliver" => HeldFor(s.code, s.phone) \/ <<s.code, s.phone>> \in added
    PROVE  \A c \in Codes, p \in Phones : HeldFor(c, p)' => HeldFor(c, p) \/ <<c, p>> \in added
<1>1. SUFFICES ASSUME NEW c \in Codes, NEW p \in Phones, HeldFor(c, p)'
               PROVE  HeldFor(c, p) \/ <<c, p>> \in added
    OBVIOUS
<1>2. CASE c \in inbox'[p]
    BY <1>2
<1>3. ASSUME NEW k \in Keys, otp'[k] # None, otp'[k].code = c, otp'[k].phone = p
      PROVE  HeldFor(c, p) \/ <<c, p>> \in added
    BY <1>3
<1>4. ASSUME NEW q \in Requests, req'[q].at \in WithEntry, req'[q].entry.code = c,
             req'[q].entry.phone = p
      PROVE  HeldFor(c, p) \/ <<c, p>> \in added
    <2>1. CASE q = r
        BY <1>4, <2>1
    <2>2. CASE q # r
        BY <1>4, <2>2 DEF HeldFor
    <2>3. QED
        BY <2>1, <2>2
<1>5. ASSUME NEW q \in Requests, req'[q].at = "deliver", req'[q].code = c, req'[q].phone = p
      PROVE  HeldFor(c, p) \/ <<c, p>> \in added
    <2>1. CASE q = r
        BY <1>5, <2>1
    <2>2. CASE q # r
        BY <1>5, <2>2 DEF HeldFor
    <2>3. QED
        BY <2>1, <2>2
<1>6. \/ c \in inbox'[p]
      \/ \E k \in Keys : otp'[k] # None /\ otp'[k].code = c /\ otp'[k].phone = p
      \/ \E q \in Requests :
            req'[q].at \in WithEntry /\ req'[q].entry.code = c /\ req'[q].entry.phone = p
      \/ \E q \in Requests : req'[q].at = "deliver" /\ req'[q].code = c /\ req'[q].phone = p
    BY <1>1 DEF HeldFor, WithEntry
<1>7. QED
    BY <1>2, <1>3, <1>4, <1>5, <1>6

LEMMA WhereCodesAre ==
    /\ \A c, p : c \in inbox[p] => HeldFor(c, p)
    /\ \A k \in Keys : otp[k] # None => HeldFor(otp[k].code, otp[k].phone)
    /\ \A r \in Requests : req[r].at \in WithEntry => HeldFor(req[r].entry.code, req[r].entry.phone)
    /\ \A r \in Requests : req[r].at = "deliver" => HeldFor(req[r].code, req[r].phone)
BY DEF HeldFor

(* A step that writes codes *)
LEMMA CodeStepDone ==
    ASSUME AccountsInv, NEW r \in Requests, NEW s \in OpenRequests',
           req' = [req EXCEPT ![r] = s], InboxGrows, UNCHANGED <<accountVars, traffic>>,
           RequestsInv' => CodesInv'
    PROVE  AccountsInv'
<1>1. users' = users /\ answered' = answered /\ job' = job /\ traffic' = traffic
    BY DEF accountVars
<1>2. UsersInv' /\ UsersGoOn
    BY <1>1, SameUsers DEF AccountsInv
<1>3. AnsweredInv' /\ JobsInv'
    BY <1>1, <1>2, AnsweredStays, JobsStay DEF AccountsInv
<1>4. RequestsInv'
    BY <1>2, RequestMoves DEF AccountsInv
<1>5. QED
    BY <1>1, <1>2, <1>3, <1>4 DEF AccountsInv

(* A request for codes goes on and leaves the codes where they are. *)
LEMMA CodesUntouched ==
    ASSUME AccountsInv, NEW r \in Requests, NEW s \in OpenRequests,
           req' = [req EXCEPT ![r] = s], UNCHANGED <<otp, managed, twilio, inbox, issued>>,
           Codeless(s) \/ SameEntry(req[r], s), UNCHANGED <<accountVars, traffic>>
    PROVE  AccountsInv'
<1>1. InboxGrows
    BY DEF InboxGrows
<1>2. UsersGoOn
    BY SameUsers DEF AccountsInv, accountVars
<1>3. s \in OpenRequests'
    BY <1>1, <1>2, OpenStaysOpen
<1>4. req'[r] = s /\ \A q \in Requests : q # r => req'[q] = req[q]
    BY <1>1, <1>2, <1>3, RequestMoves DEF AccountsInv
<1>5. ASSUME NEW c \in Codes, NEW p \in Phones, HeldFor(c, p)'  PROVE HeldFor(c, p)
    <2>1. s.at \in WithEntry => HeldFor(s.entry.code, s.entry.phone)
        BY WhereCodesAre DEF Codeless, SameEntry
    <2>2. s.at # "deliver"
        BY DEF Codeless, SameEntry, WithEntry
    <2>3. PICK none : none = {}
        OBVIOUS
    <2>4. \A d \in Codes, q \in Phones :
             d \in inbox'[q] => HeldFor(d, q) \/ <<d, q>> \in none
        BY WhereCodesAre
    <2>5. \A k \in Keys : \/ otp'[k] = None
                          \/ HeldFor(otp'[k].code, otp'[k].phone)
                          \/ <<otp'[k].code, otp'[k].phone>> \in none
        BY WhereCodesAre
    <2>6. s.at = "deliver" => HeldFor(s.code, s.phone) \/ <<s.code, s.phone>> \in none
        BY <2>2
    <2>7. \A d \in Codes, q \in Phones : HeldFor(d, q)' => HeldFor(d, q) \/ <<d, q>> \in none
        BY <1>4, <2>1, <2>4, <2>5, <2>6, HoldersGo
    <2>8. QED
        BY <1>5, <2>3, <2>7
<1>6. OneNumberPerCode'
    BY <1>5, HoldersShrink DEF AccountsInv, CodesInv
<1>7. CodesInv'
    BY <1>6 DEF AccountsInv, CodesInv, CodesTyped, Entries
<1>8. QED
    BY <1>1, <1>3, <1>7, CodeStepDone

LEMMA AskingGoes ==
    ASSUME NEW s \in AskingCode, NEW step \in AskSteps \ {"deliver"}
    PROVE  \E t \in OpenRequests : t = [s EXCEPT !.at = step] /\ Codeless(t)
<1>1. PICK t : t = [s EXCEPT !.at = step]
    OBVIOUS
<1>2. t \in AskingCode /\ t.at = step
    BY <1>1 DEF AskingCode
<1>3. QED
    BY <1>1, <1>2 DEF OpenRequests, CodeRequests, Codeless, AskSteps, WithEntry

LEMMA AskedAgain ==
    ASSUME NEW s \in AskingCode, NEW step \in AskSteps \ {"deliver"}
    PROVE  \E t \in AskingCode : t = [s EXCEPT !.at = step] /\ t.at = step
<1>1. PICK t : t = [s EXCEPT !.at = step]
    OBVIOUS
<1>2. t \in AskingCode /\ t.at = step
    BY <1>1 DEF AskingCode
<1>3. QED
    BY <1>1, <1>2

LEMMA LoginGoes ==
    ASSUME NEW s \in LoggingIn, NEW step \in {"forgive", "resolve"}
    PROVE  \E t \in OpenRequests : t = [s EXCEPT !.at = step] /\ SameEntry(s, t)
<1>1. PICK t : t = [s EXCEPT !.at = step]
    OBVIOUS
<1>2. t \in LoggingIn /\ t.at = step /\ t.entry = s.entry
    BY <1>1 DEF LoggingIn
<1>3. s.at \in WithEntry /\ t.at \in WithEntry
    BY <1>2, StepOfForm DEF WithEntry
<1>4. QED
    BY <1>1, <1>2, <1>3 DEF OpenRequests, CodeRequests, SameEntry

LEMMA QuietCodeSteps ==
    ASSUME AccountsInv, NEW r \in Requests, UNCHANGED <<accountVars, traffic>>,
           Count(r) \/ SetWindow(r) \/ Uncount(r) \/ Forgive(r)
    PROVE  AccountsInv'
<1>1. UNCHANGED <<otp, managed, twilio, inbox, issued>>
    BY DEF Count, SetWindow, Uncount, Forgive
<1>2. CASE Done(r)
    BY <1>1, <1>2, CodesUntouched, OpenForms DEF Done
<1>3. ASSUME NEW step \in AskSteps \ {"deliver"}, req[r] \in AskingCode, Goto(r, step)
      PROVE  AccountsInv'
    <2>1. PICK t \in OpenRequests : t = [req[r] EXCEPT !.at = step] /\ Codeless(t)
        BY <1>3, AskingGoes
    <2>2. req' = [req EXCEPT ![r] = t]
        BY <1>3, <2>1, GotoMoves
    <2>3. QED
        BY <1>1, <2>1, <2>2, CodesUntouched
<1>4. CASE Count(r)
    <2>1. req[r] \in AskingCode
        <3>1. "count" \in AskSteps
            BY DEF AskSteps
        <3>2. QED
            BY <1>4, <3>1, FormAt DEF Count
    <2>2. "expire" \in AskSteps \ {"deliver"} /\ "store" \in AskSteps \ {"deliver"}
        BY DEF AskSteps
    <2>3. Done(r) \/ Goto(r, "expire") \/ Goto(r, "store")
        BY <1>4 DEF Count
    <2>4. QED
        BY <1>2, <1>3, <2>1, <2>2, <2>3
<1>5. CASE SetWindow(r)
    <2>1. "expire" \in AskSteps /\ "store" \in AskSteps \ {"deliver"}
        BY DEF AskSteps
    <2>2. req[r] \in AskingCode /\ Goto(r, "store")
        BY <1>5, <2>1, FormAt DEF SetWindow
    <2>3. QED
        BY <1>3, <2>1, <2>2
<1>6. CASE Uncount(r)
    BY <1>2, <1>6 DEF Uncount
<1>7. CASE Forgive(r)
    <2>1. req[r] \in LoggingIn /\ Goto(r, "resolve")
        BY <1>7, FormAt DEF Forgive
    <2>2. PICK t \in OpenRequests :
             t = [req[r] EXCEPT !.at = "resolve"] /\ SameEntry(req[r], t)
        BY <2>1, LoginGoes
    <2>3. req' = [req EXCEPT ![r] = t]
        BY <2>1, <2>2, GotoMoves
    <2>4. QED
        BY <1>1, <2>2, <2>3, CodesUntouched
<1>8. QED
    BY <1>4, <1>5, <1>6, <1>7

(* A step that moves codes between where they are already, or drops them *)
LEMMA CodesReach ==
    ASSUME AccountsInv, NEW r \in Requests, NEW s \in OpenRequests,
           req' = [req EXCEPT ![r] = s], issued' = issued, InboxGrows,
           inbox' \in [Phones -> SUBSET Codes],
           \A c \in Codes, p \in Phones : c \in inbox'[p] => HeldFor(c, p),
           managed' \in [Phones -> BOOLEAN],
           twilio' \in [Phones -> Codes \cup {None}],
           \A p \in Phones : twilio'[p] \in {None, twilio[p]},
           otp' \in [Keys -> Entries \cup {None}],
           \A k \in Keys : otp'[k] = None \/ HeldFor(otp'[k].code, otp'[k].phone),
           s.at \in WithEntry => HeldFor(s.entry.code, s.entry.phone), s.at # "deliver",
           UNCHANGED <<accountVars, traffic>>
    PROVE  AccountsInv'
<1>1. UsersGoOn
    BY SameUsers DEF AccountsInv, accountVars
<1>2. s \in OpenRequests'
    BY <1>1, OpenStaysOpen
<1>3. req'[r] = s /\ \A q \in Requests : q # r => req'[q] = req[q]
    BY <1>1, <1>2, RequestMoves DEF AccountsInv
<1>4. ASSUME NEW c \in Codes, NEW p \in Phones, HeldFor(c, p)'  PROVE HeldFor(c, p)
    <2>1. PICK none : none = {}
        OBVIOUS
    <2>2. \A d \in Codes, q \in Phones :
             d \in inbox'[q] => HeldFor(d, q) \/ <<d, q>> \in none
        OBVIOUS
    <2>3. \A k \in Keys : \/ otp'[k] = None
                          \/ HeldFor(otp'[k].code, otp'[k].phone)
                          \/ <<otp'[k].code, otp'[k].phone>> \in none
        OBVIOUS
    <2>4. s.at = "deliver" => HeldFor(s.code, s.phone) \/ <<s.code, s.phone>> \in none
        OBVIOUS
    <2>5. \A d \in Codes, q \in Phones : HeldFor(d, q)' => HeldFor(d, q) \/ <<d, q>> \in none
        BY <1>3, <2>2, <2>3, <2>4, HoldersGo
    <2>6. QED
        BY <1>4, <2>1, <2>5
<1>5. OneNumberPerCode'
    BY <1>4, HoldersShrink DEF AccountsInv, CodesInv
<1>6. CodesTyped'
    BY DEF AccountsInv, CodesInv, CodesTyped, Entries
<1>7. \A p \in Phones : twilio'[p] # None => twilio'[p] \in inbox'[p]
    BY DEF AccountsInv, CodesInv, InboxGrows
<1>8. CodesInv'
    BY <1>5, <1>6, <1>7 DEF CodesInv
<1>9. QED
    BY <1>2, <1>8, CodeStepDone

LEMMA CodesMove ==
    ASSUME AccountsInv, NEW r \in Requests, NEW s \in OpenRequests,
           req' = [req EXCEPT ![r] = s], issued' = issued, inbox' = inbox,
           managed' \in [Phones -> BOOLEAN],
           twilio' \in [Phones -> Codes \cup {None}],
           \A p \in Phones : twilio'[p] \in {None, twilio[p]},
           otp' \in [Keys -> Entries \cup {None}],
           \A k \in Keys : otp'[k] = None \/ HeldFor(otp'[k].code, otp'[k].phone),
           s.at \in WithEntry => HeldFor(s.entry.code, s.entry.phone), s.at # "deliver",
           UNCHANGED <<accountVars, traffic>>
    PROVE  AccountsInv'
<1>1. InboxGrows
    BY DEF InboxGrows
<1>2. inbox' \in [Phones -> SUBSET Codes]
    BY DEF AccountsInv, CodesInv, CodesTyped
<1>3. \A c \in Codes, p \in Phones : c \in inbox'[p] => HeldFor(c, p)
    BY WhereCodesAre
<1>4. QED
    BY <1>1, <1>2, <1>3, CodesReach

(* The key of a request for a code is one of the keys. *)
LEMMA KeyOfAsking ==
    ASSUME AccountsInv, NEW r \in Requests, NEW step \in AskSteps, At(r, step)
    PROVE  /\ req[r] \in AskingCode /\ req[r].key \in Keys /\ req[r].phone \in Phones
           /\ req[r].verify \in BOOLEAN
<1>1. req[r] \in AskingCode
    BY FormAt
<1>2. QED
    BY <1>1 DEF AskingCode

LEMMA KeysAreKeys == AccountKeys \cup LoginKeys \subseteq Keys
BY DEF AccountKeys, LoginKeys, Keys, Used

LEMMA CodesAreTyped ==
    ASSUME AccountsInv
    PROVE  /\ otp \in [Keys -> Entries \cup {None}]
           /\ twilio \in [Phones -> Codes \cup {None}]
           /\ inbox \in [Phones -> SUBSET Codes]
           /\ managed \in [Phones -> BOOLEAN]
           /\ issued \subseteq Codes
BY DEF AccountsInv, CodesInv, CodesTyped

(* An entry dropped *)
LEMMA CodeDropped ==
    ASSUME AccountsInv, NEW key \in Keys, otp' = [otp EXCEPT ![key] = None]
    PROVE  /\ otp' \in [Keys -> Entries \cup {None}]
           /\ \A k \in Keys : otp'[k] = None \/ HeldFor(otp'[k].code, otp'[k].phone)
<1>1. otp \in [Keys -> Entries \cup {None}]
    BY CodesAreTyped
<1>2. /\ otp' \in [Keys -> Entries \cup {None}]
      /\ \A k \in Keys : otp'[k] = None \/ otp'[k] = otp[k]
    BY <1>1
<1>3. QED
    BY <1>2, WhereCodesAre

LEMMA NoteStep ==
    ASSUME AccountsInv, NEW r \in Requests, UNCHANGED <<accountVars, traffic>>, Note(r)
    PROVE  AccountsInv'
<1>1. "note" \in AskSteps
    BY DEF AskSteps
<1>2. req[r].phone \in Phones /\ req[r].verify \in BOOLEAN
    BY <1>1, KeyOfAsking DEF Note
<1>3. managed' \in [Phones -> BOOLEAN]
    BY <1>2, CodesAreTyped DEF Note
<1>4. /\ UNCHANGED <<otp, twilio, inbox, issued>> /\ req' = [req EXCEPT ![r] = Idle]
    BY DEF Note, Done
<1>5. Idle \in OpenRequests /\ Idle.at \notin WithEntry /\ Idle.at # "deliver"
    BY OpenForms DEF Codeless
<1>6. \A k \in Keys : otp'[k] = None \/ HeldFor(otp'[k].code, otp'[k].phone)
    BY <1>4, WhereCodesAre
<1>7. otp' \in [Keys -> Entries \cup {None}] /\ twilio' \in [Phones -> Codes \cup {None}]
    BY <1>4, CodesAreTyped
<1>8. QED
    BY <1>3, <1>4, <1>5, <1>6, <1>7, CodesMove

LEMMA UndoStep ==
    ASSUME AccountsInv, NEW r \in Requests, UNCHANGED <<accountVars, traffic>>, Undo(r)
    PROVE  AccountsInv'
<1>1. "undo" \in AskSteps /\ "uncount" \in AskSteps \ {"deliver"}
    BY DEF AskSteps
<1>2. req[r] \in AskingCode /\ req[r].key \in Keys
    BY <1>1, KeyOfAsking DEF Undo
<1>3. UNCHANGED <<managed, twilio, inbox, issued>>
    BY DEF Undo
<1>4. PICK s \in OpenRequests : Codeless(s) /\ req' = [req EXCEPT ![r] = s]
    <2>1. CASE Done(r)
        BY <2>1, OpenForms DEF Done
    <2>2. CASE Goto(r, "uncount")
        <3>1. PICK t \in OpenRequests : t = [req[r] EXCEPT !.at = "uncount"] /\ Codeless(t)
            BY <1>1, <1>2, AskingGoes
        <3>2. QED
            BY <2>2, <3>1, GotoMoves
    <2>3. QED
        BY <2>1, <2>2 DEF Undo
<1>5. /\ otp' \in [Keys -> Entries \cup {None}]
      /\ \A k \in Keys : otp'[k] = None \/ HeldFor(otp'[k].code, otp'[k].phone)
    BY <1>2, CodeDropped DEF Undo
<1>6. managed' \in [Phones -> BOOLEAN] /\ twilio' \in [Phones -> Codes \cup {None}]
    BY <1>3, CodesAreTyped
<1>7. QED
    BY <1>3, <1>4, <1>5, <1>6, CodesMove DEF Codeless

LEMMA SpendStep ==
    ASSUME AccountsInv, NEW r \in Requests, UNCHANGED <<accountVars, traffic>>, Spend(r)
    PROVE  AccountsInv'
<1>1. req[r] \in LoggingIn /\ Goto(r, "forgive") /\ UNCHANGED <<managed, twilio, inbox, issued>>
    BY FormAt DEF Spend
<1>2. req[r].key \in Keys
    BY <1>1, KeysAreKeys DEF LoggingIn
<1>3. PICK s \in OpenRequests : s = [req[r] EXCEPT !.at = "forgive"] /\ SameEntry(req[r], s)
    BY <1>1, LoginGoes
<1>4. req' = [req EXCEPT ![r] = s]
    BY <1>1, <1>3, GotoMoves
<1>5. s.at # "deliver" /\ HeldFor(s.entry.code, s.entry.phone)
    BY <1>3, WhereCodesAre DEF SameEntry, WithEntry
<1>6. /\ otp' \in [Keys -> Entries \cup {None}]
      /\ \A k \in Keys : otp'[k] = None \/ HeldFor(otp'[k].code, otp'[k].phone)
    BY <1>2, CodeDropped DEF Spend
<1>7. managed' \in [Phones -> BOOLEAN] /\ twilio' \in [Phones -> Codes \cup {None}]
    BY <1>1, CodesAreTyped
<1>8. QED
    BY <1>1, <1>4, <1>5, <1>6, <1>7, CodesMove

LEMMA ClearCodeStep ==
    ASSUME AccountsInv, NEW r \in Requests, UNCHANGED <<accountVars, traffic>>, ClearCode(r)
    PROVE  AccountsInv'
<1>1. /\ req[r] \in Naming /\ UNCHANGED <<managed, twilio, inbox, issued>>
      /\ req' = [req EXCEPT ![r] = Idle]
    BY FormAt DEF ClearCode, Done
<1>2. req[r].key \in Keys
    BY <1>1, NamesItsNumber, KeysAreKeys
<1>3. /\ otp' \in [Keys -> Entries \cup {None}]
      /\ \A k \in Keys : otp'[k] = None \/ HeldFor(otp'[k].code, otp'[k].phone)
    BY <1>2, CodeDropped DEF ClearCode
<1>4. managed' \in [Phones -> BOOLEAN] /\ twilio' \in [Phones -> Codes \cup {None}]
    BY <1>1, CodesAreTyped
<1>5. Idle \in OpenRequests /\ Idle.at \notin WithEntry /\ Idle.at # "deliver"
    BY OpenForms DEF Codeless
<1>6. QED
    BY <1>1, <1>3, <1>4, <1>5, CodesMove

LEMMA MissStep ==
    ASSUME AccountsInv, NEW r \in Requests, UNCHANGED <<accountVars, traffic>>, Miss(r)
    PROVE  AccountsInv'
<1>1. /\ req[r] \in LoggingIn /\ UNCHANGED <<managed, twilio, inbox, issued>>
      /\ req' = [req EXCEPT ![r] = Idle]
    BY FormAt DEF Miss, Done
<1>2. req[r].key \in Keys /\ req[r].entry \in Entries /\ req[r].at \in WithEntry
    BY <1>1, KeysAreKeys, StepOfForm DEF LoggingIn, WithEntry
<1>3. PICK key, entry : key = req[r].key /\ entry = req[r].entry
    OBVIOUS
<1>4. HeldFor(entry.code, entry.phone)
    BY <1>2, <1>3, WhereCodesAre
<1>5. PICK missed : missed = [entry EXCEPT !.tries = entry.tries + 1]
    OBVIOUS
<1>6. missed \in Entries /\ missed.code = entry.code /\ missed.phone = entry.phone
    BY <1>2, <1>3, <1>5 DEF Entries
<1>7. PICK kept \in {None, missed} : otp' = [otp EXCEPT ![key] = kept]
    BY <1>3, <1>5 DEF Miss
<1>8. otp \in [Keys -> Entries \cup {None}]
    BY CodesAreTyped
<1>9. /\ otp' \in [Keys -> Entries \cup {None}]
      /\ \A k \in Keys : otp'[k] = None \/ otp'[k] = missed \/ otp'[k] = otp[k]
    BY <1>2, <1>3, <1>6, <1>7, <1>8
<1>10. \A k \in Keys : otp'[k] = None \/ HeldFor(otp'[k].code, otp'[k].phone)
    BY <1>4, <1>6, <1>9, WhereCodesAre
<1>11. managed' \in [Phones -> BOOLEAN] /\ twilio' \in [Phones -> Codes \cup {None}]
    BY <1>1, CodesAreTyped
<1>12. Idle \in OpenRequests /\ Idle.at \notin WithEntry /\ Idle.at # "deliver"
    BY OpenForms DEF Codeless
<1>13. QED
    BY <1>1, <1>9, <1>10, <1>11, <1>12, CodesMove

LEMMA ReadEntryStep ==
    ASSUME AccountsInv, NEW r \in Requests, UNCHANGED <<accountVars, traffic>>, ReadEntry(r)
    PROVE  AccountsInv'
<1>1. req[r] \in Entering /\ UNCHANGED codeVars
    BY FormAt DEF ReadEntry
<1>2. UNCHANGED <<otp, managed, twilio, inbox, issued>>
    BY <1>1 DEF codeVars
<1>3. CASE Done(r)
    BY <1>2, <1>3, CodesUntouched, OpenForms DEF Done
<1>4. CASE ~Done(r)
    <2>1. PICK key, code, entry : key = req[r].key /\ code = req[r].code /\ entry = otp[req[r].key]
        OBVIOUS
    <2>2. key \in AccountKeys \cup LoginKeys /\ code \in Enterable
        BY <1>1, <2>1 DEF Entering
    <2>3. key \in Keys
        BY <2>2, KeysAreKeys
    <2>4. entry # None
        BY <1>4, <2>1 DEF ReadEntry
    <2>5. entry \in Entries /\ HeldFor(entry.code, entry.phone)
        BY <2>1, <2>3, <2>4, CodesAreTyped, WhereCodesAre
    <2>6. PICK s : s = [at |-> "check", key |-> key, code |-> code, entry |-> entry]
        OBVIOUS
    <2>7. s \in Checking /\ s.at = "check" /\ s.entry = entry
        BY <2>2, <2>5, <2>6 DEF Checking
    <2>8. s \in OpenRequests
        BY <2>7 DEF OpenRequests, CodeRequests
    <2>9. req' = [req EXCEPT ![r] = s]
        BY <1>4, <2>1, <2>6 DEF ReadEntry
    <2>10. /\ otp' \in [Keys -> Entries \cup {None}] /\ managed' \in [Phones -> BOOLEAN]
           /\ twilio' \in [Phones -> Codes \cup {None}]
        BY <1>2, CodesAreTyped
    <2>11. \A k \in Keys : otp'[k] = None \/ HeldFor(otp'[k].code, otp'[k].phone)
        BY <1>2, WhereCodesAre
    <2>12. QED
        BY <1>2, <2>5, <2>7, <2>8, <2>9, <2>10, <2>11, CodesMove
<1>5. QED
    BY <1>3, <1>4

LEMMA NotACode == Wrong \notin Codes /\ None \notin Codes /\ Wrong # None
BY CodesAssumption, Zenon

(* A code that someone can enter and that is right for an entry reached the *)
(* number of the entry.                                                     *)
LEMMA RightCodeReached ==
    ASSUME AccountsInv, NEW code \in Enterable, NEW entry \in Entries,
           HeldFor(entry.code, entry.phone), entry.code = code
    PROVE  code \in inbox[entry.phone]
<1>1. entry.code \in Codes /\ entry.phone \in Phones
    BY DEF Entries
<1>2. code # Wrong
    BY <1>1, NotACode
<1>3. PICK p \in Phones : code \in inbox[p]
    BY <1>2 DEF Enterable
<1>4. HeldFor(code, p)
    BY <1>3, WhereCodesAre
<1>5. p = entry.phone
    BY <1>1, <1>4 DEF AccountsInv, CodesInv, OneNumberPerCode
<1>6. QED
    BY <1>3, <1>5

LEMMA RightCodeOfTwilio ==
    ASSUME AccountsInv, NEW code \in Enterable, NEW p \in Phones, twilio[p] = code
    PROVE  code \in inbox[p]
<1>1. code # None
    <2>1. \A q \in Phones : inbox[q] \subseteq Codes
        BY CodesAreTyped
    <2>2. QED
        BY <2>1, NotACode DEF Enterable
<1>2. QED
    BY <1>1 DEF AccountsInv, CodesInv

LEMMA CheckCodeStep ==
    ASSUME AccountsInv, NEW r \in Requests, UNCHANGED <<accountVars, traffic>>, CheckCode(r)
    PROVE  AccountsInv'
<1>1. req[r] \in Checking /\ UNCHANGED <<otp, inbox, issued>>
    BY FormAt DEF CheckCode
<1>2. PICK s : s = req[r]
    OBVIOUS
<1>3. /\ s \in [at : {"check"}, key : AccountKeys \cup LoginKeys, code : Enterable,
                entry : Entries]
    BY <1>1, <1>2 DEF Checking
<1>4. s.at \in WithEntry /\ s.entry \in Entries /\ s.code \in Enterable
    BY <1>3 DEF WithEntry
<1>5. s.entry.phone \in Phones /\ HeldFor(s.entry.code, s.entry.phone)
    BY <1>2, <1>4, WhereCodesAre DEF Entries
<1>6. CASE ~Approved(r)
    <2>1. UNCHANGED <<managed, twilio>>
        BY <1>6 DEF CheckCode
    <2>2. CASE Done(r)
        BY <1>1, <2>1, <2>2, CodesUntouched, OpenForms DEF Done
    <2>3. CASE ~Done(r)
        <3>1. IsLogin(s.key) /\ Goto(r, "miss")
            BY <1>2, <1>6, <2>3 DEF CheckCode
        <3>2. PICK t : t = [s EXCEPT !.at = "miss"]
            OBVIOUS
        <3>3. s.key \in LoginKeys
            BY <1>3, <3>1 DEF AccountKeys, AccountKey, IsLogin
        <3>4. t \in LoggingIn /\ t.at = "miss" /\ t.entry = s.entry
            BY <1>3, <3>2, <3>3 DEF LoggingIn
        <3>5. t \in OpenRequests /\ SameEntry(req[r], t)
            BY <1>2, <1>4, <3>4 DEF OpenRequests, CodeRequests, SameEntry, WithEntry
        <3>6. req' = [req EXCEPT ![r] = t]
            BY <1>2, <3>1, <3>2, GotoMoves
        <3>7. QED
            BY <1>1, <2>1, <3>5, <3>6, CodesUntouched
    <2>4. QED
        BY <2>2, <2>3
<1>7. CASE Approved(r)
    <2>1. PICK step : /\ step = IF IsLogin(s.key) THEN "spend" ELSE "write"
                      /\ Goto(r, step)
        BY <1>2, <1>7 DEF CheckCode
    <2>2. PICK t : t = [s EXCEPT !.at = step]
        OBVIOUS
    <2>3. t.at = step /\ t.key = s.key /\ t.code = s.code /\ t.entry = s.entry
        BY <1>3, <2>2
    <2>4. t \in OpenRequests
        <3>1. CASE IsLogin(s.key)
            <4>1. s.key \in LoginKeys
                BY <1>3, <3>1 DEF AccountKeys, AccountKey, IsLogin
            <4>2. t \in LoggingIn
                BY <1>3, <2>1, <2>2, <3>1, <4>1 DEF LoggingIn
            <4>3. QED
                BY <4>2 DEF OpenRequests, CodeRequests
        <3>2. CASE ~IsLogin(s.key)
            <4>1. s.key \in AccountKeys
                BY <1>3, <3>2 DEF LoginKeys, LoginKey, IsLogin
            <4>2. t \in [at : {"write", "clear"}, key : AccountKeys, code : Enterable,
                         entry : Entries]
                BY <1>3, <2>1, <2>2, <3>2, <4>1
            <4>3. s.code \in inbox[s.entry.phone]
                <5>1. CASE managed[s.entry.phone]
                    <6>1. twilio[s.entry.phone] = s.code
                        BY <1>2, <1>7, <5>1 DEF Approved
                    <6>2. QED
                        BY <1>4, <1>5, <6>1, RightCodeOfTwilio
                <5>2. CASE ~managed[s.entry.phone]
                    <6>1. s.entry.code = s.code
                        BY <1>2, <1>7, <5>2 DEF Approved
                    <6>2. QED
                        BY <1>4, <1>5, <6>1, RightCodeReached
                <5>3. QED
                    BY <5>1, <5>2
            <4>4. t \in Naming
                BY <2>3, <4>2, <4>3 DEF Naming
            <4>5. QED
                BY <4>4 DEF OpenRequests, CodeRequests
        <3>3. QED
            BY <3>1, <3>2
    <2>5. req' = [req EXCEPT ![r] = t]
        BY <1>2, <2>1, <2>2, GotoMoves
    <2>6. t.at # "deliver" /\ HeldFor(t.entry.code, t.entry.phone)
        BY <1>5, <2>1, <2>3
    <2>7. PICK p : p = s.entry.phone
        OBVIOUS
    <2>8. /\ managed' = [managed EXCEPT ![p] = FALSE]
          /\ twilio' = [twilio EXCEPT ![p] = IF managed[p] THEN None ELSE twilio[p]]
        BY <1>2, <1>7, <2>7 DEF CheckCode
    <2>9. /\ managed' \in [Phones -> BOOLEAN]
          /\ twilio' \in [Phones -> Codes \cup {None}]
          /\ \A q \in Phones : twilio'[q] \in {None, twilio[q]}
        BY <1>5, <2>7, <2>8, CodesAreTyped
    <2>10. /\ otp' \in [Keys -> Entries \cup {None}]
           /\ \A k \in Keys : otp'[k] = None \/ HeldFor(otp'[k].code, otp'[k].phone)
        BY <1>1, CodesAreTyped, WhereCodesAre
    <2>11. QED
        BY <1>1, <2>4, <2>5, <2>6, <2>9, <2>10, CodesMove
<1>8. QED
    BY <1>6, <1>7

LEMMA FreshIsNew ==
    ASSUME AccountsInv, Codes # issued
    PROVE  Fresh \in Codes /\ Fresh \notin issued
BY CodesAreTyped DEF Fresh

(* A new code, for one number *)
LEMMA CodeIssued ==
    ASSUME AccountsInv, NEW r \in Requests, NEW s \in OpenRequests, NEW f \in Codes,
           NEW n \in Phones, f \notin issued, issued' = issued \cup {f},
           req' = [req EXCEPT ![r] = s], InboxGrows, managed' = managed,
           inbox' \in [Phones -> SUBSET Codes],
           twilio' \in [Phones -> Codes \cup {None}],
           \A p \in Phones : twilio'[p] # None => twilio'[p] \in inbox'[p],
           otp' \in [Keys -> Entries \cup {None}],
           \A c \in Codes, p \in Phones :
              c \in inbox'[p] => HeldFor(c, p) \/ <<c, p>> \in {<<f, n>>},
           \A k \in Keys : \/ otp'[k] = None
                           \/ HeldFor(otp'[k].code, otp'[k].phone)
                           \/ <<otp'[k].code, otp'[k].phone>> \in {<<f, n>>},
           s.at \notin WithEntry, s.at = "deliver" => <<s.code, s.phone>> \in {<<f, n>>},
           UNCHANGED <<accountVars, traffic>>
    PROVE  AccountsInv'
<1>1. UsersGoOn
    BY SameUsers DEF AccountsInv, accountVars
<1>2. s \in OpenRequests'
    BY <1>1, OpenStaysOpen
<1>3. req'[r] = s /\ \A q \in Requests : q # r => req'[q] = req[q]
    BY <1>1, <1>2, RequestMoves DEF AccountsInv
<1>4. PICK added : added = {<<f, n>>}
    OBVIOUS
<1>5. \A c \in Codes, p \in Phones : HeldFor(c, p)' => HeldFor(c, p) \/ <<c, p>> \in added
    <2>1. \A c \in Codes, p \in Phones :
             c \in inbox'[p] => HeldFor(c, p) \/ <<c, p>> \in added
        BY <1>4
    <2>2. \A k \in Keys : \/ otp'[k] = None
                          \/ HeldFor(otp'[k].code, otp'[k].phone)
                          \/ <<otp'[k].code, otp'[k].phone>> \in added
        BY <1>4
    <2>3. s.at = "deliver" => HeldFor(s.code, s.phone) \/ <<s.code, s.phone>> \in added
        BY <1>4
    <2>4. s.at \in WithEntry => HeldFor(s.entry.code, s.entry.phone)
        OBVIOUS
    <2>5. QED
        BY <1>3, <2>1, <2>2, <2>3, <2>4, HoldersGo
<1>6. \A c \in Codes, p \in Phones : HeldFor(c, p)' => HeldFor(c, p) \/ (c = f /\ p = n)
    BY <1>4, <1>5
<1>7. OneNumberPerCode'
    BY <1>6, HoldersGrow DEF AccountsInv, CodesInv
<1>8. CodesTyped'
    BY DEF AccountsInv, CodesInv, CodesTyped, Entries
<1>9. CodesInv'
    BY <1>7, <1>8 DEF CodesInv
<1>10. QED
    BY <1>2, <1>9, CodeStepDone

LEMMA StoreStep ==
    ASSUME AccountsInv, NEW r \in Requests, UNCHANGED <<accountVars, traffic>>, Store(r)
    PROVE  AccountsInv'
<1>1. "store" \in AskSteps /\ "deliver" \in AskSteps
    BY DEF AskSteps
<1>2. req[r] \in AskingCode /\ req[r].key \in Keys /\ req[r].phone \in Phones
    BY <1>1, KeyOfAsking DEF Store
<1>3. PICK key, n, f : key = req[r].key /\ n = req[r].phone /\ f = Fresh
    OBVIOUS
<1>4. f \in Codes /\ f \notin issued
    BY <1>3, FreshIsNew DEF Store
<1>5. PICK held : held = [req[r] EXCEPT !.code = f]
    OBVIOUS
<1>6. held \in AskingCode /\ held.phone = n /\ held.code = f
    BY <1>2, <1>3, <1>4, <1>5 DEF AskingCode
<1>7. PICK s : s = [held EXCEPT !.at = "deliver"]
    OBVIOUS
<1>8. s \in AskingCode /\ s.at = "deliver" /\ s.code = f /\ s.phone = n
    BY <1>1, <1>4, <1>6, <1>7 DEF AskingCode
<1>9. s \in OpenRequests
    BY <1>8 DEF OpenRequests, CodeRequests
<1>10. req' = [req EXCEPT ![r] = s]
    BY <1>3, <1>5, <1>7 DEF Store, AccountsInv, RequestsInv
<1>11. PICK entry : entry = [code |-> f, phone |-> n, tries |-> 0]
    OBVIOUS
<1>12. entry \in Entries /\ entry.code = f /\ entry.phone = n
    BY <1>2, <1>3, <1>4, <1>11 DEF Entries
<1>13. otp' = [otp EXCEPT ![key] = entry]
    BY <1>3, <1>11 DEF Store
<1>14. /\ otp' \in [Keys -> Entries \cup {None}]
       /\ \A k \in Keys : otp'[k] = entry \/ otp'[k] = otp[k]
    BY <1>2, <1>3, <1>12, <1>13, CodesAreTyped
<1>15. \A k \in Keys : \/ otp'[k] = None
                       \/ HeldFor(otp'[k].code, otp'[k].phone)
                       \/ <<otp'[k].code, otp'[k].phone>> \in {<<f, n>>}
    BY <1>12, <1>14, WhereCodesAre
<1>16. UNCHANGED <<managed, twilio, inbox>> /\ issued' = issued \cup {f}
    BY <1>3 DEF Store
<1>17. InboxGrows
    BY <1>16 DEF InboxGrows
<1>18. /\ inbox' \in [Phones -> SUBSET Codes]
       /\ twilio' \in [Phones -> Codes \cup {None}]
       /\ \A p \in Phones : twilio'[p] # None => twilio'[p] \in inbox'[p]
    BY <1>16, CodesAreTyped DEF AccountsInv, CodesInv
<1>19. \A c \in Codes, p \in Phones :
          c \in inbox'[p] => HeldFor(c, p) \/ <<c, p>> \in {<<f, n>>}
    BY <1>16, WhereCodesAre
<1>20. s.at \notin WithEntry /\ (s.at = "deliver" => <<s.code, s.phone>> \in {<<f, n>>})
    BY <1>8 DEF WithEntry
<1>21. n \in Phones
    BY <1>2, <1>3
<1>22. QED
    BY <1>4, <1>9, <1>10, <1>14, <1>15, <1>16, <1>17, <1>18, <1>19, <1>20, <1>21, CodeIssued

LEMMA DeliverStep ==
    ASSUME AccountsInv, NEW r \in Requests, UNCHANGED <<accountVars, traffic>>, Deliver(r)
    PROVE  AccountsInv'
<1>1. "deliver" \in AskSteps /\ "note" \in AskSteps \ {"deliver"}
      /\ "undo" \in AskSteps \ {"deliver"}
    BY DEF AskSteps
<1>2. req[r] \in AskingCode /\ req[r].phone \in Phones /\ req[r].at = "deliver"
    BY <1>1, KeyOfAsking DEF Deliver, At
<1>3. UNCHANGED <<otp, managed>>
    BY DEF Deliver
<1>4. /\ otp' \in [Keys -> Entries \cup {None}]
      /\ \A k \in Keys : otp'[k] = None \/ HeldFor(otp'[k].code, otp'[k].phone)
    BY <1>3, CodesAreTyped, WhereCodesAre
<1>5. PICK n, c : n = req[r].phone /\ c = req[r].code
    OBVIOUS
<1>6. HeldFor(c, n) /\ c \in Codes /\ n \in Phones
    BY <1>2, <1>5, WhereCodesAre DEF AskingCode
<1>f. PICK f : f = Fresh
    OBVIOUS
<1>7. PICK own \in BOOLEAN, verify \in BOOLEAN :
          /\ f = Fresh /\ (verify => Codes # issued)
          /\ inbox' = [inbox EXCEPT ![n] = @ \cup ((IF own THEN {c} ELSE {})
                                                   \cup (IF verify THEN {f} ELSE {}))]
          /\ issued' = IF verify THEN issued \cup {f} ELSE issued
          /\ twilio' = IF verify THEN [twilio EXCEPT ![n] = f] ELSE twilio
          /\ \/ Goto(r, "note") \/ Goto(r, "undo")
             \/ verify /\ req' = [req EXCEPT ![r].at = "note", ![r].verify = TRUE]
    BY <1>5, <1>f DEF Deliver
<1>8. PICK s \in OpenRequests : Codeless(s) /\ req' = [req EXCEPT ![r] = s]
    <2>1. ASSUME NEW step \in {"note", "undo"}, Goto(r, step)
          PROVE  \E s \in OpenRequests : Codeless(s) /\ req' = [req EXCEPT ![r] = s]
        <3>1. PICK s \in OpenRequests : s = [req[r] EXCEPT !.at = step] /\ Codeless(s)
            BY <1>1, <1>2, AskingGoes
        <3>2. QED
            BY <2>1, <3>1, GotoMoves
    <2>2. CASE req' = [req EXCEPT ![r].at = "note", ![r].verify = TRUE]
        <3>1. PICK t \in AskingCode : t = [req[r] EXCEPT !.at = "note"] /\ t.at = "note"
            BY <1>1, <1>2, AskedAgain
        <3>2. PICK s : s = [t EXCEPT !.verify = TRUE]
            OBVIOUS
        <3>3. s \in AskingCode /\ s.at = "note"
            BY <3>1, <3>2 DEF AskingCode
        <3>4. s \in OpenRequests /\ Codeless(s)
            BY <3>3 DEF OpenRequests, CodeRequests, WithEntry, Codeless
        <3>5. req' = [req EXCEPT ![r] = s]
            BY <2>2, <3>1, <3>2 DEF AccountsInv, RequestsInv
        <3>6. QED
            BY <3>4, <3>5
    <2>3. QED
        BY <1>7, <2>1, <2>2
<1>9. CASE ~verify
    <2>1. UNCHANGED <<twilio, issued>>
        BY <1>7, <1>9
    <2>2. /\ inbox' \in [Phones -> SUBSET Codes]
          /\ \A p \in Phones : inbox'[p] = inbox[p] \/ (p = n /\ inbox'[p] = inbox[p] \cup {c})
        <3>1. inbox' = [inbox EXCEPT ![n] = inbox[n] \cup (IF own THEN {c} ELSE {})]
            BY <1>7, <1>9
        <3>2. QED
            BY <1>6, <3>1, CodesAreTyped
    <2>3. InboxGrows
        BY <2>2 DEF InboxGrows
    <2>4. \A d \in Codes, p \in Phones : d \in inbox'[p] => HeldFor(d, p)
        BY <1>6, <2>2, WhereCodesAre
    <2>5. managed' \in [Phones -> BOOLEAN] /\ twilio' \in [Phones -> Codes \cup {None}]
        BY <1>3, <2>1, CodesAreTyped
    <2>6. QED
        BY <1>4, <1>8, <2>1, <2>2, <2>3, <2>4, <2>5, CodesReach DEF Codeless
<1>10. CASE verify
    <2>1. f \in Codes /\ f \notin issued /\ issued' = issued \cup {f}
        BY <1>7, <1>10, FreshIsNew
    <2>2. /\ inbox' \in [Phones -> SUBSET Codes]
          /\ \A p \in Phones : inbox[p] \subseteq inbox'[p]
          /\ \A p \in Phones : \A d \in inbox'[p] : d \in inbox[p] \/ (p = n /\ d \in {c, f})
          /\ f \in inbox'[n]
        <3>1. PICK reach \in SUBSET {c, f} :
                  f \in reach /\ inbox' = [inbox EXCEPT ![n] = inbox[n] \cup reach]
            BY <1>7, <1>10
        <3>2. reach \subseteq Codes
            BY <1>6, <2>1, <3>1
        <3>3. QED
            BY <1>6, <3>1, <3>2, CodesAreTyped
    <2>3. InboxGrows
        BY <2>2 DEF InboxGrows
    <2>4. /\ twilio' \in [Phones -> Codes \cup {None}]
          /\ \A p \in Phones : twilio'[p] = IF p = n THEN f ELSE twilio[p]
        BY <1>6, <1>7, <1>10, <2>1, CodesAreTyped
    <2>5. \A p \in Phones : twilio'[p] # None => twilio'[p] \in inbox'[p]
        BY <2>2, <2>4 DEF AccountsInv, CodesInv
    <2>6. \A d \in Codes, p \in Phones :
              d \in inbox'[p] => HeldFor(d, p) \/ <<d, p>> \in {<<f, n>>}
        BY <1>6, <2>2, WhereCodesAre
    <2>7. \A k \in Keys : \/ otp'[k] = None
                          \/ HeldFor(otp'[k].code, otp'[k].phone)
                          \/ <<otp'[k].code, otp'[k].phone>> \in {<<f, n>>}
        BY <1>4
    <2>8. s.at \notin WithEntry /\ s.at # "deliver"
        BY <1>8 DEF Codeless
    <2>9. QED
        BY <1>3, <1>4, <1>6, <1>8, <2>1, <2>2, <2>3, <2>4, <2>5, <2>6, <2>7, <2>8, CodeIssued
<1>11. QED
    BY <1>9, <1>10

(* A code is asked for, or entered *)
LEMMA AsksCodeStep ==
    ASSUME AccountsInv, NEW r \in Requests, AsksCode(r)
    PROVE  AccountsInv'
<1>1. UNCHANGED <<accountVars, traffic>>
    BY DEF AsksCode
<1>2. PICK key \in Keys, p \in Numbers : AskCode(r, key, p)
    BY DEF AsksCode
<1>3. p \in Phones
    BY <1>2, NumbersArePhones
<1>4. PICK s : s = [at |-> IF IsLogin(key) THEN "count" ELSE "store",
                    key |-> key, phone |-> p, code |-> None, verify |-> FALSE]
    OBVIOUS
<1>5. s.at \in {"count", "store"}
    BY <1>4
<1>6. s \in AskingCode
    BY <1>2, <1>3, <1>4, <1>5 DEF AskingCode, AskSteps
<1>7. s \in OpenRequests /\ Codeless(s)
    BY <1>5, <1>6 DEF OpenRequests, CodeRequests, Codeless, WithEntry
<1>8. req' = [req EXCEPT ![r] = s] /\ UNCHANGED codeVars
    BY <1>2, <1>4 DEF AskCode
<1>9. UNCHANGED <<otp, managed, twilio, inbox, issued>>
    BY <1>8 DEF codeVars
<1>10. QED
    BY <1>1, <1>7, <1>8, <1>9, CodesUntouched

LEMMA UsableKey ==
    ASSUME NEW key \in Keys, UsesKey(key)
    PROVE  key \in AccountKeys \cup LoginKeys
<1>1. ASSUME NEW u \in Rows, key = AccountKey(u)  PROVE key \in AccountKeys
    <2>1. ~IsLogin(key) /\ key[2] = u
        BY <1>1 DEF IsLogin, AccountKey
    <2>2. u \in Used
        BY <2>1 DEF UsesKey, Living
    <2>3. QED
        BY <1>1, <2>2 DEF AccountKeys
<1>2. QED
    BY <1>1 DEF Keys, LoginKeys

LEMMA EntersCodeStep ==
    ASSUME AccountsInv, NEW r \in Requests, EntersCode(r)
    PROVE  AccountsInv'
<1>1. UNCHANGED <<accountVars, traffic>>
    BY DEF EntersCode
<1>2. PICK key \in Keys, c \in Enterable : UsesKey(key) /\ EnterCode(r, key, c)
    BY DEF EntersCode
<1>3. PICK s : s = [at |-> "read", key |-> key, code |-> c]
    OBVIOUS
<1>4. s \in Entering /\ s.at = "read"
    BY <1>2, <1>3, UsableKey DEF Entering
<1>5. s \in OpenRequests /\ Codeless(s)
    BY <1>4 DEF OpenRequests, CodeRequests, Codeless, WithEntry
<1>6. req' = [req EXCEPT ![r] = s] /\ UNCHANGED codeVars
    BY <1>2, <1>3 DEF EnterCode
<1>7. UNCHANGED <<otp, managed, twilio, inbox, issued>>
    BY <1>6 DEF codeVars
<1>8. QED
    BY <1>1, <1>5, <1>6, <1>7, CodesUntouched

-----------------------------------------------------------------------------
(* Steps that are no request's *)

LEMMA CodesStay ==
    ASSUME CodesInv, UNCHANGED codeVars, req' = req
    PROVE  CodesInv'
<1>1. /\ otp' = otp /\ twilio' = twilio /\ inbox' = inbox /\ managed' = managed
      /\ issued' = issued
    BY DEF codeVars
<1>2. QED
    BY <1>1 DEF CodesInv, CodesTyped, OneNumberPerCode, HeldFor, Entries

LEMMA NoRequestsStep ==
    ASSUME AccountsInv, UNCHANGED codeVars, req' = req, traffic' = traffic, answered' = answered,
           UsersInv', UsersGoOn, JobsInv'
    PROVE  AccountsInv'
<1>1. CodesInv'
    BY CodesStay DEF AccountsInv
<1>2. InboxGrows
    BY DEF InboxGrows, codeVars
<1>3. RequestsInv' /\ AnsweredInv'
    BY <1>2, RequestsStay, AnsweredStays DEF AccountsInv
<1>4. QED
    BY <1>1, <1>3 DEF AccountsInv

Provisioning == [at : {"va", "customer", "save", "account"}, row : Used, route : BOOLEAN]

LEMMA JobStep ==
    ASSUME AccountsInv, NEW j \in Jobs, NEW s \in JobForms', job' = [job EXCEPT ![j] = s],
           UNCHANGED codeVars, req' = req, traffic' = traffic, answered' = answered,
           UsersInv', UsersGoOn
    PROVE  AccountsInv'
<1>1. JobsInv'
    BY JobMoves DEF AccountsInv
<1>2. QED
    BY <1>1, NoRequestsStep

LEMMA JobOf ==
    ASSUME AccountsInv, NEW j \in Jobs, job[j].at \in {"va", "customer", "save", "account"}
    PROVE  job[j] \in Provisioning /\ job[j].row \in Used
<1>1. job[j] \in JobForms
    BY DEF AccountsInv, JobsInv, JobForms
<1>2. job[j] # Idle
    BY DEF Idle
<1>3. job[j] \notin [at : {"record"}, row : Used, route : BOOLEAN, va : Nat]
    OBVIOUS
<1>4. QED
    BY <1>1, <1>2, <1>3 DEF JobForms, Provisioning

LEMMA JobGoes ==
    ASSUME AccountsInv, NEW j \in Jobs, job[j] \in Provisioning,
           NEW step \in {"customer", "save", "account"}, JobGoto(j, step) \/ JobDone(j),
           UNCHANGED codeVars, req' = req, traffic' = traffic, answered' = answered,
           UsersInv', UsersGoOn
    PROVE  AccountsInv'
<1>1. CASE JobDone(j)
    <2>1. Idle \in JobForms'
        BY DEF JobForms
    <2>2. QED
        BY <1>1, <2>1, JobStep DEF JobDone
<1>2. CASE JobGoto(j, step)
    <2>1. PICK s : s = [job[j] EXCEPT !.at = step]
        OBVIOUS
    <2>2. s \in Provisioning
        BY <2>1 DEF Provisioning
    <2>3. Used \subseteq Used'
        BY DEF UsersGoOn
    <2>4. s \in JobForms'
        BY <2>2, <2>3 DEF JobForms, Provisioning
    <2>5. job' = [job EXCEPT ![j] = s]
        BY <1>2, <2>1 DEF JobGoto
    <2>6. QED
        BY <2>4, <2>5, JobStep
<1>3. QED
    BY <1>1, <1>2

LEMMA LooksForAccountStep ==
    ASSUME AccountsInv, NEW j \in Jobs, LooksForAccount(j) \/ CreatesCustomer(j)
    PROVE  AccountsInv'
<1>1. job[j] \in Provisioning
    BY JobOf DEF LooksForAccount, CreatesCustomer
<1>2. PICK step \in {"customer", "save", "account"} : JobGoto(j, step) \/ JobDone(j)
    BY DEF LooksForAccount, CreatesCustomer, FindsDuplicate
<1>3. UNCHANGED <<codeVars, req, traffic, answered, users>>
    BY DEF LooksForAccount, CreatesCustomer, rest
<1>4. UsersInv' /\ UsersGoOn
    BY <1>3, SameUsers DEF AccountsInv
<1>5. QED
    BY <1>1, <1>2, <1>3, <1>4, JobGoes

LEMMA SavesCustomerStep ==
    ASSUME AccountsInv, NEW j \in Jobs, SavesCustomer(j)
    PROVE  AccountsInv'
<1>1. job[j] \in Provisioning /\ JobGoto(j, "account")
    BY JobOf DEF SavesCustomer
<1>2. UNCHANGED <<codeVars, req, traffic, answered>>
    BY DEF SavesCustomer, rest
<1>3. PICK u : u = job[j].row /\ u \in Used
    BY JobOf DEF SavesCustomer
<1>4. users[u] \in Users
    BY <1>3, UserTyped DEF AccountsInv
<1>5. PICK user : user = [users[u] EXCEPT !.customer = TRUE]
    OBVIOUS
<1>6. user \in Users /\ user.did = users[u].did
    BY <1>4, <1>5 DEF Users
<1>7. users' = [users EXCEPT ![u] = user]
    BY <1>3, <1>5 DEF SavesCustomer
<1>8. UsersInv' /\ UsersGoOn
    BY <1>3, <1>6, <1>7, RowChanges DEF AccountsInv
<1>9. QED
    BY <1>1, <1>2, <1>8, JobGoes

(* What Pouch holds and what is recorded of it *)
PouchInv ==
    /\ pouch \in [Rows -> [customer : BOOLEAN, opened : Nat, routes : Nat]]
    /\ va \in [Rows -> Nat]

LEMMA OpenedIsCounted ==
    ASSUME NEW n \in Nat
    PROVE  Min({n + 1, MaxOpened}) \in Nat
<1>1. MaxOpened \in Nat /\ n + 1 \in Nat
    <2>1. MaxOpened \in Nat \ {0}
        BY AccountsAssumption, Zenon
    <2>2. QED
        BY <2>1
<1>2. \E x \in {n + 1, MaxOpened} : \A y \in {n + 1, MaxOpened} : x <= y
    BY <1>1
<1>3. QED
    BY <1>1, <1>2 DEF Min

LEMMA OpensAccountStep ==
    ASSUME AccountsInv, PouchInv, NEW j \in Jobs, OpensAccount(j)
    PROVE  AccountsInv' /\ PouchInv'
<1>1. job[j] \in Provisioning /\ job[j].row \in Used
    BY JobOf DEF OpensAccount
<1>2. PICK u, route : u = job[j].row /\ route = job[j].route
    OBVIOUS
<1>3. u \in Used /\ u \in Rows /\ route \in BOOLEAN
    BY <1>1, <1>2 DEF Provisioning, Used
<1>4. /\ pouch[u] \in [customer : BOOLEAN, opened : Nat, routes : Nat]
      /\ va \in [Rows -> Nat]
    BY <1>3 DEF PouchInv
<1>5. PICK kept : kept = (job[j].route /\ pouch[u].routes # 0)
    OBVIOUS
<1>6. PICK n : n = IF kept THEN pouch[u].routes ELSE Min({pouch[u].opened + 1, MaxOpened})
    OBVIOUS
<1>7. n \in Nat
    BY <1>4, <1>6, OpenedIsCounted
<1>8. PICK opened, routes : /\ opened = IF kept THEN pouch[u].opened ELSE n
                            /\ routes = IF route THEN n ELSE pouch[u].routes
    OBVIOUS
<1>9. opened \in Nat /\ routes \in Nat
    BY <1>4, <1>7, <1>8
<1>10. PICK half : half = [pouch[u] EXCEPT !.opened = opened]
    OBVIOUS
<1>11. /\ half \in [customer : BOOLEAN, opened : Nat, routes : Nat]
       /\ half.routes = pouch[u].routes
    BY <1>4, <1>9, <1>10
<1>12. PICK entry : entry = [half EXCEPT !.routes = routes]
    OBVIOUS
<1>13. entry \in [customer : BOOLEAN, opened : Nat, routes : Nat]
    BY <1>9, <1>11, <1>12
<1>14. job' = [job EXCEPT ![j] = [at |-> "record", row |-> u, route |-> route, va |-> n]]
    BY <1>2, <1>5, <1>6, Zenon DEF OpensAccount
<1>15. pouch' = [pouch EXCEPT ![u] = entry]
    <2>1. pouch' = [pouch EXCEPT ![u].opened = IF kept THEN @ ELSE n,
                                 ![u].routes = IF route THEN n ELSE @]
        BY <1>2, <1>5, <1>6, Zenon DEF OpensAccount
    <2>2. PICK mid : mid = [pouch EXCEPT ![u] = half]
        OBVIOUS
    <2>3. mid[u] = half /\ DOMAIN pouch = Rows
        BY <1>3, <2>2 DEF PouchInv
    <2>4. pouch' = [mid EXCEPT ![u] = entry]
        BY <1>3, <1>8, <1>10, <1>11, <1>12, <2>1, <2>2, <2>3
    <2>5. QED
        BY <2>2, <2>4
<1>16. UNCHANGED <<codeVars, req, traffic, answered, users, va>>
    BY DEF OpensAccount, rest
<1>17. PouchInv'
    BY <1>3, <1>13, <1>15, <1>16 DEF PouchInv
<1>18. UsersInv' /\ UsersGoOn
    BY <1>16, SameUsers DEF AccountsInv
<1>19. u \in Used'
    BY <1>3, <1>18 DEF UsersGoOn
<1>20. [at |-> "record", row |-> u, route |-> route, va |-> n] \in JobForms'
    BY <1>3, <1>7, <1>19 DEF JobForms
<1>21. QED
    BY <1>14, <1>16, <1>17, <1>18, <1>20, JobStep

LEMMA JobEnds ==
    ASSUME AccountsInv, NEW j \in Jobs, JobDone(j),
           UNCHANGED codeVars, req' = req, traffic' = traffic, answered' = answered, users' = users
    PROVE  AccountsInv'
<1>1. UsersInv' /\ UsersGoOn
    BY SameUsers DEF AccountsInv
<1>2. Idle \in JobForms'
    BY DEF JobForms
<1>3. QED
    BY <1>1, <1>2, JobStep DEF JobDone

LEMMA AsksForAccountStep ==
    ASSUME AccountsInv, AsksForAccount
    PROVE  AccountsInv'
<1>1. UNCHANGED <<codeVars, req, traffic, answered, users>>
    BY DEF AsksForAccount
<1>2. PICK u \in Living, j \in Jobs :
         job' = [job EXCEPT ![j] = [at |-> IF users[u].customer THEN "account" ELSE "customer",
                                    row |-> u, route |-> TRUE]]
    BY DEF AsksForAccount
<1>3. UsersInv' /\ UsersGoOn
    BY <1>1, SameUsers DEF AccountsInv
<1>4. u \in Used'
    BY <1>2, <1>3 DEF Living, UsersGoOn
<1>5. [at |-> IF users[u].customer THEN "account" ELSE "customer", row |-> u, route |-> TRUE]
         \in JobForms'
    BY <1>4 DEF JobForms
<1>6. QED
    BY <1>1, <1>2, <1>3, <1>5, JobStep

LEMMA UpdatesProfileStep ==
    ASSUME AccountsInv, UpdatesProfile
    PROVE  AccountsInv'
<1>1. UNCHANGED <<codeVars, req, traffic, answered, job>>
    BY DEF UpdatesProfile
<1>2. PICK u \in Living :
         \/ \E e \in Emails : users' = [users EXCEPT ![u].email = e]
         \/ \E p \in Numbers : users' = [users EXCEPT ![u].phone = p]
    BY DEF UpdatesProfile
<1>3. u \in Used /\ UsersInv
    BY DEF Living, AccountsInv
<1>4. users[u] \in Users
    BY <1>3, UserTyped
<1>5. PICK user : /\ user \in Users /\ user.did = users[u].did
                  /\ users' = [users EXCEPT ![u] = user]
    <2>1. ASSUME NEW e \in Emails, users' = [users EXCEPT ![u].email = e]
          PROVE  /\ [users[u] EXCEPT !.email = e] \in Users
                 /\ [users[u] EXCEPT !.email = e].did = users[u].did
                 /\ users' = [users EXCEPT ![u] = [users[u] EXCEPT !.email = e]]
        BY <1>4, <2>1 DEF Users
    <2>2. ASSUME NEW p \in Phones, users' = [users EXCEPT ![u].phone = p]
          PROVE  /\ [users[u] EXCEPT !.phone = p] \in Users
                 /\ [users[u] EXCEPT !.phone = p].did = users[u].did
                 /\ users' = [users EXCEPT ![u] = [users[u] EXCEPT !.phone = p]]
        BY <1>4, <2>2 DEF Users
    <2>3. QED
        BY <1>2, <2>1, <2>2, NumbersArePhones
<1>6. UsersInv' /\ UsersGoOn
    BY <1>3, <1>5, RowChanges
<1>7. JobsInv'
    BY <1>1, <1>6, JobsStay DEF AccountsInv
<1>8. QED
    BY <1>1, <1>6, <1>7, NoRequestsStep

LEMMA DeletesAccountStep ==
    ASSUME AccountsInv, DeletesAccount
    PROVE  AccountsInv'
<1>1. UNCHANGED <<codeVars, req, traffic, answered, job>>
    BY DEF DeletesAccount
<1>2. PICK u \in Living :
         users' = [users EXCEPT ![u].did = Deleted(u), ![u].email = None,
                                ![u].phone = None, ![u].hash = FALSE]
    BY Zenon DEF DeletesAccount
<1>3. u \in Used /\ u \in Rows /\ UsersInv
    BY DEF Living, Used, AccountsInv
<1>4. users[u] \in Users
    BY <1>3, UserTyped
<1>5. Deleted(u) \in Identities
    BY <1>3 DEF Deleted, Identities
<1>6. PICK d : d = [users[u] EXCEPT !.did = Deleted(u)]
    OBVIOUS
<1>7. d \in Users /\ d.did = Deleted(u)
    BY <1>4, <1>5, <1>6 DEF Users
<1>8. PICK e : e = [d EXCEPT !.email = None]
    OBVIOUS
<1>9. e \in Users /\ e.did = Deleted(u)
    BY <1>7, <1>8 DEF Users
<1>10. PICK p : p = [e EXCEPT !.phone = None]
    OBVIOUS
<1>11. p \in Users /\ p.did = Deleted(u)
    BY <1>9, <1>10 DEF Users
<1>12. PICK user : user = [p EXCEPT !.hash = FALSE]
    OBVIOUS
<1>13. user \in Users /\ user.did = Deleted(u)
    BY <1>11, <1>12 DEF Users
<1>14. users' = [users EXCEPT ![u] = user]
    <2>1. DOMAIN users = Rows
        BY <1>3 DEF UsersInv
    <2>2. QED
        BY <1>2, <1>3, <1>6, <1>8, <1>10, <1>12, <2>1
<1>15. UsersInv' /\ UsersGoOn
    BY <1>3, <1>13, <1>14, RowChanges
<1>16. JobsInv'
    BY <1>1, <1>15, JobsStay DEF AccountsInv
<1>17. QED
    BY <1>1, <1>15, <1>16, NoRequestsStep

LEMMA DiesStep ==
    ASSUME AccountsInv, Dies
    PROVE  AccountsInv'
<1>1. /\ req' = [r \in Requests |-> Idle] /\ job' = [j \in Jobs |-> Idle]
      /\ managed' = [p \in Phones |-> FALSE]
      /\ UNCHANGED <<otp, twilio, inbox, issued, users, answered, traffic>>
    BY DEF Dies
<1>2. UsersInv' /\ UsersGoOn
    BY <1>1, SameUsers DEF AccountsInv
<1>3. AnsweredInv'
    BY <1>1, <1>2, AnsweredStays DEF AccountsInv
<1>4. JobsInv'
    BY <1>1 DEF JobsInv
<1>5. RequestsInv'
    BY <1>1 DEF RequestsInv
<1>6. ASSUME NEW c \in Codes, NEW p \in Phones, HeldFor(c, p)'  PROVE HeldFor(c, p)
    <2>1. \A r \in Requests : req'[r].at \notin WithEntry /\ req'[r].at # "deliver"
        BY <1>1, OpenForms DEF Codeless
    <2>2. QED
        BY <1>1, <1>6, <2>1 DEF HeldFor
<1>7. OneNumberPerCode'
    BY <1>1, <1>6, HoldersShrink DEF AccountsInv, CodesInv
<1>8. CodesInv'
    BY <1>1, <1>7 DEF AccountsInv, CodesInv, CodesTyped, Entries
<1>9. QED
    BY <1>1, <1>2, <1>3, <1>4, <1>5, <1>8 DEF AccountsInv

LEMMA RunOutStep ==
    ASSUME AccountsInv, RunOut, UNCHANGED <<accountVars, traffic>>
    PROVE  AccountsInv'
<1>1. UNCHANGED <<managed, twilio, inbox, issued, req, users, answered, job, traffic>>
    BY DEF RunOut, accountVars
<1>2. UsersInv' /\ UsersGoOn
    BY <1>1, SameUsers DEF AccountsInv
<1>3. AnsweredInv' /\ JobsInv'
    BY <1>1, <1>2, AnsweredStays, JobsStay DEF AccountsInv
<1>4. RequestsInv'
    BY <1>1, <1>2, RequestsStay DEF AccountsInv, InboxGrows
<1>5. /\ otp' \in [Keys -> Entries \cup {None}]
      /\ \A k \in Keys : otp'[k] = None \/ otp'[k] = otp[k]
    <2>1. otp \in [Keys -> Entries \cup {None}]
        BY CodesAreTyped
    <2>2. otp' = otp \/ \E k \in Keys : otp' = [otp EXCEPT ![k] = None]
        BY DEF RunOut
    <2>3. QED
        BY <2>1, <2>2
<1>6. ASSUME NEW c \in Codes, NEW p \in Phones, HeldFor(c, p)'  PROVE HeldFor(c, p)
    BY <1>1, <1>5, <1>6 DEF HeldFor
<1>7. OneNumberPerCode'
    BY <1>1, <1>6, HoldersShrink DEF AccountsInv, CodesInv
<1>8. CodesInv'
    BY <1>1, <1>5, <1>7 DEF AccountsInv, CodesInv, CodesTyped, Entries
<1>9. QED
    BY <1>1, <1>2, <1>3, <1>4, <1>8 DEF AccountsInv

LEMMA CodesStepStep ==
    ASSUME AccountsInv, NEW r \in Requests, CodeStep(r), UNCHANGED <<accountVars, traffic>>
    PROVE  AccountsInv'
BY QuietCodeSteps, StoreStep, DeliverStep, NoteStep, UndoStep, ReadEntryStep, CheckCodeStep,
   MissStep, SpendStep, ClearCodeStep DEF CodeStep

LEMMA ContinuesStep ==
    ASSUME AccountsInv, NEW r \in Requests, Continues(r)
    PROVE  AccountsInv'
<1>1. CASE SignupFinds(r) \/ Claim(r) \/ Upgrade(r) \/ SignupCreates(r)
    BY <1>1, SignupFindsStep, ClaimStep, UpgradeStep, SignupCreatesStep
<1>2. CASE EnsureDriver(r) \/ PublishCreated(r) \/ EnsureWallet(r) \/ CreateDriver(r)
    BY <1>2, EnsureDriverStep, EnsureWalletStep
<1>3. CASE SocialFinds(r) \/ SocialLinks(r) \/ SocialCreates(r)
    BY <1>3, SocialFindsStep, SocialCreatesStep
<1>4. CASE Onboards(r) \/ WhatsappCreates(r) \/ Raced(r)
    BY <1>4, OnboardsStep, WhatsappCreatesStep, RacedStep
<1>5. CASE PutsNumber(r) \/ ResolvesLogin(r) \/ ResetFinds(r) \/ SetsPassword(r)
    BY <1>5, PutsNumberStep, ResolvesLoginStep, ResetFindsStep, SetsPasswordStep
<1>6. CASE CodeStep(r) /\ UNCHANGED <<accountVars, left, faults, traffic>>
    BY <1>6, CodesStepStep
<1>7. QED
    BY <1>1, <1>2, <1>3, <1>4, <1>5, <1>6 DEF Continues

LEMMA AccountsStutter ==
    ASSUME AccountsInv, UNCHANGED everything
    PROVE  AccountsInv'
<1>1. UNCHANGED <<codeVars, req, traffic, answered, users, job>>
    BY DEF everything, accountVars
<1>2. UsersInv' /\ UsersGoOn
    BY <1>1, SameUsers DEF AccountsInv
<1>3. JobsInv'
    BY <1>1, <1>2, JobsStay DEF AccountsInv
<1>4. QED
    BY <1>1, <1>2, <1>3, NoRequestsStep

LEMMA JobSucceedsStep ==
    ASSUME AccountsInv, PouchInv, NEW j \in Jobs, JobSucceeds(j) \/ JobFails(j)
    PROVE  AccountsInv'
<1>1. CASE RecordsAccount(j) \/ JobFails(j)
    <2>1. JobDone(j) /\ UNCHANGED <<codeVars, req, traffic, answered, users>>
        BY <1>1 DEF RecordsAccount, JobFails, rest, restButFaults
    <2>2. QED
        BY <2>1, JobEnds
<1>2. QED
    BY <1>1, LooksForAccountStep, SavesCustomerStep, OpensAccountStep DEF JobSucceeds

LEMMA AccountsStep ==
    ASSUME AccountsInv, PouchInv, [AccountsNext]_everything
    PROVE  AccountsInv'
<1>1. ASSUME NEW r \in Requests,
             \/ Signup(r) \/ GoogleSignIn(r) \/ AppleSignIn(r) \/ ResetPassword(r)
             \/ \E p \in Phones : Message(r, p)
             \/ AsksCode(r) \/ EntersCode(r) \/ Continues(r)
      PROVE  AccountsInv'
    BY <1>1, PeopleCome, WriterComes, AsksCodeStep, EntersCodeStep, ContinuesStep
<1>2. ASSUME NEW j \in Jobs, JobSucceeds(j) \/ JobFails(j)  PROVE AccountsInv'
    BY <1>2, JobSucceedsStep
<1>3. CASE AsksForAccount \/ UpdatesProfile \/ DeletesAccount \/ Dies
    BY <1>3, AsksForAccountStep, UpdatesProfileStep, DeletesAccountStep, DiesStep
<1>4. CASE RunOut /\ UNCHANGED <<accountVars, left, faults, traffic>>
    BY <1>4, RunOutStep
<1>5. CASE UNCHANGED everything
    BY <1>5, AccountsStutter
<1>6. QED
    BY <1>1, <1>2, <1>3, <1>4, <1>5 DEF AccountsNext

(* What Pouch holds changes only with the calls to it. *)
LEMMA PouchStays ==
    ASSUME AccountsInv, PouchInv, [AccountsNext]_everything
    PROVE  PouchInv'
<1>1. CASE pouch' = pouch /\ va' = va
    BY <1>1 DEF PouchInv
<1>2. ASSUME NEW r \in Requests,
             \/ Signup(r) \/ GoogleSignIn(r) \/ AppleSignIn(r) \/ ResetPassword(r)
             \/ \E p \in Phones : Message(r, p)
             \/ AsksCode(r) \/ EntersCode(r)
      PROVE  pouch' = pouch /\ va' = va
    <2>1. ASSUME NEW door, NEW s, Comes(r, door, s)  PROVE pouch' = pouch /\ va' = va
        BY <2>1 DEF Comes, accountVars
    <2>2. CASE Signup(r)
        BY <2>1, <2>2 DEF Signup
    <2>3. CASE GoogleSignIn(r) \/ AppleSignIn(r)
        BY <2>1, <2>3 DEF GoogleSignIn, AppleSignIn, SignsIn
    <2>4. CASE ResetPassword(r)
        BY <2>1, <2>4 DEF ResetPassword
    <2>5. CASE (\E p \in Phones : Message(r, p)) \/ AsksCode(r) \/ EntersCode(r)
        BY <2>5 DEF Message, AsksCode, EntersCode, accountVars
    <2>6. QED
        BY <1>2, <2>2, <2>3, <2>4, <2>5
<1>3. ASSUME NEW r \in Requests, Continues(r)  PROVE pouch' = pouch /\ va' = va
    <2>1. CASE SignupFinds(r) \/ Claim(r) \/ Upgrade(r) \/ SignupCreates(r)
        BY <2>1 DEF SignupFinds, Claim, Upgrade, SignupCreates, accountVars
    <2>2. CASE EnsureDriver(r) \/ PublishCreated(r) \/ EnsureWallet(r) \/ CreateDriver(r)
        BY <2>2 DEF EnsureDriver, PublishCreated, EnsureWallet, CreateDriver, accountVars
    <2>3. CASE SocialFinds(r) \/ SocialLinks(r) \/ SocialCreates(r)
        BY <2>3 DEF SocialFinds, SocialLinks, SocialCreates, Serve, accountVars
    <2>4. CASE Onboards(r) \/ WhatsappCreates(r) \/ Raced(r)
        BY <2>4 DEF Onboards, WhatsappCreates, Raced, accountVars
    <2>5. CASE PutsNumber(r) \/ ResolvesLogin(r) \/ ResetFinds(r) \/ SetsPassword(r)
        BY <2>5 DEF PutsNumber, ResolvesLogin, ResetFinds, SetsPassword, accountVars
    <2>6. CASE CodeStep(r) /\ UNCHANGED <<accountVars, left, faults, traffic>>
        BY <2>6 DEF accountVars
    <2>7. QED
        BY <1>3, <2>1, <2>2, <2>3, <2>4, <2>5, <2>6 DEF Continues
<1>4. ASSUME NEW j \in Jobs, JobSucceeds(j) \/ JobFails(j)  PROVE PouchInv'
    <2>1. CASE LooksForAccount(j) \/ SavesCustomer(j) \/ JobFails(j)
        BY <1>1, <2>1 DEF LooksForAccount, SavesCustomer, JobFails
    <2>2. CASE CreatesCustomer(j)
        <3>1. PICK u \in Rows : u = job[j].row
            BY <2>2, JobOf DEF CreatesCustomer, Used
        <3>2. pouch[u] \in [customer : BOOLEAN, opened : Nat, routes : Nat] /\ va' = va
            BY <2>2 DEF PouchInv, CreatesCustomer
        <3>3. PICK entry : entry = [pouch[u] EXCEPT !.customer = TRUE]
            OBVIOUS
        <3>4. entry \in [customer : BOOLEAN, opened : Nat, routes : Nat]
            BY <3>2, <3>3
        <3>5. pouch' = pouch \/ pouch' = [pouch EXCEPT ![u] = entry]
            BY <2>2, <3>1, <3>3 DEF CreatesCustomer
        <3>6. QED
            BY <3>2, <3>4, <3>5 DEF PouchInv
    <2>3. CASE OpensAccount(j)
        BY <2>3, OpensAccountStep
    <2>4. CASE RecordsAccount(j)
        <3>1. job[j] \in JobForms /\ job[j] # Idle /\ job[j].at = "record"
            BY <2>4 DEF AccountsInv, JobsInv, JobForms, RecordsAccount, Idle
        <3>2. job[j] \in [at : {"record"}, row : Used, route : BOOLEAN, va : Nat]
            BY <3>1 DEF JobForms
        <3>3. PICK u, n : u = job[j].row /\ n = IF va[u] = 0 THEN job[j].va ELSE va[u]
            OBVIOUS
        <3>4. u \in Rows /\ n \in Nat
            BY <3>2, <3>3 DEF Used, PouchInv
        <3>5. va' = [va EXCEPT ![u] = n] /\ pouch' = pouch
            BY <2>4, <3>3 DEF RecordsAccount
        <3>6. QED
            BY <3>4, <3>5 DEF PouchInv
    <2>5. QED
        BY <1>4, <2>1, <2>2, <2>3, <2>4 DEF JobSucceeds
<1>5. CASE AsksForAccount \/ UpdatesProfile \/ DeletesAccount \/ Dies
    <2>1. CASE AsksForAccount
        BY <1>1, <2>1 DEF AsksForAccount
    <2>2. CASE UpdatesProfile \/ DeletesAccount
        <3>1. pouch' = pouch /\ va' = va
            BY <2>2, Zenon DEF UpdatesProfile, DeletesAccount
        <3>2. QED
            BY <1>1, <3>1
    <2>3. CASE Dies
        BY <1>1, <2>3 DEF Dies
    <2>4. QED
        BY <1>5, <2>1, <2>2, <2>3
<1>6. CASE RunOut /\ UNCHANGED <<accountVars, left, faults, traffic>>
    BY <1>1, <1>6 DEF accountVars
<1>7. CASE UNCHANGED everything
    BY <1>1, <1>7 DEF everything, accountVars
<1>8. QED
    BY <1>1, <1>2, <1>3, <1>4, <1>5, <1>6, <1>7 DEF AccountsNext

LEMMA AccountsStart ==
    ASSUME AccountsInit
    PROVE  AccountsInv /\ PouchInv
<1>1. PouchInv
    BY DEF AccountsInit, PouchInv
<1>2. /\ \A u \in Rows : users[u] = None \/
            (u = 1 /\ users[u] = [did |-> Local(1), email |-> None, phone |-> None,
                                  hash |-> TRUE, role |-> "RIDER", customer |-> FALSE])
      /\ users = [u \in Rows |-> users[u]]
    BY DEF AccountsInit
<1>3. \A u \in Rows : users[u] # None => u = 1 /\ users[u] \in Users /\ users[u].did = Local(1)
    <2>1. ASSUME NEW u \in Rows, u = 1,
                 users[u] = [did |-> Local(1), email |-> None, phone |-> None, hash |-> TRUE,
                             role |-> "RIDER", customer |-> FALSE]
          PROVE  users[u] \in Users /\ users[u].did = Local(1)
        <3>1. Local(1) \in Identities
            BY <2>1, LocalIdentity
        <3>2. QED
            BY <2>1, <3>1 DEF Users
    <2>2. QED
        BY <1>2, <2>1
<1>4. UsersInv
    <2>1. users \in [Rows -> Users \cup {None}]
        BY <1>2, <1>3
    <2>2. Local(1)[1] # "deleted"
        BY DEF Local
    <2>3. QED
        BY <1>3, <2>1, <2>2 DEF UsersInv, OneIdentity, DeletedByItself, Used
<1>5. AnsweredInv
    BY DEF AccountsInit, AnsweredInv
<1>6. JobsInv /\ RequestsInv
    BY DEF AccountsInit, CodesInit, JobsInv, RequestsInv
<1>7. CodesTyped
    BY DEF AccountsInit, CodesInit, CodesTyped
<1>8. ASSUME NEW c, NEW p \in Phones  PROVE ~HeldFor(c, p)
    <2>1. \A r \in Requests : req[r].at \notin WithEntry /\ req[r].at # "deliver"
        BY OpenForms DEF AccountsInit, CodesInit, Codeless
    <2>2. QED
        BY <2>1 DEF AccountsInit, CodesInit, HeldFor
<1>9. CodesInv
    BY <1>7, <1>8 DEF AccountsInit, CodesInit, CodesInv, OneNumberPerCode
<1>10. QED
    BY <1>1, <1>4, <1>5, <1>6, <1>9 DEF AccountsInv, AccountsInit

(***************************************************************************)
(* What is in hand is well-formed wherever it stands: identities are one   *)
(* account's, the writer of a number is the account its messages are       *)
(* served as, and a code anywhere in Redis, in a request or in an inbox is *)
(* one number's.                                                           *)
(***************************************************************************)
THEOREM AccountsInvariant == AccountsSpec => []AccountsInv
<1>1. AccountsInit => AccountsInv /\ PouchInv
    BY AccountsStart
<1>2. AccountsInv /\ PouchInv /\ [AccountsNext]_everything => (AccountsInv /\ PouchInv)'
    BY AccountsStep, PouchStays
<1>3. QED
    BY <1>1, <1>2, PTL DEF AccountsSpec

(* The steps that change who a number's messages are served as, or which    *)
(* numbers are proved                                                       *)
LEMMA AnswersAndProofs ==
    ASSUME [AccountsNext]_everything
    PROVE  \/ answered' = answered /\ verified' = verified
           \/ \E r \in Requests : PutsNumber(r) \/ EnsureWallet(r) \/ Raced(r)
<1>1. ASSUME NEW r \in Requests,
             \/ Signup(r) \/ GoogleSignIn(r) \/ AppleSignIn(r) \/ ResetPassword(r)
             \/ \E p \in Phones : Message(r, p)
             \/ AsksCode(r) \/ EntersCode(r)
      PROVE  answered' = answered /\ verified' = verified
    <2>1. ASSUME NEW door, NEW s, Comes(r, door, s)
          PROVE  answered' = answered /\ verified' = verified
        BY <2>1 DEF Comes, accountVars
    <2>2. CASE Signup(r)
        BY <2>1, <2>2 DEF Signup
    <2>3. CASE GoogleSignIn(r) \/ AppleSignIn(r)
        BY <2>1, <2>3 DEF GoogleSignIn, AppleSignIn, SignsIn
    <2>4. CASE ResetPassword(r)
        BY <2>1, <2>4 DEF ResetPassword
    <2>5. CASE (\E p \in Phones : Message(r, p)) \/ AsksCode(r) \/ EntersCode(r)
        BY <2>5 DEF Message, AsksCode, EntersCode, accountVars
    <2>6. QED
        BY <1>1, <2>2, <2>3, <2>4, <2>5
<1>2. ASSUME NEW r \in Requests, Continues(r), ~(PutsNumber(r) \/ EnsureWallet(r) \/ Raced(r))
      PROVE  answered' = answered /\ verified' = verified
    <2>1. CASE SignupFinds(r) \/ Claim(r) \/ Upgrade(r) \/ SignupCreates(r)
        BY <2>1 DEF SignupFinds, Claim, Upgrade, SignupCreates, accountVars
    <2>2. CASE EnsureDriver(r) \/ PublishCreated(r) \/ CreateDriver(r)
        BY <2>2 DEF EnsureDriver, PublishCreated, CreateDriver, accountVars
    <2>3. CASE SocialFinds(r) \/ SocialLinks(r) \/ SocialCreates(r)
        BY <2>3 DEF SocialFinds, SocialLinks, SocialCreates, Serve, accountVars
    <2>4. CASE Onboards(r) \/ WhatsappCreates(r)
        BY <2>4 DEF Onboards, WhatsappCreates, accountVars
    <2>5. CASE ResolvesLogin(r) \/ ResetFinds(r) \/ SetsPassword(r)
        BY <2>5 DEF ResolvesLogin, ResetFinds, SetsPassword, accountVars
    <2>6. CASE CodeStep(r) /\ UNCHANGED <<accountVars, left, faults, traffic>>
        BY <2>6 DEF accountVars
    <2>7. QED
        BY <1>2, <2>1, <2>2, <2>3, <2>4, <2>5, <2>6 DEF Continues
<1>3. ASSUME NEW j \in Jobs, JobSucceeds(j) \/ JobFails(j)
      PROVE  answered' = answered /\ verified' = verified
    BY <1>3 DEF JobSucceeds, JobFails, LooksForAccount, CreatesCustomer, SavesCustomer,
                OpensAccount, RecordsAccount
<1>4. CASE AsksForAccount
    BY <1>4 DEF AsksForAccount
<1>5. CASE UpdatesProfile \/ DeletesAccount
    BY <1>5, Zenon DEF UpdatesProfile, DeletesAccount
<1>6. CASE Dies
    BY <1>6 DEF Dies
<1>7. CASE RunOut /\ UNCHANGED <<accountVars, left, faults, traffic>>
    BY <1>7 DEF accountVars
<1>8. CASE UNCHANGED everything
    BY <1>8 DEF everything, accountVars
<1>9. QED
    BY <1>1, <1>2, <1>3, <1>4, <1>5, <1>6, <1>7, <1>8 DEF AccountsNext

(***************************************************************************)
(* A number an account proved was proved by a code that had reached it:    *)
(* only a number of an entry whose code was judged right is written, and   *)
(* a right code is one of that number, whoever's process judged it         *)
(* (phone.route.ts).                                                       *)
(***************************************************************************)
THEOREM NumbersProven == AccountsSpec => NumberWasProven
<1>1. ASSUME AccountsInv, [AccountsNext]_everything, NEW u \in Rows, NEW p \in Phones,
             <<u, p>> \in verified' \ verified
      PROVE  \E r \in Requests :
                /\ At(r, "write") /\ req[r].key = AccountKey(u)
                /\ req[r].code \in inbox[p]
    <2>1. PICK r \in Requests : PutsNumber(r) \/ EnsureWallet(r) \/ Raced(r)
        BY <1>1, AnswersAndProofs
    <2>2. PutsNumber(r)
        BY <1>1, <2>1 DEF EnsureWallet, Raced
    <2>3. At(r, "write") /\ verified' = verified \cup {<<req[r].key[2], req[r].entry.phone>>}
        BY <2>2 DEF PutsNumber, ProvedNumber
    <2>4. u = req[r].key[2] /\ p = req[r].entry.phone
        BY <1>1, <2>3
    <2>5. req[r] \in Naming
        BY <1>1, <2>3, FormAt
    <2>6. QED
        BY <2>3, <2>4, <2>5, NamesItsNumber
<1>2. AccountsInv /\ [AccountsNext]_everything =>
         [\A u \in Rows, p \in Phones :
            <<u, p>> \in verified' \ verified =>
              \E r \in Requests :
                /\ At(r, "write") /\ req[r].key = AccountKey(u)
                /\ req[r].code \in inbox[p]]_everything
    BY <1>1
<1>3. QED
    BY <1>2, AccountsInvariant, PTL DEF AccountsSpec, NumberWasProven

LEMMA AnsweredByWriter ==
    ASSUME AccountsInv, NEW r \in Requests, EnsureWallet(r) \/ Raced(r), NEW p \in Phones,
           answered'[p] # answered[p]
    PROVE  users' = users /\ answered'[p] \in Used /\ Writes(answered'[p], p)
<1>1. users' = users
    BY DEF EnsureWallet, Raced
<1>2. CASE EnsureWallet(r)
    <2>1. answered' = [answered EXCEPT ![req[r].from] = req[r].row] /\ "from" \in DOMAIN req[r]
        BY <1>2 DEF EnsureWallet
    <2>2. req[r] \in Served
        BY <1>2, <2>1, FormAt DEF EnsureWallet, Claiming, Creating, SignedIn
    <2>3. PICK n, u : n = req[r].from /\ u = req[r].row
        OBVIOUS
    <2>4. n \in Phones /\ u \in Used /\ Writes(u, n)
        BY <2>2, <2>3 DEF Served
    <2>5. \A q \in Phones : answered'[q] = IF q = n THEN u ELSE answered[q]
        BY <2>1, <2>3 DEF AccountsInv, AnsweredInv
    <2>6. p = n /\ answered'[p] = u
        BY <2>5
    <2>7. QED
        BY <1>1, <2>4, <2>6
<1>3. CASE Raced(r)
    <2>1. PICK n : n = req[r].from
        OBVIOUS
    <2>2. n \in Phones
        BY <1>3, <2>1, FormAt DEF Raced, Writing
    <2>3. PICK u : u = CHOOSE v \in ByDid(Whatsapp(n)) : TRUE
        OBVIOUS
    <2>4. answered' = [answered EXCEPT ![n] =
             IF ByDid(Whatsapp(n)) = {} THEN answered[n] ELSE u]
        BY <1>3, <2>1, <2>3 DEF Raced
    <2>5. p = n /\ ByDid(Whatsapp(n)) # {} /\ answered'[p] = u
        BY <2>4 DEF AccountsInv, AnsweredInv
    <2>6. QED
        BY <1>1, <2>2, <2>3, <2>5, WriterFound
<1>4. QED
    BY <1>2, <1>3

(***************************************************************************)
(* The messages of a number are served as one account until it is deleted, *)
(* two first messages at once included: an identity is one account's, and  *)
(* who lost the race is served as who won it (onboardWhatsappUser).        *)
(***************************************************************************)
THEOREM OneWriterOneAccount == AccountsSpec => OneAccountPerWriter
<1>1. ASSUME AccountsInv, [AccountsNext]_everything, NEW p \in Phones,
             answered'[p] # answered[p], answered[p] # None
      PROVE  \E u \in {answered[p], answered'[p]} : u \notin Living'
    <2>1. PICK r \in Requests : PutsNumber(r) \/ EnsureWallet(r) \/ Raced(r)
        BY <1>1, AnswersAndProofs
    <2>2. EnsureWallet(r) \/ Raced(r)
        BY <1>1, <2>1 DEF PutsNumber
    <2>3. PICK u, v : u = answered[p] /\ v = answered'[p]
        OBVIOUS
    <2>4. u \in Used /\ Writes(u, p)
        BY <1>1, <2>3 DEF AccountsInv, AnsweredInv
    <2>5. users' = users /\ v \in Used /\ Writes(v, p)
        BY <1>1, <2>2, <2>3, AnsweredByWriter
    <2>6. ~(users[u].did = Whatsapp(p) /\ users[v].did = Whatsapp(p))
        BY <1>1, <2>3, <2>4, <2>5 DEF AccountsInv, UsersInv, OneIdentity
    <2>7. PICK w \in {u, v} : users[w].did # Whatsapp(p)
        BY <2>6
    <2>8. w \in Used /\ Writes(w, p)
        BY <2>4, <2>5, <2>7
    <2>9. users'[w].did = Deleted(w)
        BY <2>5, <2>7, <2>8 DEF Writes, Deleted
    <2>10. w \notin Living'
        BY <2>9 DEF Living, Deleted
    <2>11. QED
        BY <2>3, <2>7, <2>10
<1>2. AccountsInv /\ [AccountsNext]_everything =>
         [\A p \in Phones :
            answered'[p] # answered[p] /\ answered[p] # None =>
              \E u \in {answered[p], answered'[p]} : u \notin Living']_everything
    BY <1>1
<1>3. QED
    BY <1>2, AccountsInvariant, PTL DEF AccountsSpec, OneAccountPerWriter
=============================================================================

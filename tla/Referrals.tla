------------------------------ MODULE Referrals ------------------------------
(***************************************************************************)
(* The referral programme of one rider (referral.client.ts, its routes and *)
(* the jobs of referrals/jobs.ts): friends apply the rider's code, a       *)
(* referral is rewarded with a cashback for the friend's first ride in     *)
(* time or, with half of it, when the friend never rode; a cashback        *)
(* freezes when it is not used and thaws for the next friend; it discounts *)
(* the rider's own rides, reserved when a ride is asked for, settled when  *)
(* it is completed, released when it falls through.                        *)
(*                                                                         *)
(* Every write is a transaction at READ COMMITTED: it acts on rows read    *)
(* before, which another transaction may have changed by then.  The model  *)
(* splits such a transaction into the reads and the writes.                *)
(***************************************************************************)
EXTENDS Tally, Sequences

CONSTANTS
    Friends,       \* users who apply the rider's code
    Rides,         \* ids of the rider's rides
    Requests,      \* what asks for a ride: a socket message or an HTTP call
    RideOf,        \* the ride id of each request
    Gateways,      \* gateway processes; each runs the jobs and consumes events
    RideReward,    \* RIDE_QUALIFIED_REWARD_NGN
    NoRideReward,  \* NO_RIDE_EXPIRED_REWARD_NGN
    Fare,          \* a ride's suggested fare, in the same unit
    Batch          \* take: 100 of the jobs' queries

ASSUME ReferralsAssumption ==
    /\ IsFiniteSet(Requests) /\ RideOf \in [Requests -> Rides]
    /\ {RideReward, NoRideReward, Fare, Batch} \subseteq Nat \ {0}

VARIABLES
    referral,   \* Referral.status of each friend; ELSEWHERE has used another code
    age,        \* 0, 1 once expiresAt has passed, 2 once closesAt has
    applied,    \* the friends in the order of appliedAt
    rode,       \* friends with a completed ride inside the reward window
    cashback,   \* ReferralCashback rows
    usage,      \* ReferralCashbackUsage rows, by who reserved them and of which cashback
    ride,       \* the rider's rides: what became of each
    discount,   \* the referralCashbackAppliedNgn it was asked for with
    request,    \* where each request is
    gateway,    \* what each gateway is doing
    late,       \* friends whose ride was stored after the window closed
    crossed,    \* what two transactions worked on at once, and how; also the
                \* rides whose request failed with the ride under way
    dropped     \* rides a driver walked out of, put back into matching

rows == <<referral, rode, cashback, usage>>
clocks == <<age, applied>>
rides == <<ride, discount>>
ghosts == <<late, crossed, dropped>>
referralVars == <<rows, clocks, rides, request, gateway, ghosts>>

ReferralStatuses == {"NONE", "ELSEWHERE", "PENDING", "QUALIFIED_RIDE", "EXPIRED_NO_RIDE", "CLOSED"}
RideStatuses == {"none", "open", "completed", "cancelled"}
Spent == {"RESERVED", "SETTLED"}

Nothing == [i \in {} |-> 0]
Quiet(at, off) == [at |-> at, off |-> off, takes |-> Nothing, left |-> Nothing]
Waiting == Quiet("idle", 0)
Over(end) == Quiet(end, 0)
At(step, friends) ==
    [at |-> step, list |-> friends, friend |-> {}, rewards |-> {}, usages |-> {}]
Idle == At("idle", {})

(* A usage k is that of request k[1] on cashback k[2]. *)
RideOfUsage(k) == RideOf[k[1]]

(* The amount of the usages in S, each no more than a fare. *)
Total(S) == Tally([k \in S |-> usage[k].amount], S, Fare)
UsagesOf(r, statuses) ==
    {k \in DOMAIN usage : RideOfUsage(k) = r /\ usage[k].status \in statuses}

(* Faulty variants, each one slip in the code it stands for. *)
SpendSetsRemaining(p) ==
    [i \in DOMAIN cashback |->
        IF i \notin DOMAIN p.takes THEN cashback[i]
        ELSE [cashback[i] EXCEPT !.remaining = p.left[i],
                                 !.status = IF p.left[i] <= 0 THEN "USED" ELSE "AVAILABLE"]]
SettleFirstUsage(r) ==
    usage' = [k \in DOMAIN usage |->
                 IF k \in UsagesOf(r, {"RESERVED"}) /\ \A j \in UsagesOf(r, {"RESERVED"}) : k[2] <= j[2]
                 THEN [usage[k] EXCEPT !.status = "SETTLED"] ELSE usage[k]]
SettlesAnyStatus(f) == referral[f] # "NONE"
-----------------------------------------------------------------------------

ReferralsInit ==
    /\ age = [f \in Friends |-> 0]
    /\ applied = <<>>
    /\ rode = {}
    /\ cashback = <<>>
    /\ usage = Nothing
    /\ ride = [r \in Rides |-> "none"]
    /\ discount = [r \in Rides |-> 0]
    /\ late = {}
    /\ crossed = {}
    /\ dropped = {}

(***************************************************************************)
(* Friends                                                                 *)
(***************************************************************************)
(* applyCode, one transaction.  The oldest frozen cashback thaws, once:    *)
(* usedToUnlockCashbackId is unique, so two calls that thaw the same one   *)
(* collide, and a code whose oldest frozen cashback has thawed before is   *)
(* refused.  Which one is the oldest is left open.                         *)
Frozen(i) == cashback[i].status = "FROZEN" /\ cashback[i].remaining > 0

ApplyCode(f) ==
    /\ referral[f] = "NONE"
    /\ referral' = [referral EXCEPT ![f] = "PENDING"]
    /\ applied' = Append(applied, f)
    /\ LET frozen == {i \in DOMAIN cashback : Frozen(i)}
       IN  IF frozen = {} THEN UNCHANGED cashback
           ELSE \E i \in frozen :
                   /\ ~cashback[i].thawed
                   /\ cashback' = [cashback EXCEPT ![i].status = "AVAILABLE",
                                       ![i].cold = FALSE, ![i].thawed = TRUE]
    /\ UNCHANGED <<rode, usage, age, rides, request, gateway, ghosts>>

(* A completed ride of the friend, with completedAt inside the window, is  *)
(* stored; RIDE_COMPLETED may be consumed long after that instant.         *)
FriendRides(f) ==
    /\ referral[f] \notin {"NONE", "ELSEWHERE"} /\ f \notin rode
    /\ rode' = rode \cup {f}
    /\ late' = IF age[f] > 0 THEN late \cup {f} ELSE late
    /\ UNCHANGED <<referral, cashback, usage, clocks, rides, request, gateway,
                   crossed, dropped>>

Ages(f) ==
    /\ referral[f] \notin {"NONE", "ELSEWHERE"} /\ age[f] < 2
    /\ age' = [age EXCEPT ![f] = @ + 1]
    /\ UNCHANGED <<rows, applied, rides, request, gateway, ghosts>>

(* freezesAt passes. *)
Cools(i) ==
    /\ i \in DOMAIN cashback /\ ~cashback[i].cold
    /\ cashback' = [cashback EXCEPT ![i].cold = TRUE]
    /\ UNCHANGED <<referral, rode, usage, clocks, rides, request, gateway, ghosts>>

-----------------------------------------------------------------------------
(***************************************************************************)
(* Rewards: one run of the jobs in a gateway                               *)
(***************************************************************************)
Before(e, f) == \E i, j \in DOMAIN applied : i < j /\ applied[i] = e /\ applied[j] = f
Pending == {f \in Friends : referral[f] = "PENDING"}

(* orderBy appliedAt, take: Batch. *)
First(S) == {f \in S : Cardinality({e \in S : Before(e, f)}) < Batch}

(* freezeExpiredCashbacks, then the query of settleQualifiedRideRewards. *)
JobFreezes(g) ==
    /\ gateway[g] = Idle
    /\ cashback' = [i \in DOMAIN cashback |->
           IF cashback[i].status = "AVAILABLE" /\ cashback[i].remaining > 0 /\ cashback[i].cold
           THEN [cashback[i] EXCEPT !.status = "FROZEN"] ELSE cashback[i]]
    /\ gateway' = [gateway EXCEPT ![g] = At("qualify", First(Pending))]
    /\ UNCHANGED <<referral, rode, usage, clocks, rides, request, ghosts>>

(* The ride that decides, read before the transaction. *)
HasQualifyingRide(f) == f \in rode
Settles(f) == referral[f] = "PENDING"

(* Nothing to do for the next in line, or its transaction reads the rows. *)
JobReads(g) ==
    /\ gateway[g].at \in {"qualify", "expire"}
    /\ \E f \in gateway[g].list :
          /\ \A e \in gateway[g].list : ~Before(e, f)
          /\ LET owed == (gateway[g].at = "qualify") = HasQualifyingRide(f)
             IN  gateway' = [gateway EXCEPT ![g] =
                     [at |-> IF ~(owed /\ Settles(f)) THEN @.at
                             ELSE IF @.at = "qualify" THEN "reward" ELSE "console",
                      list |-> @.list \ {f},
                      friend |-> IF owed /\ Settles(f) THEN {f} ELSE {},
                      rewards |-> {i \in DOMAIN cashback : cashback[i].source = f},
                      usages |-> {}]]
    /\ UNCHANGED <<rows, clocks, rides, request, ghosts>>

(* settleReferralWithReward writes: the cashback unless one was there. *)
JobWrites(g) ==
    /\ gateway[g].at \in {"reward", "console"}
    /\ \E f \in gateway[g].friend :
          LET won == gateway[g].at = "reward"
              amount == IF won THEN RideReward ELSE NoRideReward
          IN  /\ cashback' = IF gateway[g].rewards # {} THEN cashback
                             ELSE Append(cashback, [source |-> f, amount |-> amount,
                                                    remaining |-> amount, cold |-> FALSE,
                                                    thawed |-> FALSE,
                                                    status |-> "AVAILABLE"])
              /\ referral' = [referral EXCEPT ![f] =
                                 IF won THEN "QUALIFIED_RIDE" ELSE "EXPIRED_NO_RIDE"]
              /\ crossed' = crossed \cup {<<"reward", e>> : e \in
                     {f} \cap UNION {gateway[h].friend : h \in Gateways \ {g}}}
              /\ gateway' = [gateway EXCEPT ![g] =
                                 At(IF won THEN "qualify" ELSE "expire", @.list)]
    /\ UNCHANGED <<rode, usage, clocks, rides, request, late, dropped>>

JobTurns(g) ==
    /\ gateway[g].at = "qualify" /\ gateway[g].list = {}
    /\ gateway' = [gateway EXCEPT ![g] = At("expire", First({f \in Pending : age[f] > 0}))]
    /\ UNCHANGED <<rows, clocks, rides, request, ghosts>>

(* closeStaleReferrals ends the run. *)
JobCloses(g) ==
    /\ gateway[g].at = "expire" /\ gateway[g].list = {}
    /\ referral' = [f \in Friends |->
                       IF referral[f] = "PENDING" /\ age[f] = 2 THEN "CLOSED" ELSE referral[f]]
    /\ gateway' = [gateway EXCEPT ![g] = Idle]
    /\ UNCHANGED <<rode, cashback, usage, clocks, rides, request, ghosts>>

(* A query throws or the process dies: open transactions roll back. *)
JobFails(g) ==
    /\ gateway[g].at \in {"qualify", "expire", "reward", "console"}
    /\ gateway' = [gateway EXCEPT ![g] = Idle]
    /\ UNCHANGED <<rows, clocks, rides, request, ghosts>>

-----------------------------------------------------------------------------
(***************************************************************************)
(* The rider asks for a ride with the cashback applied                     *)
(***************************************************************************)
Reservable(i) == cashback[i].status = "AVAILABLE" /\ cashback[i].remaining > 0
                    /\ ~cashback[i].cold

(* A greedy allocation of want over the reservable rows: at most one of    *)
(* them is taken in part.                                                  *)
Taken(takes) == Tally(takes, DOMAIN takes, Fare)

Greedy(want) ==
    LET free == {i \in DOMAIN cashback : Reservable(i)}
        most == [i \in free |-> IF cashback[i].remaining < want THEN cashback[i].remaining
                                ELSE want]
        all == Taken(most)
    IN  {t \in UNION {[S -> 1..want] : S \in SUBSET free} :
           /\ \A i \in DOMAIN t : t[i] <= cashback[i].remaining
           /\ Taken(t) = IF all < want THEN all ELSE want
           /\ Cardinality({i \in DOMAIN t : t[i] < cashback[i].remaining}) <= 1}

(* The reads of reserveRideCashback; a ride that has usages keeps them. *)
ReserveReads(q) ==
    /\ request[q] = Waiting /\ ride[RideOf[q]] \in {"none", "open"}
    /\ LET old == UsagesOf(RideOf[q], Spent)
       IN  IF old # {}
           THEN request' = [request EXCEPT ![q] = Quiet("reserved", Total(old))]
           ELSE \E want \in 1..Fare : \E takes \in Greedy(want) :
                   request' = [request EXCEPT ![q] =
                       [at |-> "reserving", off |-> 0, takes |-> takes,
                        left |-> [i \in DOMAIN takes |-> cashback[i].remaining - takes[i]]]]
    /\ UNCHANGED <<rows, clocks, rides, gateway, ghosts>>

(* The writes: decrement by the amount, status by the remainder computed   *)
(* from the read.                                                          *)
SpendRows(p) ==
    [i \in DOMAIN cashback |->
        IF i \notin DOMAIN p.takes THEN cashback[i]
        ELSE [cashback[i] EXCEPT !.remaining = @ - p.takes[i],
                                 !.status = IF p.left[i] <= 0 THEN "USED" ELSE "AVAILABLE"]]

NewUsages(q) == {<<q, i>> : i \in DOMAIN request[q].takes}

ReserveWrites(q) ==
    /\ request[q].at = "reserving"
    /\ LET p == request[q]
           others == {o \in Requests \ {q} : request[o].at = "reserving"}
       IN  /\ cashback' = SpendRows(p)
           /\ usage' = [k \in DOMAIN usage \cup NewUsages(q) |->
                  IF k \in NewUsages(q) THEN [amount |-> p.takes[k[2]], status |-> "RESERVED"]
                  ELSE usage[k]]
           /\ request' = [request EXCEPT ![q] = Quiet("reserved", Taken(p.takes))]
           /\ crossed' = crossed
                  \cup {<<"spend", i>> : i \in DOMAIN p.takes
                                             \cap UNION {DOMAIN request[o].takes : o \in others}}
                  \cup {<<"ride", r>> : r \in {RideOf[q]} \cap
                             ({RideOf[o] : o \in others} \cup {x \in Rides : ride[x] # "none"})}
    /\ UNCHANGED <<referral, rode, clocks, rides, gateway, late, dropped>>

(* releaseRideCashback: the RESERVED usages it read go back, whatever the  *)
(* rows hold by now, and a cashback comes back AVAILABLE even when it had  *)
(* been frozen.                                                            *)
ReleaseRows(S) ==
    /\ cashback' = [i \in DOMAIN cashback |->
           LET back == {k \in S : k[2] = i}
           IN  IF back = {} THEN cashback[i]
               ELSE [cashback[i] EXCEPT !.remaining = @ + Total(back), !.status = "AVAILABLE"]]
    /\ usage' = [k \in DOMAIN usage |->
           IF k \in S THEN [usage[k] EXCEPT !.status = "RELEASED"] ELSE usage[k]]

(* Two requests for one ride at work at once. *)
Meets(q, steps) ==
    crossed' = IF \E o \in Requests \ {q} : RideOf[o] = RideOf[q] /\ request[o].at \in steps
               THEN crossed \cup {<<"ride", RideOf[q]>>} ELSE crossed

(* The ride request is published, or the scheduled ride's row created. *)
Opens(q) ==
    /\ ride' = [ride EXCEPT ![RideOf[q]] = IF @ = "none" THEN "open" ELSE @]
    /\ discount' = [discount EXCEPT ![RideOf[q]] =
                       IF ride[RideOf[q]] = "none" THEN request[q].off ELSE @]

RequestSucceeds(q) ==
    /\ request[q].at = "reserved"
    /\ Opens(q)
    /\ request' = [request EXCEPT ![q] = Over("done")]
    /\ Meets(q, {"reserving", "reserved"})
    /\ UNCHANGED <<rows, clocks, gateway, late, dropped>>

(* It is not: what is reserved for the ride is released, or that fails too *)
(* and is only logged.  An earlier request for the ride loses it as well.  *)
RequestFails(q) ==
    /\ request[q].at = "reserved"
    /\ \/ /\ ReleaseRows(IF request[q].off > 0 THEN UsagesOf(RideOf[q], {"RESERVED"}) ELSE {})
          /\ IF ride[RideOf[q]] = "none" THEN Meets(q, {"reserved"})
             ELSE crossed' = crossed \cup {<<"ride", RideOf[q]>>}
       \/ /\ request[q].off > 0
          /\ crossed' = crossed \cup {<<"ride", RideOf[q]>>}
          /\ UNCHANGED <<cashback, usage>>
    /\ request' = [request EXCEPT ![q] = Over("failed")]
    /\ UNCHANGED <<referral, rode, clocks, rides, gateway, late, dropped>>

(* The call throws with the ride published or its row committed: the catch *)
(* releases all the same, or that fails too.                               *)
RequestUnanswered(q) ==
    /\ request[q].at = "reserved" /\ ride[RideOf[q]] = "none"
    /\ Opens(q)
    /\ \/ ReleaseRows(IF request[q].off > 0 THEN UsagesOf(RideOf[q], {"RESERVED"}) ELSE {})
       \/ UNCHANGED <<cashback, usage>>
    /\ crossed' = crossed \cup {<<"ride", RideOf[q]>>}
    /\ request' = [request EXCEPT ![q] = Over("failed")]
    /\ UNCHANGED <<referral, rode, clocks, gateway, late, dropped>>

-----------------------------------------------------------------------------
(***************************************************************************)
(* The ride's events at the gateways                                       *)
(***************************************************************************)
(* settleRideCashback is one UPDATE with its condition. *)
SettleUsages(r) ==
    usage' = [k \in DOMAIN usage |->
                 IF RideOfUsage(k) = r /\ usage[k].status = "RESERVED"
                 THEN [usage[k] EXCEPT !.status = "SETTLED"] ELSE usage[k]]

RideCompleted(r) ==
    /\ ride[r] = "open"
    /\ ride' = [ride EXCEPT ![r] = "completed"]
    /\ UNCHANGED <<rows, clocks, discount, request, gateway, ghosts>>

(* RIDE_COMPLETED is consumed, after a while, again, or never: a call that *)
(* throws sends the event to the dead letters.                             *)
CompletionSettles(r) ==
    /\ ride[r] = "completed" /\ UsagesOf(r, {"RESERVED"}) # {}
    /\ SettleUsages(r)
    /\ UNCHANGED <<referral, rode, cashback, clocks, rides, request, gateway, ghosts>>

(* RIDE_CANCELLED by the rider, and RIDE_BID_TIMEOUT: the ride is over.    *)
(* By the driver: it is matched again at the fare it was asked for with.   *)
RideEnds(r) ==
    /\ ride[r] = "open"
    /\ ride' = [ride EXCEPT ![r] = "cancelled"]
    /\ UNCHANGED <<rows, clocks, discount, request, gateway, ghosts>>

DriverWalksOut(r) ==
    /\ ride[r] = "open" /\ r \notin dropped
    /\ dropped' = dropped \cup {r}
    /\ UNCHANGED <<rows, clocks, rides, request, gateway, late, crossed>>

(* Either event is consumed: the reads of the release.  At least once: a   *)
(* gateway that loses its partition may still be at it when the next one   *)
(* starts.                                                                 *)
ReleaseReads(g, r) ==
    /\ gateway[g] = Idle
    /\ ride[r] = "cancelled" \/ (r \in dropped /\ ride[r] = "open")
    /\ UsagesOf(r, {"RESERVED"}) # {}
    /\ gateway' = [gateway EXCEPT ![g] =
           [At("release", {}) EXCEPT !.usages = UsagesOf(r, {"RESERVED"})]]
    /\ UNCHANGED <<rows, clocks, rides, request, ghosts>>

ReleaseWrites(g) ==
    /\ gateway[g].at = "release"
    /\ LET mine == gateway[g].usages
       IN  /\ ReleaseRows(mine)
           /\ crossed' = crossed
                 \cup {<<"release", k[2]>> :
                          k \in {x \in mine : usage[x].status # "RESERVED"}}
    /\ gateway' = [gateway EXCEPT ![g] = Idle]
    /\ UNCHANGED <<referral, rode, clocks, rides, request, late, dropped>>

-----------------------------------------------------------------------------
JobSteps(g) ==
    JobFreezes(g) \/ JobReads(g) \/ JobWrites(g) \/ JobTurns(g) \/ JobCloses(g)

ProgrammeSteps ==
    \/ \E f \in Friends : ApplyCode(f) \/ FriendRides(f) \/ Ages(f)
    \/ \E i \in DOMAIN cashback : Cools(i)
    \/ \E g \in Gateways : JobSteps(g) \/ ReleaseWrites(g)
    \/ \E r \in Rides : RideCompleted(r) \/ CompletionSettles(r) \/ RideEnds(r)
                          \/ DriverWalksOut(r)
    \/ \E g \in Gateways, r \in Rides : ReleaseReads(g, r)

ProgrammeFaults == \E g \in Gateways : JobFails(g)

ReferralsTypeOK ==
    /\ referral \in [Friends -> ReferralStatuses]
    /\ age \in [Friends -> 0..2]
    /\ applied \in Seq(Friends)
    /\ rode \in SUBSET Friends
    /\ cashback \in Seq([source : Friends, amount : {RideReward, NoRideReward},
                         remaining : Int, cold : BOOLEAN,
                         thawed : BOOLEAN, status : {"AVAILABLE", "FROZEN", "USED"}])
    /\ DOMAIN usage \subseteq Requests \X DOMAIN cashback
    /\ usage \in [DOMAIN usage -> [amount : 1..Fare,
                                   status : {"RESERVED", "SETTLED", "RELEASED"}]]
    /\ ride \in [Rides -> RideStatuses]
    /\ discount \in [Rides -> Nat]
    /\ gateway \in [Gateways ->
           [at : {"down", "idle", "qualify", "expire", "reward", "console", "release"},
            list : SUBSET Friends, friend : SUBSET Friends,
            rewards : SUBSET DOMAIN cashback, usages : SUBSET DOMAIN usage]]
    /\ late \in SUBSET Friends
    /\ crossed \in SUBSET (({"reward"} \X Friends) \cup ({"ride"} \X Rides)
                               \cup ({"spend", "release"} \X DOMAIN cashback))
    /\ dropped \in SUBSET Rides

(* Cashback is neither minted nor lost: what is left of a cashback and     *)
(* what its usages reserve or spent make up its amount, with requests that *)
(* reserve the same rows at once, releases that cross them and cashbacks   *)
(* that freeze and thaw meanwhile, and it is not spent beyond its amount.  *)
(* The exceptions: a usage two gateways release at once comes back twice,  *)
(* and two requests that read a cashback at once both take from it.        *)
CashbackConserved ==
    \A i \in DOMAIN cashback :
        /\ <<"release", i>> \notin crossed =>
              cashback[i].remaining + Total({k \in DOMAIN usage :
                  k[2] = i /\ usage[k].status \in Spent}) = cashback[i].amount
        /\ <<"spend", i>> \notin crossed => cashback[i].remaining >= 0

(* A ride at a discounted fare has that much cashback reserved for it      *)
(* while it runs; once it is completed all of it is still reserved or all  *)
(* of it settled.  Not so for a ride its driver walked out of: the         *)
(* cancellation releases the cashback of a ride that is matched again at   *)
(* the discounted fare; nor for a ride whose request met another one, or   *)
(* failed with the ride under way.                                         *)
DiscountIsBacked ==
    \A r \in Rides \ dropped : <<"ride", r>> \notin crossed =>
        /\ ride[r] = "open" => Total(UsagesOf(r, {"RESERVED"})) = discount[r]
        /\ ride[r] = "completed" =>
              \E s \in Spent : Total(UsagesOf(r, {s})) = discount[r]

(* A friend brings one reward: the full one when a ride of the friend was  *)
(* there when the job looked, half of it when there was none, nothing      *)
(* while the referral is pending or when it is closed.  Two gateways that  *)
(* settle the same referral at once reward it twice.                       *)
RewardFitsOutcome ==
    \A f \in Friends : <<"reward", f>> \notin crossed =>
        LET rewards == {i \in DOMAIN cashback : cashback[i].source = f}
        IN  CASE referral[f] = "QUALIFIED_RIDE" ->
                   \E i \in rewards : rewards = {i} /\ cashback[i].amount = RideReward /\ f \in rode
              [] referral[f] = "EXPIRED_NO_RIDE" ->
                   /\ \E i \in rewards : rewards = {i} /\ cashback[i].amount = NoRideReward
                   /\ f \in rode => f \in late
              [] OTHER -> rewards = {}
=============================================================================

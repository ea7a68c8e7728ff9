---------------------------- MODULE StopSequencer ----------------------------
(***************************************************************************)
(* Who can share a car, and in which order the car serves them: the pure   *)
(* part of apps/group-ride (algorithms/knn.ts, grouping.ts,                *)
(* stop-sequencer.ts).  Places are points of a line, so that a distance is *)
(* a difference and a heading is a direction.                              *)
(***************************************************************************)
EXTENDS Integers, SequencesExt, FiniteSetsExt

CONSTANTS
    Requests,          \* match requests; a request id is also a ride id
    Pickup, Dropoff,   \* where each is collected and where it goes
    PickupRadius,      \* GROUP_RIDE_PICKUP_RADIUS_KM
    DestinationRadius, \* GROUP_RIDE_DESTINATION_RADIUS_KM
    MaxCandidates,     \* GROUP_RIDE_MAX_CANDIDATES
    MaxSize,           \* GROUP_RIDE_MAX_SIZE
    MaxExactNodes      \* 12: beyond it the sequencer is greedy

ASSUME StopSequencerAssumption ==
    /\ IsFiniteSet(Requests)
    /\ Pickup \in [Requests -> Int] /\ Dropoff \in [Requests -> Int]
    /\ {PickupRadius, DestinationRadius} \subseteq Nat \ {0}
    /\ {MaxCandidates, MaxSize, MaxExactNodes} \subseteq Nat

Gap(x, y) == IF x <= y THEN y - x ELSE x - y
Northbound(q) == Pickup[q] <= Dropoff[q]

-----------------------------------------------------------------------------
(* Who can share: the corridor of scoreRideCompatibility, and its score in *)
(* hundredths, the heading component being 1 inside the corridor.          *)
Compatible(a, b) ==
    /\ Gap(Pickup[a], Pickup[b]) <= PickupRadius
    /\ Gap(Dropoff[a], Dropoff[b]) <= DestinationRadius
    /\ Northbound(a) = Northbound(b)

Score(a, b) ==
    45 * (PickupRadius - Gap(Pickup[a], Pickup[b])) * DestinationRadius
    + 35 * (DestinationRadius - Gap(Dropoff[a], Dropoff[b])) * PickupRadius

Nearer(a, b, c) ==
    \/ Score(a, b) > Score(a, c)
    \/ /\ Score(a, b) = Score(a, c)
       /\ Gap(Pickup[a], Pickup[b]) <= Gap(Pickup[a], Pickup[c])

(* findNearestRouteCandidates: the compatible ones of the pool, best first;*)
(* a tie may come in either order.                                         *)
Candidates(anchor, pool) ==
    LET near == {q \in pool \ {anchor} : Compatible(anchor, q)}
        ranked == {s \in SetToSeqs(near) :
                     \A i, j \in DOMAIN s : i < j => Nearer(anchor, s[i], s[j])}
    IN  {SubSeq(s, 1, Min({Len(s), MaxCandidates})) : s \in ranked}

(* buildNearestRouteGroup: take each candidate that fits everyone taken.   *)
Join(q, group) ==
    IF Cardinality(group) < MaxSize /\ \A m \in group : Compatible(m, q)
    THEN group \cup {q} ELSE group

NearestGroup(anchor, candidates) == FoldLeft(LAMBDA g, q : Join(q, g), {anchor}, candidates)

-----------------------------------------------------------------------------
(* The stops of a group: a pickup and a dropoff of each member.            *)
Nodes(group) == group \X {"pickup", "dropoff"}
Place(node) == IF node[2] = "pickup" THEN Pickup[node[1]] ELSE Dropoff[node[1]]
Leg(from, to) == Gap(Place(from), Place(to))

(* Faulty variant: the sequencer may drop a rider off before the pickup.   *)
NextAnyOrder(group, visited) == Nodes(group) \ visited

(* What may come next: not visited, and no dropoff before its pickup.      *)
Reachable(group, visited) ==
    {n \in Nodes(group) \ visited : n[2] = "dropoff" => <<n[1], "pickup">> \in visited}

(* On to a stop, and from there as it was solved. *)
Onward(current, n, solved) ==
    [cost |-> Leg(current, n) + solved.cost, path |-> <<n>> \o solved.path]
Arrived == [cost |-> 0, path |-> <<>>]

(* solveExact: the cheapest way on from a stop, by what was visited.       *)
Cheapest(ways) == CHOOSE w \in ways : \A v \in ways : w.cost <= v.cost

SolveExact(group) ==
    LET solve[visited \in SUBSET Nodes(group)] ==
          [current \in Nodes(group) |->
             IF visited = Nodes(group) THEN Arrived
             ELSE Cheapest({Onward(current, n, solve[visited \cup {n}][n])
                              : n \in Reachable(group, visited)})]
    IN  solve

(* greedyNearestNeighbour: always on to the nearest stop.                  *)
Nearest(current, open) == CHOOSE n \in open : \A m \in open : Leg(current, n) <= Leg(current, m)

SolveGreedy(group) ==
    LET solve[visited \in SUBSET Nodes(group)] ==
          [current \in Nodes(group) |->
             IF visited = Nodes(group) THEN Arrived
             ELSE LET n == Nearest(current, Reachable(group, visited))
                  IN  Onward(current, n, solve[visited \cup {n}][n])]
    IN  solve

StopsBy(solver, anchor) ==
    LET first == <<anchor, "pickup">> IN <<first>> \o solver[{first}][first].path

(* planGroupStops; an anchor that left the group makes it throw.           *)
PlanGroupStops(anchor, group) ==
    StopsBy(IF 2 * Cardinality(group) > MaxExactNodes THEN SolveGreedy(group)
            ELSE SolveExact(group), anchor)

(* Every group that can be planned. *)
Plannable == {p \in {<<anchor, group>> : anchor \in Requests, group \in SUBSET Requests} :
                p[1] \in p[2] /\ Cardinality(p[2]) \in 2..MaxSize}

-----------------------------------------------------------------------------
(* What a sequence of stops owes the riders.                               *)
Length(stops) ==
    LET rest[i \in DOMAIN stops] ==
          IF i = Len(stops) THEN 0 ELSE Leg(stops[i], stops[i + 1]) + rest[i + 1]
    IN  rest[1]

Before(stops, a, b) == \E i, j \in DOMAIN stops : i < j /\ stops[i] = a /\ stops[j] = b

Serves(stops, anchor, group) ==
    /\ ToSet(stops) = Nodes(group) /\ Len(stops) = Cardinality(Nodes(group))
    /\ stops[1] = <<anchor, "pickup">>
    /\ \A q \in group : Before(stops, <<q, "pickup">>, <<q, "dropoff">>)

Shortest(stops, anchor, group) ==
    \A other \in SetToSeqs(Nodes(group)) :
        Serves(other, anchor, group) => Length(stops) <= Length(other)

(* Those of all groups whose order is right, by either solver.             *)
RightlyOrdered ==
    {p \in Plannable :
       LET exact == StopsBy(SolveExact(p[2]), p[1])
           greedy == StopsBy(SolveGreedy(p[2]), p[1])
       IN  Serves(exact, p[1], p[2]) /\ Shortest(exact, p[1], p[2]) /\ Serves(greedy, p[1], p[2])}
=============================================================================

------------------------------- MODULE FlyIn -------------------------------
(***************************************************************************)
(* Fly-in: the map is read (FlyMap), every drone gets a path from the      *)
(* start zone to the end zone (Pathfinder), and then the drones fly, turn  *)
(* by turn (simulator.py).  The program has one thread and, but for its    *)
(* input, makes no choice: reading a line is a step, finding all paths is  *)
(* one, and so is a whole turn.                                            *)
(*                                                                         *)
(* X_Something is a mutant: the definition X with a plausible bug.         *)
(***************************************************************************)
EXTENDS Pathfinder

CONSTANT MaxTurns    \* max_turns, 10 000 in the code

ASSUME ConstantsAssumption ==
    /\ Names \in Seq(Zones) /\ IsInjective(Names) /\ None \notin Zones
    /\ MaxTurns \in Nat
    /\ \A l \in Lines :
         \/ l.kind = "nb_drones" /\ l.value \in Int
         \/ l.kind \in {"start", "end", "hub"} /\ l.name \in Zones /\ l.cap \in Int /\ l.x \in Int
         \/ l.kind = "connection" /\ l.cap \in Int

VARIABLES
    routes,     \* what find_k_shortest_paths returns
    path,       \* Drone.path, from the start on
    at,         \* Drone.current_zone
    idx,        \* Drone.path_index, the place of the current zone in the path
    transit,    \* Drone.turns_in_transit
    delivered,  \* Drone.delivered
    occ,        \* Zone.current_drones
    usage,      \* Connection.current_usage
    turn        \* total_turns

flight == <<routes, path, at, idx, transit, delivered, occ, usage, turn>>
vars == <<stage, graph, flight>>

Drones == DOMAIN path

\* Before the flight there are no drones.
Init ==
    /\ InitMap
    /\ routes = <<>> /\ path = <<>> /\ at = <<>> /\ idx = <<>> /\ transit = <<>>
    /\ delivered = <<>> /\ occ = <<>> /\ usage = <<>> /\ turn = 0

\* _initialize_drones, reset_capacities.  A drone without a path stays put.
TakeOff ==
    /\ stage = "routes" /\ stage' = "flight"
    /\ \E found \in {FindKShortestPaths(graph, graph.drones)} :
        /\ routes' = found
        /\ path' = [d \in 1..graph.drones |->
                      IF found = <<>> THEN <<graph.start>> ELSE found[((d - 1) % Len(found)) + 1]]
    /\ at' = [d \in 1..graph.drones |-> graph.start]
    /\ idx' = [d \in 1..graph.drones |-> 1]
    /\ transit' = [d \in 1..graph.drones |-> 0]
    /\ delivered' = [d \in 1..graph.drones |-> FALSE]
    /\ occ' = [z \in DOMAIN graph.zone |-> IF z = graph.start THEN graph.drones ELSE 0]
    /\ usage' = [l \in DOMAIN graph.link |-> 0]
    /\ UNCHANGED <<graph, turn>>

-----------------------------------------------------------------------------
(* One turn.                                                               *)

Target(d) == path[d][idx[d] + 1]
Link(d) == {at[d], Target(d)}
Restricted(z) == graph.zone[z].type = "restricted"

\* Phase 1: who intends to move.  A drone in transit spends the turn in it.
Movers == {d \in Drones : /\ ~delivered[d] /\ transit[d] = 0
                          /\ idx[d] < Len(path[d]) /\ Link(d) \in DOMAIN graph.link
                          /\ Accessible(graph, Target(d))}

\* Phase 2: how many intend to leave a zone.
Leaving(z) == Cardinality({d \in Movers : at[d] = z})

\* Phase 3: the moves approved, lower numbers first.
Room_NotLeaving(z) == graph.zone[z].cap - occ[z]
Room(z) == graph.zone[z].cap - occ[z] + Leaving(z)

ZoneFree(d, approved) ==
    Target(d) = graph.end \/ Cardinality({e \in approved : Target(e) = Target(d)}) < Room(Target(d))
LinkFree(d, approved) ==
    Cardinality({e \in approved : Link(e) = Link(d)}) < graph.link[Link(d)]

Approved ==
    LET A[d \in 0..Len(path)] ==
            IF d = 0 THEN {}
            ELSE LET before == A[d - 1]
                 IN  IF d \in Movers /\ ZoneFree(d, before) /\ LinkFree(d, before)
                     THEN before \cup {d}
                     ELSE before
    IN  A[Len(path)]

\* current_drones of a zone after the approved moves.
Occupancy_NotInTransit(z, moves) ==
    occ[z] - Cardinality({d \in moves : at[d] = z /\ ~Restricted(Target(d))})
           + Cardinality({d \in moves : Target(d) = z})
Occupancy(z, moves) ==
    occ[z] - Cardinality({d \in moves : at[d] = z})
           + Cardinality({d \in moves : Target(d) = z})

\* turns_in_transit of a drone after the turn.
InTransit(d, moves) ==
    IF d \in moves THEN IF Restricted(Target(d)) THEN 1 ELSE 0
    ELSE IF ~delivered[d] /\ transit[d] > 0 THEN transit[d] - 1
    ELSE transit[d]

AllDelivered == \A d \in Drones : delivered[d]

Turn ==
    /\ stage = "flight"
    /\ ~AllDelivered /\ turn < MaxTurns
    /\ \E moves \in {Approved} :
        /\ at' = [d \in Drones |-> IF d \in moves THEN Target(d) ELSE at[d]]
        /\ idx' = [d \in Drones |-> IF d \in moves THEN idx[d] + 1 ELSE idx[d]]
        /\ transit' = [d \in Drones |-> InTransit(d, moves)]
        /\ delivered' = [d \in Drones |-> delivered[d] \/ (d \in moves /\ Target(d) = graph.end)]
        /\ occ' = [z \in DOMAIN occ |-> Occupancy(z, moves)]
        /\ usage' = [l \in DOMAIN usage |-> Cardinality({d \in moves : Link(d) = l})]
    /\ turn' = turn + 1
    /\ UNCHANGED <<stage, graph, routes, path>>

\* main returns: the map was refused, or run has returned.
Finished ==
    /\ stage = "refused" \/ (stage = "flight" /\ (AllDelivered \/ turn = MaxTurns))
    /\ UNCHANGED vars

Read == (EndOfFile \/ \E l \in Lines : ReadLine(l)) /\ UNCHANGED flight

Next == Read \/ TakeOff \/ Turn \/ Finished

Spec == Init /\ [][Next]_vars

\* A single process, which nothing stops.
FairSpec == Spec /\ WF_vars(Turn)

-----------------------------------------------------------------------------
(* Properties.                                                             *)

\* Every variable stays in its range, and a drone is where its path says.
TypeOK ==
    /\ stage \in {"map", "routes", "flight", "refused"} /\ turn \in 0..MaxTurns
    /\ \A d \in Drones : /\ path[d] \in Seq(Zones)
                         /\ idx[d] \in DOMAIN path[d] /\ at[d] = path[d][idx[d]]
                         /\ transit[d] \in {0, 1}
                         /\ delivered[d] <=> at[d] = graph.end
    /\ \A z \in DOMAIN occ : occ[z] \in 0..Len(path)
    /\ \A l \in DOMAIN usage : usage[l] \in 0..Len(path)

\* A complete map is refused at its end if and only if no path leads from the
\* start to the end past the blocked zones; so no drone is ever left without a path.
RefusedWithoutRoute ==
    /\ stage = "routes" => SimplePaths(graph) # {}
    /\ stage = "refused" /\ Complete(graph) => SimplePaths(graph) = {}

\* The drones get distinct loopless paths, as many as there are, or all there
\* are; and where the distance never overestimates the cost, these are the
\* cheapest, in the order of their costs (README.md, "ranked by total cost").
RoutesBest ==
    turn = 0 /\ stage = "flight" =>
        /\ IsInjective(routes) /\ ToSet(routes) \subseteq SimplePaths(graph)
        /\ \/ Len(routes) = graph.drones
           \/ Len(routes) < graph.drones /\ ToSet(routes) = SimplePaths(graph)
        /\ Admissible(graph) =>
             /\ \A i \in 2..Len(routes) : PathCost(graph, routes[i - 1]) <= PathCost(graph, routes[i])
             /\ \A p \in SimplePaths(graph) \ ToSet(routes) :
                   PathCost(graph, Last(routes)) <= PathCost(graph, p)

\* The occupancy counters, changed move by move, agree with the positions of
\* the drones.
CountersExact == \A z \in DOMAIN occ : occ[z] = Cardinality({d \in Drones : at[d] = z})

\* A connection never carries more drones in a turn than it may, in both
\* directions together.
LinkCapacityRespected == \A l \in DOMAIN usage : usage[l] <= graph.link[l]

\* Nobody is held up for ever.  When no drone is in transit, the one with the
\* lowest number of those who intend to move does: who stands in its target
\* intends to leave.  So of two turns at least one brings a drone a hop further,
\* the limit of 10 000 turns is a backstop only, and README.md's risk of a cyclic
\* deadlock is none.
Hops == UNION {{d} \X (1..Len(path[d]) - 1) : d \in Drones}
WithinBound == turn <= 2 * Cardinality(Hops)

\* What a turn leaves behind, whatever was approved in which order.
FlightSound == TypeOK /\ CountersExact /\ LinkCapacityRespected /\ WithinBound

\* Every drone that has taken off is delivered.
EverybodyArrives == stage = "flight" ~> AllDelivered

=============================================================================

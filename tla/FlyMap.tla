------------------------------- MODULE FlyMap -------------------------------
(***************************************************************************)
(* The map file of Fly-in, read line by line into a graph (parser.py,      *)
(* graph.py).  A line is a record of what it says; the file is any         *)
(* sequence of the lines of the constant Lines.  The first line that is    *)
(* refused ends the program.                                               *)
(*                                                                         *)
(* The zones of a map lie on a row: a zone has one coordinate.             *)
(***************************************************************************)
EXTENDS Integers, Sequences, FiniteSets

CONSTANTS
    Names,     \* the names of zones, in alphabetical order
    Lines,     \* the lines a map file may have
    None

VARIABLES
    stage,     \* where the program is: "map", "routes", "flight", "refused"
    graph      \* the graph and nb_drones

Zones == {Names[i] : i \in DOMAIN Names}
Types == {"normal", "restricted", "priority", "blocked"}

EmptyGraph == [drones |-> None, start |-> None, end |-> None,
               zone |-> [z \in {} |-> None], link |-> [l \in {} |-> 0]]

InitMap == stage = "map" /\ graph = EmptyGraph

-----------------------------------------------------------------------------
(* What makes a line acceptable, and what it adds.                         *)

Known(z) == z \in DOMAIN graph.zone

\* _parse_zone, add_zone, and one start and one end at most
ZoneAccepted(l) ==
    /\ graph.drones # None
    /\ l.type \in Types /\ l.cap >= 1
    /\ ~Known(l.name)
    /\ l.kind # "hub" => graph[l.kind] = None

(* _parse_connection and add_connection: of two zones named before, and not
   twice.  A connection of a zone with itself is refused if any other connection
   has that zone: add_connection takes it for a duplicate. *)
LinkAccepted(l) ==
    /\ Known(l.a) /\ Known(l.b)
    /\ {l.a, l.b} \notin DOMAIN graph.link
    /\ l.a = l.b => \A k \in DOMAIN graph.link : l.a \notin k
    /\ l.cap >= 1

Accepted(l) ==
    \/ l.kind = "nb_drones" /\ l.value >= 1
    \/ l.kind \in {"start", "end", "hub"} /\ ZoneAccepted(l)
    \/ l.kind = "connection" /\ LinkAccepted(l)

\* f with one more value
With(f, x, v) == [y \in DOMAIN f \cup {x} |-> IF y = x THEN v ELSE f[y]]

Added(l) ==
    IF l.kind = "nb_drones" THEN [graph EXCEPT !.drones = l.value]
    ELSE IF l.kind = "connection" THEN [graph EXCEPT !.link = With(@, {l.a, l.b}, l.cap)]
    ELSE LET g == [graph EXCEPT !.zone = With(@, l.name, [type |-> l.type, cap |-> l.cap, x |-> l.x])]
         IN  IF l.kind = "hub" THEN g ELSE [g EXCEPT ![l.kind] = l.name]

ReadLine(l) ==
    /\ stage = "map"
    /\ IF Accepted(l) THEN graph' = Added(l) /\ stage' = stage
       ELSE stage' = "refused" /\ graph' = EmptyGraph

-----------------------------------------------------------------------------
(* The end of the file: validate_connectivity.                             *)

Neighbours(g, z) == {y \in DOMAIN g.zone : {y, z} \in DOMAIN g.link}
Accessible(g, z) == g.zone[z].type # "blocked"

\* The zones a breadth-first search from the start visits in n rounds
Visited_Blocked(g) ==
    LET V[n \in 0..Len(Names)] ==
            IF n = 0 THEN {g.start} ELSE V[n - 1] \cup UNION {Neighbours(g, z) : z \in V[n - 1]}
    IN  V[Len(Names)]
Visited(g) ==
    LET V[n \in 0..Len(Names)] ==
            IF n = 0 THEN {g.start}
            ELSE LET before == V[n - 1]
                 IN  before \cup {y \in UNION {Neighbours(g, z) : z \in before} : Accessible(g, y)}
    IN  V[Len(Names)]

Complete(g) == g.drones # None /\ g.start # None /\ g.end # None

EndOfFile ==
    /\ stage = "map"
    /\ stage' = IF Complete(graph) /\ graph.end \in Visited(graph) THEN "routes" ELSE "refused"
    /\ UNCHANGED graph

=============================================================================

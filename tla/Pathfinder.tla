----------------------------- MODULE Pathfinder -----------------------------
(***************************************************************************)
(* The path finder of Fly-in: A* with the distance as heuristic, and Yen's *)
(* algorithm on top of it (pathfinder.py), as functions of a graph.        *)
(***************************************************************************)
EXTENDS FlyMap, SequencesExt

Cost(g, z) == IF g.zone[z].type = "restricted" THEN 2 ELSE 1
Distance(g, z) == LET d == g.zone[z].x - g.zone[g.end].x IN IF d < 0 THEN -d ELSE d

Rank(z) == CHOOSE i \in DOMAIN Names : Names[i] = z
\* The order of the heap: by f, then g, then the name.  No two entries are equal
\* in all three, else the paths would be compared, which has no order.
Before(d, e) ==
    \/ d.f < e.f
    \/ d.f = e.f /\ d.g < e.g
    \/ d.f = e.f /\ d.g = e.g /\ Rank(Last(d.path)) < Rank(Last(e.path))

Entry(g, cost, p) == [f |-> cost + Distance(g, Last(p)), g |-> cost, path |-> p]

(* best_g is the least cost an entry for a zone was ever pushed with.  A neighbour
   gets an entry if that makes it less. *)
Cheaper(g, top, pushed, links, zones) ==
    {e \in {Entry(g, top.g + Cost(g, z), Append(top.path, z)) :
              z \in {y \in Neighbours(g, Last(top.path)) \ zones :
                       Accessible(g, y) /\ {y, Last(top.path)} \notin links}} :
       \A d \in pushed : Last(d.path) = Last(e.path) => e.g < d.g}
Stale(top, pushed) == \E d \in pushed : Last(d.path) = Last(top.path) /\ d.g < top.g

(* A round of the loop of find_path and of _find_path_avoiding, which keeps off a
   set of connections and of zones: what is in the heap, and what ever was. *)
First(heap) == CHOOSE d \in heap : \A e \in heap : d = e \/ Before(d, e)

Round(g, s, links, zones) ==
    LET top == First(s.heap)
        new == IF Stale(top, s.pushed) THEN {} ELSE Cheaper(g, top, s.pushed, links, zones)
    IN  [heap |-> (s.heap \ {top}) \cup new, pushed |-> s.pushed \cup new]

\* More rounds than there can be entries: one for each zone and each cost of a path
MaxRounds == 2 * Len(Names) * Len(Names)

Search(g, source, links, zones) ==
    LET S[n \in 0..MaxRounds] ==
            IF n = 0 THEN [heap |-> {Entry(g, 0, <<source>>)}, pushed |-> {Entry(g, 0, <<source>>)}]
            ELSE LET s == S[n - 1]
                 IN  IF s.heap = {} \/ Last(First(s.heap).path) = g.end THEN s
                     ELSE Round(g, s, links, zones)
    IN  S[MaxRounds]

\* <<>> if there is no path
FindPathAvoiding(g, source, links, zones) ==
    LET heap == Search(g, source, links, zones).heap
    IN  IF heap = {} THEN <<>> ELSE First(heap).path

FindPath(g) == FindPathAvoiding(g, g.start, {}, {})

-----------------------------------------------------------------------------
(* Yen's algorithm.                                                        *)

\* The first zone costs nothing
PathCost(g, p) ==
    LET C[i \in 0..Len(p)] == IF i <= 1 THEN 0 ELSE C[i - 1] + Cost(g, p[i])
    IN  C[Len(p)]

\* The connections the paths found so far take on from this root
BlockUsedConnections(paths, root) ==
    {{Last(root), p[Len(root) + 1]} :
        p \in {q \in ToSet(paths) : IsPrefix(root, q) /\ Len(q) > Len(root)}}

RemovedNodes(root) == ToSet(Front(root))

\* The path that leaves the last path found at its i-th zone; <<>> if there is none
Branch(g, paths, i) ==
    LET root == SubSeq(Last(paths), 1, i)
        spur == FindPathAvoiding(g, Last(root), BlockUsedConnections(paths, root), RemovedNodes(root))
    IN  IF spur = <<>> THEN <<>> ELSE Front(root) \o spur

\* What the search goes on with: the paths found, the candidates, all seen
WithCandidate(s, total) ==
    IF total = <<>> \/ total \in s.seen THEN s
    ELSE [s EXCEPT !.candidates = Append(@, total), !.seen = @ \cup {total}]

\* The cheapest candidate, of equal ones the oldest
Cheapest_Oldest(g, candidates) == 1
Cheapest(g, candidates) ==
    CHOOSE i \in DOMAIN candidates :
        \A j \in DOMAIN candidates :
            \/ PathCost(g, candidates[i]) < PathCost(g, candidates[j])
            \/ PathCost(g, candidates[i]) = PathCost(g, candidates[j]) /\ i <= j

NextPath(g, s) ==
    LET hops == Len(Last(s.paths)) - 1
        T[i \in 0..hops] == IF i = 0 THEN s ELSE WithCandidate(T[i - 1], Branch(g, s.paths, i))
        t == T[hops]
        best == Cheapest(g, t.candidates)
    IN  IF t.candidates = <<>> THEN t
        ELSE [t EXCEPT !.paths = Append(@, t.candidates[best]), !.candidates = RemoveAt(@, best)]

\* find_k_shortest_paths.  Without a candidate it stops; to go on would change nothing.
FindKShortestPaths(g, k) ==
    LET first == FindPath(g)
        P[n \in 0..k - 1] ==
            IF n = 0 THEN [paths |-> <<first>>, candidates |-> <<>>, seen |-> {first}]
            ELSE NextPath(g, P[n - 1])
    IN  IF first = <<>> THEN <<>> ELSE P[k - 1].paths

-----------------------------------------------------------------------------
(* Reference: all loopless paths, and a heuristic that never overestimates. *)

\* The loopless paths of n hops from the start
PathsOfHops(g, n) ==
    LET P[k \in 0..n] ==
            IF k = 0 THEN {<<g.start>>}
            ELSE UNION {{Append(p, z) : z \in {y \in Neighbours(g, Last(p)) : Accessible(g, y)} \ ToSet(p)} :
                           p \in P[k - 1]}
    IN  P[n]
SimplePaths(g) ==
    {p \in UNION {PathsOfHops(g, n) : n \in 0..Len(Names) - 1} : Last(p) = g.end}

\* For a zone on a path to the end, the rest of the path costs as much as the
\* distance at least.
Admissible(g) ==
    \A p \in SimplePaths(g) : \A i \in DOMAIN p :
        Distance(g, p[i]) <= PathCost(g, SubSeq(p, i, Len(p)))

=============================================================================

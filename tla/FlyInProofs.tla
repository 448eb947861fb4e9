----------------------------- MODULE FlyInProofs -----------------------------
(***************************************************************************)
(* What is proved of Fly-in, for every map file, number of drones and      *)
(* limit of turns.                                                         *)
(*                                                                         *)
(* The search of the parser and that of the path finder agree on which     *)
(* maps have a route: the zones the path finder has ever pushed are closed *)
(* under steps to accessible neighbours, once its heap is empty.  The heap *)
(* does become empty, as no two entries of a zone have the same cost.      *)
(*                                                                         *)
(* On every walk to the end some zone is in the heap at no higher cost     *)
(* than on the walk, so where the distance is no overestimate the first    *)
(* path found is a cheapest one.  Every route that is left branches off    *)
(* the paths somewhere, and a candidate that branches off there is as      *)
(* cheap, so the next path is the next cheapest.                           *)
(*                                                                         *)
(* Every drone then has a path which ends at the end, and somebody moves   *)
(* in every turn that begins with no drone in transit.                     *)
(***************************************************************************)
EXTENDS FlyIn, FiniteSetTheorems, WellFoundedInduction, TLAPS

-----------------------------------------------------------------------------
(* Numbers, and functions defined by a recursion over the rounds of a loop. *)

(* A set of numbers has a least one. *)
LEMMA NatMin ==
    ASSUME NEW T \in SUBSET Nat, T # {}
    PROVE  \E m \in T : \A k \in T : m <= k
<1> DEFINE R == OpToRel(<, Nat)
<1>1. IsWellFoundedOn(R, Nat)
  BY NatLessThanWellFounded
<1>2. \A k, m \in Nat : k < m => <<k, m>> \in R
  BY DEF OpToRel
<1> HIDE DEF R
<1>3. PICK m \in T : \A k \in T : ~ (<<k, m>> \in R)
  BY <1>1, WFMin
<1>4. ASSUME NEW k \in T PROVE m <= k
  <2>1. ~ (k < m) /\ k \in Nat /\ m \in Nat
    BY <1>2, <1>3
  <2> QED
    BY <2>1
<1> QED
  BY <1>4

(* A set with 0 and with the successor of each of its members has them all. *)
LEMMA NatSteps ==
    ASSUME NEW T \in SUBSET Nat, 0 \in T, \A k \in T : k + 1 \in T
    PROVE  T = Nat
<1> SUFFICES ASSUME Nat \ T # {} PROVE FALSE
  OBVIOUS
<1>1. PICK k \in Nat \ T : \A j \in Nat \ T : k <= j
  BY NatMin
<1>2. k - 1 \in Nat /\ ~(k <= k - 1) /\ (k - 1) + 1 = k
  BY <1>1
<1> QED
  BY <1>1, <1>2

(* f holds the states of a loop of n rounds from a, the round k being h[k]. *)
Iterates(f, n, a, h, S) ==
    f \in [0..n -> S] /\ f[0] = a /\ \A k \in 1..n : f[k] = h[k][f[k - 1]]

LEMMA IteratesExists ==
    ASSUME NEW n \in Nat, NEW S, NEW a \in S, NEW h \in [1..n -> [S -> S]]
    PROVE  \E f : Iterates(f, n, a, h, S)
<1> DEFINE T == {m \in Nat : m <= n => \E f : Iterates(f, m, a, h, S)}
<1>1. 0 \in T
  <2>1. Iterates([k \in 0..0 |-> a], 0, a, h, S)
    BY DEF Iterates
  <2> QED
    BY <2>1
<1>2. ASSUME NEW m \in T PROVE m + 1 \in T
  <2> SUFFICES ASSUME m + 1 <= n PROVE \E f : Iterates(f, m + 1, a, h, S)
    BY <1>2
  <2>1. m \in Nat /\ m <= n /\ m + 1 \in 1..n
    OBVIOUS
  <2>2. PICK f : Iterates(f, m, a, h, S)
    BY <2>1
  <2> DEFINE e == [k \in 0..(m + 1) |-> IF k = m + 1 THEN h[m + 1][f[m]] ELSE f[k]]
  <2>3. f \in [0..m -> S] /\ f[0] = a /\ \A k \in 1..m : f[k] = h[k][f[k - 1]]
    BY <2>2 DEF Iterates
  <2>4. h[m + 1][f[m]] \in S
    <3>1. f[m] \in S /\ h[m + 1] \in [S -> S]
      BY <2>1, <2>3
    <3> QED
      BY <3>1
  <2>5. \A k \in 0..(m + 1) : k # m + 1 => k \in 0..m
    BY <2>1
  <2>6. e \in [0..(m + 1) -> S]
    BY <2>3, <2>4, <2>5
  <2>7. e[0] = a
    BY <2>1, <2>3
  <2>8. ASSUME NEW k \in 1..(m + 1) PROVE e[k] = h[k][e[k - 1]]
    <3>1. k - 1 \in 0..m /\ k - 1 # m + 1 /\ e[k - 1] = f[k - 1]
      BY <2>1
    <3>2. CASE k = m + 1
      BY <2>1, <3>1, <3>2
    <3>3. CASE k # m + 1
      <4>1. k \in 1..m /\ k \in 0..(m + 1)
        BY <2>1, <3>3
      <4> QED
        BY <2>3, <3>1, <3>3, <4>1
    <3> QED
      BY <3>2, <3>3
  <2> HIDE DEF e
  <2> QED
    BY <2>6, <2>7, <2>8 DEF Iterates
<1>3. T \in SUBSET Nat
  OBVIOUS
<1> HIDE DEF T
<1>4. T = Nat
  BY <1>1, <1>2, <1>3, NatSteps
<1>5. n \in T
  BY <1>4
<1> QED
  BY <1>5 DEF T

(* Whatever begins at a and takes the same rounds while it is in S holds the
   same states. *)
LEMMA IteratesIs ==
    ASSUME NEW n \in Nat, NEW S, NEW a \in S, NEW h \in [1..n -> [S -> S]],
           NEW r, r = [k \in 0..n |-> r[k]], r[0] = a,
           \A k \in 1..n : r[k - 1] \in S => r[k] = h[k][r[k - 1]]
    PROVE  Iterates(r, n, a, h, S)
<1> DEFINE T == {k \in Nat : k <= n => r[k] \in S}
<1>1. 0 \in T
  OBVIOUS
<1>2. ASSUME NEW k \in T PROVE k + 1 \in T
  <2> SUFFICES ASSUME k + 1 <= n PROVE r[k + 1] \in S
    BY <1>2
  <2>1. k \in Nat /\ k <= n /\ k + 1 \in 1..n /\ (k + 1) - 1 = k
    OBVIOUS
  <2>2. r[k] \in S /\ h[k + 1] \in [S -> S]
    BY <2>1
  <2>3. r[(k + 1) - 1] \in S => r[k + 1] = h[k + 1][r[(k + 1) - 1]]
    BY <2>1
  <2>4. r[k + 1] = h[k + 1][r[k]]
    BY <2>1, <2>2, <2>3
  <2> QED
    BY <2>2, <2>4
<1>3. T \in SUBSET Nat
  OBVIOUS
<1> HIDE DEF T
<1>4. T = Nat
  BY <1>1, <1>2, <1>3, NatSteps
<1>5. \A k \in 0..n : r[k] \in S
  <2> TAKE k \in 0..n
  <2>1. k \in T /\ k <= n
    BY <1>4
  <2> QED
    BY <2>1 DEF T
<1>6. \A k \in 1..n : k - 1 \in 0..n
  OBVIOUS
<1>7. \A k \in 1..n : r[k] = h[k][r[k - 1]]
  BY <1>5, <1>6
<1>8. r \in [0..n -> S]
  BY <1>5
<1> QED
  BY <1>7, <1>8 DEF Iterates

-----------------------------------------------------------------------------
(* The map.                                                                *)

ZoneData == [type : Types, cap : Nat \ {0}, x : Int]

(* What lines that were accepted may have made of the graph. *)
IsMap(g) ==
  /\ g = [drones |-> g.drones, start |-> g.start, end |-> g.end, zone |-> g.zone, link |-> g.link]
  /\ DOMAIN g.zone \subseteq Zones /\ g.zone \in [DOMAIN g.zone -> ZoneData]
  /\ g.link \in [DOMAIN g.link -> Nat \ {0}]
  /\ g.drones # None => g.drones \in Nat \ {0}
  /\ g.start # None => g.start \in DOMAIN g.zone
  /\ g.end # None => g.end \in DOMAIN g.zone
  /\ g.start # None => g.start # g.end

HasRoute(g) == Complete(g) /\ g.end \in Visited(g)

MapInv ==
  /\ stage \in {"map", "routes", "flight", "refused"}
  /\ IsMap(graph)
  /\ stage \in {"routes", "flight"} => HasRoute(graph)
  /\ stage = "refused" => ~HasRoute(graph)

(* add_zone and add_connection keep all that was there. *)
LEMMA WithIs ==
    ASSUME NEW S, NEW f, f \in [DOMAIN f -> S], NEW x, NEW v \in S
    PROVE  DOMAIN With(f, x, v) = DOMAIN f \cup {x} /\ With(f, x, v) \in [DOMAIN f \cup {x} -> S]
  BY DEF With

LEMMA EmptyIsMap == IsMap(EmptyGraph) /\ ~HasRoute(EmptyGraph)
<1>1. EmptyGraph.drones = None /\ EmptyGraph.start = None /\ EmptyGraph.end = None
  BY DEF EmptyGraph
<1>2. EmptyGraph.zone = [z \in {} |-> None] /\ EmptyGraph.link = [l \in {} |-> 0]
  BY DEF EmptyGraph
<1>3. /\ EmptyGraph.zone \in [{} -> ZoneData] /\ DOMAIN EmptyGraph.zone = {}
      /\ EmptyGraph.link \in [{} -> Nat \ {0}] /\ DOMAIN EmptyGraph.link = {}
  BY <1>2
<1>4. EmptyGraph = [drones |-> EmptyGraph.drones, start |-> EmptyGraph.start, end |-> EmptyGraph.end,
                    zone |-> EmptyGraph.zone, link |-> EmptyGraph.link]
  BY DEF EmptyGraph
<1> QED
  BY <1>1, <1>3, <1>4 DEF IsMap, HasRoute, Complete

(* A line that is accepted adds to the map what it says, and a start and an
   end are never the same zone. *)
LEMMA AddedIsMap ==
    ASSUME IsMap(graph), NEW l \in Lines, Accepted(l)
    PROVE  IsMap(Added(l))
<1>1. /\ graph = [drones |-> graph.drones, start |-> graph.start, end |-> graph.end,
                  zone |-> graph.zone, link |-> graph.link]
      /\ DOMAIN graph.zone \subseteq Zones /\ graph.zone \in [DOMAIN graph.zone -> ZoneData]
      /\ graph.link \in [DOMAIN graph.link -> Nat \ {0}]
      /\ graph.drones # None => graph.drones \in Nat \ {0}
      /\ graph.start # None => graph.start \in DOMAIN graph.zone
      /\ graph.end # None => graph.end \in DOMAIN graph.zone
      /\ graph.start # None => graph.start # graph.end
  BY DEF IsMap
<1>2. CASE l.kind = "nb_drones"
  <2>1. l.value \in Int /\ l.value >= 1
    BY <1>2, ConstantsAssumption DEF Accepted
  <2>2. Added(l) = [drones |-> l.value, start |-> graph.start, end |-> graph.end,
                    zone |-> graph.zone, link |-> graph.link]
    BY <1>1, <1>2 DEF Added
  <2> QED
    BY <1>1, <2>1, <2>2 DEF IsMap
<1>3. CASE l.kind = "connection"
  <2>1. l.cap \in Nat \ {0}
    BY <1>3, ConstantsAssumption DEF Accepted, LinkAccepted
  <2> DEFINE link == With(graph.link, {l.a, l.b}, l.cap)
  <2>2. link \in [DOMAIN link -> Nat \ {0}]
    BY <1>1, <2>1, WithIs
  <2>3. Added(l) = [drones |-> graph.drones, start |-> graph.start, end |-> graph.end,
                    zone |-> graph.zone, link |-> link]
    BY <1>1, <1>3 DEF Added
  <2> HIDE DEF link
  <2> QED
    BY <1>1, <2>2, <2>3 DEF IsMap
<1>4. CASE l.kind \in {"start", "end", "hub"}
  <2>1. /\ l.name \in Zones /\ l.type \in Types /\ l.cap \in Nat \ {0} /\ l.x \in Int
        /\ l.name \notin DOMAIN graph.zone
    BY <1>4, ConstantsAssumption DEF Accepted, ZoneAccepted, Known
  <2> DEFINE v == [type |-> l.type, cap |-> l.cap, x |-> l.x]
             zone == With(graph.zone, l.name, v)
             h == [drones |-> graph.drones, start |-> graph.start, end |-> graph.end,
                   zone |-> zone, link |-> graph.link]
  <2>2. v \in ZoneData
    BY <2>1 DEF ZoneData
  <2> HIDE DEF v
  <2>3. DOMAIN zone = DOMAIN graph.zone \cup {l.name} /\ zone \in [DOMAIN zone -> ZoneData]
    <3>1. graph.zone \in [DOMAIN graph.zone -> ZoneData]
      BY <1>1
    <3>2. DOMAIN zone = DOMAIN graph.zone \cup {l.name} /\ zone \in [DOMAIN graph.zone \cup {l.name} -> ZoneData]
      BY <2>2, <3>1, WithIs
    <3> QED
      BY <3>2
  <2>4. l.name # None
    BY <2>1, ConstantsAssumption
  <2>5. Added(l) = IF l.kind = "hub" THEN h ELSE [h EXCEPT ![l.kind] = l.name]
    <3>1. l.kind # "nb_drones" /\ l.kind # "connection"
      BY <1>4
    <3>2. Added(l) = LET g == [graph EXCEPT !.zone = zone]
                     IN  IF l.kind = "hub" THEN g ELSE [g EXCEPT ![l.kind] = l.name]
      BY <3>1 DEF Added, v
    <3> HIDE DEF zone
    <3>3. [graph EXCEPT !.zone = zone] = h
      BY <1>1
    <3> QED
      BY <3>2, <3>3
  <2> HIDE DEF zone
  <2>6. CASE l.kind = "hub"
    <3>1. Added(l) = [drones |-> graph.drones, start |-> graph.start, end |-> graph.end,
                      zone |-> zone, link |-> graph.link]
      BY <2>5, <2>6
    <3> QED
      BY <1>1, <2>1, <2>3, <3>1 DEF IsMap
  <2>7. CASE l.kind = "start"
    <3>1. Added(l) = [drones |-> graph.drones, start |-> l.name, end |-> graph.end,
                      zone |-> zone, link |-> graph.link]
      BY <2>5, <2>7
    <3> QED
      BY <1>1, <2>1, <2>3, <2>4, <3>1 DEF IsMap
  <2>8. CASE l.kind = "end"
    <3>1. Added(l) = [drones |-> graph.drones, start |-> graph.start, end |-> l.name,
                      zone |-> zone, link |-> graph.link]
      BY <2>5, <2>8
    <3> QED
      BY <1>1, <2>1, <2>3, <2>4, <3>1 DEF IsMap
  <2> QED
    BY <1>4, <2>6, <2>7, <2>8
<1> QED
  BY <1>2, <1>3, <1>4 DEF Accepted

LEMMA MapInit == Init => MapInv
  BY EmptyIsMap DEF Init, InitMap, MapInv

LEMMA MapStep == MapInv /\ [Next]_vars => MapInv'
<1> SUFFICES ASSUME MapInv, [Next]_vars PROVE MapInv'
  OBVIOUS
<1>1. CASE EndOfFile
  BY <1>1 DEF MapInv, EndOfFile, HasRoute
<1>2. CASE \E l \in Lines : ReadLine(l)
  <2>1. PICK l \in Lines : ReadLine(l)
    BY <1>2
  <2>2. CASE Accepted(l)
    <3>1. graph' = Added(l) /\ stage' = "map"
      BY <2>1, <2>2 DEF ReadLine
    <3>2. IsMap(Added(l))
      BY <2>2, AddedIsMap DEF MapInv
    <3> QED
      BY <3>1, <3>2 DEF MapInv
  <2>3. CASE ~Accepted(l)
    BY <2>1, <2>3, EmptyIsMap DEF ReadLine, MapInv
  <2> QED
    BY <2>2, <2>3
<1>3. CASE TakeOff
  <2>1. graph' = graph /\ stage = "routes" /\ stage' = "flight"
    BY <1>3 DEF TakeOff
  <2> QED
    BY <2>1 DEF MapInv
<1>4. CASE UNCHANGED <<stage, graph>>
  BY <1>4 DEF MapInv
<1>5. Turn => UNCHANGED <<stage, graph>>
  BY DEF Turn
<1>6. Finished \/ UNCHANGED vars => UNCHANGED <<stage, graph>>
  BY DEF Finished, vars
<1> QED
  BY <1>1, <1>2, <1>3, <1>4, <1>5, <1>6 DEF Next, Read

-----------------------------------------------------------------------------
(* Walks on the map, and what the search of validate_connectivity visits.  *)

Move(g, x, y) == y \in Neighbours(g, x) /\ Accessible(g, y)

Walk(g, p) ==
  /\ p \in Seq(DOMAIN g.zone) /\ p # <<>>
  /\ \A i \in 1..Len(p) - 1 : Move(g, p[i], p[i + 1])

Loopless(g, p) == Walk(g, p) /\ p[1] = g.start /\ IsInjective(p)

Grow(g, set) == set \cup {y \in UNION {Neighbours(g, z) : z \in set} : Accessible(g, y)}

LEMMA Upto ==
    ASSUME NEW n \in Nat
    PROVE  IsFiniteSet(1..n) /\ Cardinality(1..n) = n
<1>1. 1 \in Int /\ n \in Int /\ (IF 1 > n THEN 0 ELSE n - 1 + 1) = n
  OBVIOUS
<1>2. IsFiniteSet(1..n) /\ Cardinality(1..n) = IF 1 > n THEN 0 ELSE n - 1 + 1
  BY <1>1, FS_Interval
<1> QED
  BY <1>1, <1>2

(* The first i of a sequence, and one alone. *)
LEMMA SubSeqIs ==
    ASSUME NEW S, NEW p \in Seq(S), NEW i \in 1..Len(p)
    PROVE  /\ SubSeq(p, 1, i) \in Seq(S) /\ Len(SubSeq(p, 1, i)) = i
           /\ \A j \in 1..i : SubSeq(p, 1, i)[j] = p[j]
<1>1. i \in Nat /\ 1..i \subseteq 1..Len(p) /\ i - 1 + 1 = i /\ 1 <= i
  OBVIOUS
<1>2. SubSeq(p, 1, i) = [j \in 1..i |-> p[j]]
  BY <1>1
<1>3. \A j \in 1..i : p[j] \in S
  BY <1>1
<1> QED
  BY <1>1, <1>2, <1>3

LEMMA OneAlone ==
    ASSUME NEW S, NEW z \in S
    PROVE  <<z>> \in Seq(S) /\ Len(<<z>>) = 1 /\ <<z>>[1] = z /\ <<z>> # <<>>
  OBVIOUS

LEMMA NamesFacts ==
  /\ Len(Names) \in Nat /\ DOMAIN Names = 1..Len(Names)
  /\ IsFiniteSet(Zones) /\ Cardinality(Zones) \in Nat /\ Cardinality(Zones) <= Len(Names)
<1>1. Len(Names) \in Nat /\ DOMAIN Names = 1..Len(Names)
  BY ConstantsAssumption
<1>2. Names \in Surjection(1..Len(Names), Zones)
  <2>1. Names \in [1..Len(Names) -> Zones]
    BY <1>1, ConstantsAssumption
  <2>2. \A z \in Zones : \E i \in 1..Len(Names) : Names[i] = z
    BY <1>1 DEF Zones
  <2> QED
    BY <2>1, <2>2 DEF Surjection
<1>3. IsFiniteSet(1..Len(Names)) /\ Cardinality(1..Len(Names)) = Len(Names)
  BY <1>1, Upto
<1>4. IsFiniteSet(Zones) /\ Cardinality(Zones) <= Cardinality(1..Len(Names))
  BY <1>2, <1>3, FS_Surjection
<1>5. Cardinality(Zones) \in Nat
  BY <1>4, FS_CardinalityType
<1> QED
  BY <1>1, <1>3, <1>4, <1>5

(* A path that goes through no zone twice is no longer than there are zones. *)
LEMMA LooplessIsShort ==
    ASSUME NEW p \in Seq(Zones), IsInjective(p)
    PROVE  Len(p) <= Len(Names)
<1> SUFFICES ASSUME Len(p) > Len(Names) PROVE FALSE
  BY NamesFacts
<1>1. IsFiniteSet(1..Len(p)) /\ Cardinality(1..Len(p)) = Len(p)
  BY Upto
<1>2. Cardinality(Zones) < Cardinality(1..Len(p))
  BY <1>1, NamesFacts
<1>3. p \in [1..Len(p) -> Zones]
  OBVIOUS
<1>4. \E i, j \in 1..Len(p) : i # j /\ p[i] = p[j]
  BY <1>1, <1>2, <1>3, NamesFacts, FS_PigeonHole
<1> QED
  BY <1>3, <1>4 DEF IsInjective

LEMMA VisitedIs ==
    ASSUME NEW g, IsMap(g), Complete(g)
    PROVE  \E V \in [0..Len(Names) -> SUBSET DOMAIN g.zone] :
             /\ V[0] = {g.start} /\ Visited(g) = V[Len(Names)]
             /\ \A k \in 1..Len(Names) : V[k] = Grow(g, V[k - 1])
<1> DEFINE N == Len(Names)
           S == SUBSET DOMAIN g.zone
           h == [k \in 1..N |-> [set \in S |-> Grow(g, set)]]
           V == CHOOSE V : V = [n \in 0..N |->
                  IF n = 0 THEN {g.start}
                  ELSE LET before == V[n - 1]
                       IN  before \cup {y \in UNION {Neighbours(g, z) : z \in before} : Accessible(g, y)}]
<1>1. Visited(g) = V[N]
  BY DEF Visited
<1>2. \A set \in S : Grow(g, set) \in S
  BY DEF Grow, Neighbours
<1>3. N \in Nat /\ {g.start} \in S /\ h \in [1..N -> [S -> S]]
  BY <1>2, NamesFacts DEF IsMap, Complete
<1>4. \A k \in 1..N : \A set \in S : h[k][set] = Grow(g, set)
  OBVIOUS
<1> HIDE DEF h, S, N
<1>5. PICK f : Iterates(f, N, {g.start}, h, S)
  BY <1>3, IteratesExists
<1>6. f = [n \in 0..N |-> IF n = 0 THEN {g.start} ELSE Grow(g, f[n - 1])]
  <2>1. \A k \in 0..N : k # 0 => k \in 1..N /\ k - 1 \in 0..N
    BY <1>3
  <2> QED
    BY <1>4, <1>5, <2>1 DEF Iterates
<1>7. f = [n \in 0..N |->
             IF n = 0 THEN {g.start}
             ELSE LET before == f[n - 1]
                  IN  before \cup {y \in UNION {Neighbours(g, z) : z \in before} : Accessible(g, y)}]
  BY <1>6 DEF Grow
<1>8. V = [n \in 0..N |-> IF n = 0 THEN {g.start} ELSE Grow(g, V[n - 1])]
  BY <1>7 DEF Grow
<1> HIDE DEF V
<1>9. V = [n \in 0..N |-> V[n]] /\ V[0] = {g.start} /\ \A k \in 1..N : V[k] = Grow(g, V[k - 1])
  <2> DEFINE u(n) == IF n = 0 THEN {g.start} ELSE Grow(g, V[n - 1])
  <2>1. V = [n \in 0..N |-> u(n)]
    BY <1>8
  <2> HIDE DEF u
  <2>2. V = [n \in 0..N |-> V[n]] /\ \A n \in 0..N : V[n] = u(n)
    BY <2>1
  <2>3. 0 \in 0..N /\ \A k \in 1..N : k \in 0..N /\ k # 0
    BY <1>3
  <2> QED
    BY <2>2, <2>3, Zenon DEF u
<1>10. Iterates(V, N, {g.start}, h, S)
  <2>1. \A k \in 1..N : V[k - 1] \in S => V[k] = h[k][V[k - 1]]
    BY <1>4, <1>9
  <2> QED
    BY <2>1, <1>3, <1>9, IteratesIs
<1>11. V \in [0..N -> S]
  BY <1>10 DEF Iterates
<1> QED
  BY <1>1, <1>9, <1>11 DEF N, S

(* The search stays within every set of zones that it cannot leave. *)
LEMMA VisitedWithin ==
    ASSUME NEW g, IsMap(g), Complete(g), NEW Y, g.start \in Y,
           \A x \in Y \cap DOMAIN g.zone, y \in DOMAIN g.zone : Move(g, x, y) => y \in Y
    PROVE  Visited(g) \subseteq Y
<1> DEFINE N == Len(Names)
<1>1. PICK V \in [0..N -> SUBSET DOMAIN g.zone] :
        V[0] = {g.start} /\ Visited(g) = V[N] /\ \A k \in 1..N : V[k] = Grow(g, V[k - 1])
  BY VisitedIs
<1>2. N \in Nat
  BY NamesFacts
<1> HIDE DEF N
<1> DEFINE T == {k \in Nat : k <= N => V[k] \subseteq Y}
<1>3. 0 \in T
  BY <1>1
<1>4. ASSUME NEW k \in T PROVE k + 1 \in T
  <2> SUFFICES ASSUME k + 1 <= N PROVE V[k + 1] \subseteq Y
    BY <1>4
  <2>1. k <= N /\ k + 1 \in 1..N /\ (k + 1) - 1 = k /\ k \in 0..N
    BY <1>2
  <2>2. V[k] \subseteq Y /\ V[k] \subseteq DOMAIN g.zone /\ V[k + 1] = Grow(g, V[k])
    BY <1>1, <2>1
  <2> QED
    BY <2>2 DEF Grow, Move, Neighbours
<1>5. T \in SUBSET Nat
  OBVIOUS
<1> HIDE DEF T
<1>6. N \in T
  BY <1>2, <1>3, <1>4, <1>5, NatSteps
<1> QED
  BY <1>1, <1>2, <1>6 DEF T

(* What is visited can be reached without going through a zone twice, ... *)
LEMMA VisitedReached ==
    ASSUME NEW g, IsMap(g), Complete(g), NEW z \in Visited(g)
    PROVE  \E p : Loopless(g, p) /\ Last(p) = z
<1> DEFINE Y == {y \in DOMAIN g.zone : \E p : Loopless(g, p) /\ Last(p) = y}
<1>1. g.start \in Y
  <2>1. g.start \in DOMAIN g.zone
    BY DEF IsMap, Complete
  <2>2. Loopless(g, <<g.start>>) /\ Last(<<g.start>>) = g.start
    <3> DEFINE q == <<g.start>>
    <3>1. q \in Seq(DOMAIN g.zone) /\ Len(q) = 1 /\ q[1] = g.start /\ q # <<>>
      BY <2>1, OneAlone
    <3> HIDE DEF q
    <3>2. Walk(g, q)
      BY <3>1 DEF Walk
    <3>3. IsInjective(q)
      BY <3>1 DEF IsInjective
    <3>4. Loopless(g, q) /\ Last(q) = g.start
      BY <3>1, <3>2, <3>3 DEF Loopless, Last
    <3> QED
      BY <3>4 DEF q
  <2> QED
    BY <2>1, <2>2
<1>2. ASSUME NEW x \in Y, NEW y \in DOMAIN g.zone, Move(g, x, y) PROVE y \in Y
  <2>1. PICK p : Loopless(g, p) /\ Last(p) = x
    OBVIOUS
  <2>2. /\ p \in Seq(DOMAIN g.zone) /\ Len(p) \in Nat /\ Len(p) >= 1 /\ p[1] = g.start /\ IsInjective(p)
        /\ \A i \in 1..Len(p) - 1 : Move(g, p[i], p[i + 1])
    BY <2>1 DEF Loopless, Walk
  <2>3. CASE \E i \in 1..Len(p) : p[i] = y
    <3>1. PICK i \in 1..Len(p) : p[i] = y
      BY <2>3
    <3> DEFINE q == SubSeq(p, 1, i)
    <3>2. q \in Seq(DOMAIN g.zone) /\ Len(q) = i /\ \A j \in 1..i : q[j] = p[j]
      BY <2>2, <3>1, SubSeqIs
    <3> HIDE DEF q
    <3>3. q # <<>> /\ q[1] = g.start /\ Last(q) = y
      BY <2>2, <3>1, <3>2 DEF Last
    <3>4. \A j \in 1..Len(q) - 1 : Move(g, q[j], q[j + 1])
      BY <2>2, <3>1, <3>2
    <3>5. IsInjective(q)
      BY <2>2, <3>2 DEF IsInjective
    <3>6. Loopless(g, q)
      BY <3>2, <3>3, <3>4, <3>5 DEF Loopless, Walk
    <3> QED
      BY <3>3, <3>6
  <2>4. CASE \A i \in 1..Len(p) : p[i] # y
    <3> DEFINE q == Append(p, y)
    <3>1. /\ q \in Seq(DOMAIN g.zone) /\ Len(q) = Len(p) + 1 /\ q[Len(p) + 1] = y
          /\ \A j \in 1..Len(p) : q[j] = p[j]
      BY <2>2
    <3> HIDE DEF q
    <3>2. q # <<>> /\ q[1] = g.start /\ Last(q) = y
      BY <2>2, <3>1 DEF Last
    <3>3. ASSUME NEW j \in 1..Len(q) - 1 PROVE Move(g, q[j], q[j + 1])
      <4>1. CASE j = Len(p)
        BY <1>2, <2>1, <2>2, <3>1, <4>1 DEF Last
      <4>2. CASE j # Len(p)
        <5>1. j \in 1..Len(p) - 1 /\ j \in 1..Len(p) /\ j + 1 \in 1..Len(p)
          BY <2>2, <3>1, <4>2
        <5> QED
          BY <2>2, <3>1, <5>1
      <4> QED
        BY <4>1, <4>2
    <3>4. IsInjective(q)
      <4> SUFFICES ASSUME NEW i \in DOMAIN q, NEW j \in DOMAIN q, q[i] = q[j] PROVE i = j
        BY DEF IsInjective
      <4>1. DOMAIN q = 1..Len(p) + 1 /\ DOMAIN p = 1..Len(p)
        BY <2>2, <3>1
      <4> QED
        BY <2>2, <2>4, <3>1, <4>1 DEF IsInjective
    <3>5. Loopless(g, q)
      BY <3>1, <3>2, <3>3, <3>4 DEF Loopless, Walk
    <3> QED
      BY <3>2, <3>5
  <2> QED
    BY <2>3, <2>4
<1>3. Visited(g) \subseteq Y
  <2>1. \A x \in Y \cap DOMAIN g.zone, y \in DOMAIN g.zone : Move(g, x, y) => y \in Y
    BY <1>2
  <2> HIDE DEF Y
  <2> QED
    BY <1>1, <2>1, VisitedWithin
<1> QED
  BY <1>3

(* ... and what can be reached so is visited. *)
LEMMA ReachedVisited ==
    ASSUME NEW g, IsMap(g), Complete(g), NEW p, Loopless(g, p)
    PROVE  Last(p) \in Visited(g)
<1> DEFINE N == Len(Names)
<1>1. PICK V \in [0..N -> SUBSET DOMAIN g.zone] :
        V[0] = {g.start} /\ Visited(g) = V[N] /\ \A k \in 1..N : V[k] = Grow(g, V[k - 1])
  BY VisitedIs
<1>2. N \in Nat /\ Len(p) \in Nat /\ Len(p) >= 1 /\ Len(p) <= N
  <2>1. p \in Seq(DOMAIN g.zone) /\ p # <<>> /\ IsInjective(p)
    BY DEF Loopless, Walk
  <2>2. p \in Seq(Zones)
    BY <2>1 DEF IsMap
  <2> QED
    BY <2>1, <2>2, NamesFacts, LooplessIsShort
<1>3. p[1] = g.start /\ \A i \in 1..Len(p) - 1 : Move(g, p[i], p[i + 1])
  BY DEF Loopless, Walk
<1> HIDE DEF N
<1> DEFINE T == {k \in Nat : k <= N => \A i \in 1..Len(p) : i - 1 <= k => p[i] \in V[k]}
<1>4. 0 \in T
  BY <1>1, <1>3
<1>5. ASSUME NEW k \in T PROVE k + 1 \in T
  <2> SUFFICES ASSUME k + 1 <= N, NEW i \in 1..Len(p), i - 1 <= k + 1 PROVE p[i] \in V[k + 1]
    BY <1>5
  <2>1. k <= N /\ k + 1 \in 1..N /\ (k + 1) - 1 = k /\ k \in 0..N
    BY <1>2
  <2>2. V[k + 1] = Grow(g, V[k])
    BY <1>1, <2>1
  <2>3. CASE i - 1 <= k
    BY <2>1, <2>2, <2>3 DEF Grow
  <2>4. CASE ~(i - 1 <= k)
    <3>1. i - 1 \in 1..Len(p) - 1 /\ i - 1 \in 1..Len(p) /\ (i - 1) - 1 <= k /\ (i - 1) + 1 = i
      BY <1>2, <2>4
    <3>2. p[i - 1] \in V[k] /\ Move(g, p[i - 1], p[i])
      BY <1>3, <2>1, <3>1
    <3> QED
      BY <2>2, <3>2 DEF Grow, Move
  <2> QED
    BY <2>3, <2>4
<1>6. T \in SUBSET Nat
  OBVIOUS
<1> HIDE DEF T
<1>7. N \in T
  BY <1>2, <1>4, <1>5, <1>6, NatSteps
<1>8. Len(p) \in 1..Len(p) /\ Len(p) - 1 <= N /\ N <= N
  BY <1>2
<1>9. p[Len(p)] \in V[N]
  BY <1>7, <1>8 DEF T
<1> QED
  BY <1>1, <1>9 DEF Last

-----------------------------------------------------------------------------
(* The reference: all loopless paths.                                      *)

Extend(g, set) ==
  UNION {{Append(p, z) : z \in {y \in Neighbours(g, Last(p)) : Accessible(g, y)} \ ToSet(p)} : p \in set}

LEMMA ExtendIs ==
    ASSUME NEW g, NEW set \in SUBSET Seq(DOMAIN g.zone)
    PROVE  /\ Extend(g, set) \in SUBSET Seq(DOMAIN g.zone)
           /\ \A q : q \in Extend(g, set) <=>
                \E p \in set, z \in DOMAIN g.zone :
                  Move(g, Last(p), z) /\ z \notin ToSet(p) /\ q = Append(p, z)
<1>1. \A q : q \in Extend(g, set) <=>
        \E p \in set : \E z \in {y \in Neighbours(g, Last(p)) : Accessible(g, y)} \ ToSet(p) : q = Append(p, z)
  BY DEF Extend
<1>2. \A p, z : z \in {y \in Neighbours(g, Last(p)) : Accessible(g, y)} \ ToSet(p)
                 <=> z \in DOMAIN g.zone /\ Move(g, Last(p), z) /\ z \notin ToSet(p)
  BY DEF Move, Neighbours
<1>3. \A q : q \in Extend(g, set) <=>
                \E p \in set, z \in DOMAIN g.zone :
                  Move(g, Last(p), z) /\ z \notin ToSet(p) /\ q = Append(p, z)
  BY <1>1, <1>2
<1>4. \A p \in Seq(DOMAIN g.zone), z \in DOMAIN g.zone : Append(p, z) \in Seq(DOMAIN g.zone)
  OBVIOUS
<1>5. ASSUME NEW q \in Extend(g, set) PROVE q \in Seq(DOMAIN g.zone)
  <2>1. PICK p \in set, z \in DOMAIN g.zone : q = Append(p, z)
    BY <1>3
  <2> QED
    BY <1>4, <2>1
<1> QED
  BY <1>3, <1>5

HopByHop(g, n, P) ==
  /\ P \in [0..n -> SUBSET Seq(DOMAIN g.zone)]
  /\ P[0] = {<<g.start>>} /\ PathsOfHops(g, n) = P[n]
  /\ \A k \in 1..n : P[k] = Extend(g, P[k - 1])

LEMMA PathsOfHopsIs ==
    ASSUME NEW g, IsMap(g), Complete(g), NEW n \in Nat
    PROVE  \E P : HopByHop(g, n, P)
<1> DEFINE S == SUBSET Seq(DOMAIN g.zone)
           h == [k \in 1..n |-> [set \in S |-> Extend(g, set)]]
           one == {<<g.start>>}
           P == CHOOSE P : P = [k \in 0..n |->
                  IF k = 0 THEN {<<g.start>>}
                  ELSE UNION {{Append(p, z) : z \in {y \in Neighbours(g, Last(p)) : Accessible(g, y)} \ ToSet(p)} :
                                p \in P[k - 1]}]
<1>1. PathsOfHops(g, n) = P[n]
  BY DEF PathsOfHops
<1>2. one \in S
  BY OneAlone DEF IsMap, Complete
<1>3. h \in [1..n -> [S -> S]]
  BY ExtendIs
<1>4. \A k \in 1..n : \A set \in S : h[k][set] = Extend(g, set)
  OBVIOUS
<1> HIDE DEF h, S
<1>5. PICK f : Iterates(f, n, one, h, S)
  BY <1>2, <1>3, IteratesExists
<1>6. f = [k \in 0..n |-> IF k = 0 THEN one ELSE Extend(g, f[k - 1])]
  <2>1. \A k \in 0..n : k # 0 => k \in 1..n /\ k - 1 \in 0..n
    OBVIOUS
  <2> HIDE DEF one
  <2> QED
    BY <1>4, <1>5, <2>1 DEF Iterates
<1>7. f = [k \in 0..n |->
             IF k = 0 THEN {<<g.start>>}
             ELSE UNION {{Append(p, z) : z \in {y \in Neighbours(g, Last(p)) : Accessible(g, y)} \ ToSet(p)} :
                           p \in f[k - 1]}]
  BY <1>6, Zenon DEF Extend
<1>8. P = [k \in 0..n |-> IF k = 0 THEN one ELSE Extend(g, P[k - 1])]
  BY <1>7, Zenon DEF Extend
<1> HIDE DEF P, one
<1>9. P = [k \in 0..n |-> P[k]] /\ P[0] = one /\ \A k \in 1..n : P[k] = Extend(g, P[k - 1])
  <2> DEFINE u(k) == IF k = 0 THEN one ELSE Extend(g, P[k - 1])
  <2>1. P = [k \in 0..n |-> u(k)]
    BY <1>8
  <2> HIDE DEF u
  <2>2. P = [k \in 0..n |-> P[k]] /\ \A k \in 0..n : P[k] = u(k)
    BY <2>1
  <2>3. 0 \in 0..n /\ \A k \in 1..n : k \in 0..n /\ k # 0
    OBVIOUS
  <2> QED
    BY <2>2, <2>3, Zenon DEF u
<1>10. Iterates(P, n, one, h, S)
  <2>1. \A k \in 1..n : P[k - 1] \in S => P[k] = h[k][P[k - 1]]
    BY <1>4, <1>9
  <2> QED
    BY <2>1, <1>2, <1>3, <1>9, IteratesIs
<1>11. P \in [0..n -> S]
  BY <1>10 DEF Iterates
<1> QED
  BY <1>1, <1>9, <1>11 DEF S, one, HopByHop

(* The paths of n hops are those of n + 1 zones. *)
LEMMA HopsAreZones ==
    ASSUME NEW g, IsMap(g), Complete(g), NEW n \in Nat, NEW p
    PROVE  p \in PathsOfHops(g, n) <=> Loopless(g, p) /\ Len(p) = n + 1
<1> PICK P : HopByHop(g, n, P)
  BY PathsOfHopsIs
<1>1. /\ P \in [0..n -> SUBSET Seq(DOMAIN g.zone)] /\ P[0] = {<<g.start>>} /\ PathsOfHops(g, n) = P[n]
      /\ \A k \in 1..n : P[k] = Extend(g, P[k - 1])
  BY DEF HopByHop
<1> DEFINE T == {k \in Nat : k <= n => \A q : q \in P[k] <=> Loopless(g, q) /\ Len(q) = k + 1}
<1>2. 0 \in T
  <2> SUFFICES ASSUME NEW q PROVE q \in P[0] <=> Loopless(g, q) /\ Len(q) = 0 + 1
    OBVIOUS
  <2>1. g.start \in DOMAIN g.zone
    BY DEF IsMap, Complete
  <2>2. ASSUME q = <<g.start>> PROVE Loopless(g, q) /\ Len(q) = 1
    <3>1. q \in Seq(DOMAIN g.zone) /\ Len(q) = 1 /\ q[1] = g.start /\ q # <<>>
      BY <2>1, <2>2, OneAlone
    <3> QED
      BY <3>1 DEF Loopless, Walk, IsInjective
  <2>3. ASSUME Loopless(g, q), Len(q) = 1 PROVE q = <<g.start>>
    BY <2>3 DEF Loopless, Walk
  <2> QED
    BY <1>1, <2>2, <2>3
<1>3. ASSUME NEW k \in T PROVE k + 1 \in T
  <2> SUFFICES ASSUME k + 1 <= n, NEW q
               PROVE  q \in P[k + 1] <=> Loopless(g, q) /\ Len(q) = (k + 1) + 1
    BY <1>3
  <2>1. k \in Nat /\ k <= n /\ k + 1 \in 1..n /\ (k + 1) - 1 = k /\ k \in 0..n
    OBVIOUS
  <2>2. \A r : r \in P[k] <=> Loopless(g, r) /\ Len(r) = k + 1
    BY <2>1
  <2>3. P[k + 1] = Extend(g, P[k]) /\ P[k] \in SUBSET Seq(DOMAIN g.zone)
    BY <1>1, <2>1
  <2>4. q \in P[k + 1] <=> \E r \in P[k], z \in DOMAIN g.zone :
                              Move(g, Last(r), z) /\ z \notin ToSet(r) /\ q = Append(r, z)
    BY <2>3, ExtendIs
  <2>5. ASSUME NEW r \in P[k], NEW z \in DOMAIN g.zone, Move(g, Last(r), z), z \notin ToSet(r), q = Append(r, z)
        PROVE  Loopless(g, q) /\ Len(q) = (k + 1) + 1
    <3>1. /\ r \in Seq(DOMAIN g.zone) /\ Len(r) = k + 1 /\ r[1] = g.start /\ IsInjective(r)
          /\ \A i \in 1..Len(r) - 1 : Move(g, r[i], r[i + 1])
      BY <2>2 DEF Loopless, Walk
    <3>2. /\ q \in Seq(DOMAIN g.zone) /\ Len(q) = k + 2 /\ q[k + 2] = z
          /\ \A j \in 1..k + 1 : q[j] = r[j]
      BY <2>1, <2>5, <3>1
    <3>3. \A j \in 1..k + 1 : r[j] # z
      BY <2>5, <3>1 DEF ToSet
    <3>4. ASSUME NEW j \in 1..Len(q) - 1 PROVE Move(g, q[j], q[j + 1])
      <4>1. CASE j = k + 1
        BY <2>1, <2>5, <3>1, <3>2, <4>1 DEF Last
      <4>2. CASE j # k + 1
        <5>1. j \in 1..Len(r) - 1 /\ j \in 1..k + 1 /\ j + 1 \in 1..k + 1
          BY <2>1, <3>1, <3>2, <4>2
        <5> QED
          BY <3>1, <3>2, <5>1
      <4> QED
        BY <4>1, <4>2
    <3>5. IsInjective(q)
      <4> SUFFICES ASSUME NEW i \in DOMAIN q, NEW j \in DOMAIN q, q[i] = q[j] PROVE i = j
        BY DEF IsInjective
      <4>1. DOMAIN q = 1..k + 2 /\ DOMAIN r = 1..k + 1
        BY <3>1, <3>2
      <4> QED
        BY <2>1, <3>1, <3>2, <3>3, <4>1 DEF IsInjective
    <3>6. q # <<>> /\ q[1] = g.start
      BY <2>1, <3>1, <3>2
    <3> QED
      BY <2>1, <3>2, <3>4, <3>5, <3>6 DEF Loopless, Walk
  <2>6. ASSUME Loopless(g, q), Len(q) = (k + 1) + 1
        PROVE  \E r \in P[k], z \in DOMAIN g.zone :
                 Move(g, Last(r), z) /\ z \notin ToSet(r) /\ q = Append(r, z)
    <3> DEFINE r == SubSeq(q, 1, k + 1)
               z == q[k + 2]
    <3>1. /\ q \in Seq(DOMAIN g.zone) /\ Len(q) = k + 2 /\ q[1] = g.start /\ IsInjective(q)
          /\ \A i \in 1..Len(q) - 1 : Move(g, q[i], q[i + 1])
      BY <2>1, <2>6 DEF Loopless, Walk
    <3>2. k + 1 \in 1..Len(q) /\ k + 2 \in 1..Len(q) /\ k + 1 \in 1..Len(q) - 1 /\ (k + 1) + 1 = k + 2
      BY <2>1, <3>1
    <3>3. /\ r \in Seq(DOMAIN g.zone) /\ Len(r) = k + 1 /\ \A j \in 1..k + 1 : r[j] = q[j]
      BY <3>1, <3>2, SubSeqIs
    <3>4. z \in DOMAIN g.zone
      BY <3>1, <3>2
    <3>5. Move(g, q[k + 1], z)
      BY <3>1, <3>2
    <3>6. q = Append(r, z)
      BY <2>1, <3>1, <3>3
    <3> HIDE DEF r, z
    <3>7. Last(r) = q[k + 1]
      BY <2>1, <3>3 DEF Last
    <3>8. z \notin ToSet(r)
      BY <2>1, <3>1, <3>3 DEF ToSet, IsInjective, z
    <3>9. Loopless(g, r)
      <4>1. r # <<>> /\ r[1] = g.start
        BY <2>1, <3>1, <3>3
      <4>2. \A i \in 1..Len(r) - 1 : Move(g, r[i], r[i + 1])
        BY <2>1, <3>1, <3>3
      <4>3. IsInjective(r)
        BY <2>1, <3>1, <3>3 DEF IsInjective
      <4> QED
        BY <3>3, <4>1, <4>2, <4>3 DEF Loopless, Walk
    <3> QED
      BY <2>2, <3>3, <3>4, <3>5, <3>6, <3>7, <3>8, <3>9
  <2> QED
    BY <2>4, <2>5, <2>6
<1>4. T \in SUBSET Nat
  OBVIOUS
<1> HIDE DEF T
<1>5. n \in T
  BY <1>2, <1>3, <1>4, NatSteps
<1> QED
  BY <1>1, <1>5 DEF T

LEMMA SimplePathsIs ==
    ASSUME NEW g, IsMap(g), Complete(g), NEW p
    PROVE  p \in SimplePaths(g) <=> Loopless(g, p) /\ Last(p) = g.end
<1>1. ASSUME p \in SimplePaths(g) PROVE Loopless(g, p) /\ Last(p) = g.end
  <2>1. PICK n \in 0..Len(Names) - 1 : p \in PathsOfHops(g, n)
    BY <1>1 DEF SimplePaths
  <2>2. n \in Nat
    BY NamesFacts
  <2> QED
    BY <1>1, <2>1, <2>2, HopsAreZones DEF SimplePaths
<1>2. ASSUME Loopless(g, p), Last(p) = g.end PROVE p \in SimplePaths(g)
  <2>1. p \in Seq(DOMAIN g.zone) /\ p # <<>> /\ IsInjective(p)
    BY <1>2 DEF Loopless, Walk
  <2>2. p \in Seq(Zones)
    BY <2>1 DEF IsMap
  <2>3. Len(p) <= Len(Names)
    BY <2>1, <2>2, LooplessIsShort
  <2>4. Len(p) - 1 \in 0..Len(Names) - 1 /\ Len(p) - 1 \in Nat /\ Len(p) = (Len(p) - 1) + 1
    BY <2>1, <2>3, NamesFacts
  <2>5. p \in PathsOfHops(g, Len(p) - 1)
    BY <1>2, <2>4, HopsAreZones
  <2> QED
    BY <1>2, <2>4, <2>5 DEF SimplePaths
<1> QED
  BY <1>1, <1>2

(* The search of the parser finds the end if and only if a path leads there. *)
LEMMA RouteIff ==
    ASSUME NEW g, IsMap(g), Complete(g)
    PROVE  HasRoute(g) <=> SimplePaths(g) # {}
<1>1. HasRoute(g) => SimplePaths(g) # {}
  BY VisitedReached, SimplePathsIs DEF HasRoute
<1>2. ASSUME NEW p \in SimplePaths(g) PROVE HasRoute(g)
  BY ReachedVisited, SimplePathsIs DEF HasRoute
<1> QED
  BY <1>1, <1>2

(* A complete map is refused at its end if and only if no path leads from the
   start to the end past the blocked zones, whatever the map
   (Graph.validate_connectivity). *)
THEOREM OnlyRoutelessRefused == Spec => []RefusedWithoutRoute
<1>1. MapInv => RefusedWithoutRoute
  <2>1. ASSUME MapInv, stage = "routes" PROVE SimplePaths(graph) # {}
    BY <2>1, RouteIff DEF MapInv, HasRoute
  <2>2. ASSUME MapInv, stage = "refused", Complete(graph) PROVE SimplePaths(graph) = {}
    BY <2>2, RouteIff DEF MapInv
  <2> QED
    BY <2>1, <2>2 DEF RefusedWithoutRoute
<1> QED
  BY MapInit, MapStep, <1>1, PTL DEF Spec

-----------------------------------------------------------------------------
(* What paths cost.                                                        *)

LEMMA CostIs ==
    ASSUME NEW g, IsMap(g), Complete(g), NEW z \in DOMAIN g.zone
    PROVE  Cost(g, z) \in {1, 2} /\ Distance(g, z) \in Nat
<1>1. g.zone[z].x \in Int /\ g.zone[g.end].x \in Int
  BY DEF IsMap, Complete, ZoneData
<1> QED
  BY <1>1 DEF Cost, Distance

(* C holds the costs of the first zones of p. *)
Tally(g, p, C) ==
  /\ C \in [0..Len(p) -> Nat] /\ C[0] = 0
  /\ \A i \in 1..Len(p) : C[i] = IF i <= 1 THEN 0 ELSE C[i - 1] + Cost(g, p[i])

LEMMA TallyExists ==
    ASSUME NEW g, IsMap(g), Complete(g), NEW p \in Seq(DOMAIN g.zone)
    PROVE  \E C : Tally(g, p, C) /\ PathCost(g, p) = C[Len(p)]
<1> DEFINE N == Len(p)
           h == [i \in 1..N |-> [n \in Nat |-> IF i <= 1 THEN 0 ELSE n + Cost(g, p[i])]]
           C == CHOOSE C : C = [i \in 0..N |-> IF i <= 1 THEN 0 ELSE C[i - 1] + Cost(g, p[i])]
<1>1. PathCost(g, p) = C[N]
  BY DEF PathCost
<1>2. N \in Nat /\ 0 \in Nat
  OBVIOUS
<1>3. \A i \in 1..N : Cost(g, p[i]) \in Nat
  BY CostIs
<1>4. h \in [1..N -> [Nat -> Nat]]
  BY <1>3
<1>5. \A i \in 1..N, n \in Nat : h[i][n] = IF i <= 1 THEN 0 ELSE n + Cost(g, p[i])
  OBVIOUS
<1> HIDE DEF h, N
<1>6. PICK f : Iterates(f, N, 0, h, Nat)
  BY <1>2, <1>4, IteratesExists
<1>7. f = [i \in 0..N |-> IF i <= 1 THEN 0 ELSE f[i - 1] + Cost(g, p[i])]
  <2>1. /\ f \in [0..N -> Nat] /\ f[0] = 0
        /\ \A i \in 1..N : f[i] = IF i <= 1 THEN 0 ELSE f[i - 1] + Cost(g, p[i])
    <3>1. \A i \in 1..N : i - 1 \in 0..N
      BY <1>2
    <3> QED
      BY <1>5, <1>6, <3>1 DEF Iterates
  <2>2. \A i \in 0..N : f[i] = IF i <= 1 THEN 0 ELSE f[i - 1] + Cost(g, p[i])
    <3>1. \A i \in 0..N : i = 0 \/ i \in 1..N
      BY <1>2
    <3> QED
      BY <2>1, <3>1
  <2> QED
    BY <2>1, <2>2
<1>8. C = [i \in 0..N |-> IF i <= 1 THEN 0 ELSE C[i - 1] + Cost(g, p[i])]
  BY <1>7
<1> HIDE DEF C
<1>9. /\ C = [i \in 0..N |-> C[i]] /\ C[0] = 0
      /\ \A i \in 1..N : C[i] = IF i <= 1 THEN 0 ELSE C[i - 1] + Cost(g, p[i])
  <2> DEFINE u(i) == IF i <= 1 THEN 0 ELSE C[i - 1] + Cost(g, p[i])
  <2>1. C = [i \in 0..N |-> u(i)]
    BY <1>8
  <2> HIDE DEF u
  <2>2. C = [i \in 0..N |-> C[i]] /\ \A i \in 0..N : C[i] = u(i)
    BY <2>1
  <2>3. 0 \in 0..N /\ 0 <= 1 /\ \A i \in 1..N : i \in 0..N
    BY <1>2
  <2> QED
    BY <2>2, <2>3, Zenon DEF u
<1>10. Iterates(C, N, 0, h, Nat)
  <2>1. \A i \in 1..N : C[i - 1] \in Nat => C[i] = h[i][C[i - 1]]
    BY <1>5, <1>9
  <2> QED
    BY <2>1, <1>2, <1>4, <1>9, IteratesIs
<1>11. C \in [0..N -> Nat]
  BY <1>10 DEF Iterates
<1>12. Tally(g, p, C)
  BY <1>9, <1>11 DEF Tally, N
<1> QED
  BY <1>1, <1>12 DEF N

LEMMA PathCostIs ==
    ASSUME NEW g, IsMap(g), Complete(g), NEW p \in Seq(DOMAIN g.zone)
    PROVE  PathCost(g, p) \in Nat
<1>1. PICK C : Tally(g, p, C) /\ PathCost(g, p) = C[Len(p)]
  BY TallyExists
<1>2. Len(p) \in 0..Len(p)
  OBVIOUS
<1> QED
  BY <1>1, <1>2 DEF Tally

LEMMA TallyIs ==
    ASSUME NEW g, IsMap(g), Complete(g), NEW p \in Seq(DOMAIN g.zone), NEW C, Tally(g, p, C)
    PROVE  PathCost(g, p) = C[Len(p)]
<1> DEFINE N == Len(p)
<1>1. PICK D : Tally(g, p, D) /\ PathCost(g, p) = D[N]
  BY TallyExists
<1>2. N \in Nat
  OBVIOUS
<1>3. /\ C[0] = 0 /\ \A i \in 1..N : C[i] = IF i <= 1 THEN 0 ELSE C[i - 1] + Cost(g, p[i])
      /\ D[0] = 0 /\ \A i \in 1..N : D[i] = IF i <= 1 THEN 0 ELSE D[i - 1] + Cost(g, p[i])
  BY <1>1 DEF Tally
<1> HIDE DEF N
<1> DEFINE T == {k \in Nat : k <= N => C[k] = D[k]}
<1>4. 0 \in T
  BY <1>3
<1>5. ASSUME NEW k \in T PROVE k + 1 \in T
  <2> SUFFICES ASSUME k + 1 <= N PROVE C[k + 1] = D[k + 1]
    BY <1>5
  <2>1. k <= N /\ k + 1 \in 1..N /\ (k + 1) - 1 = k
    BY <1>2
  <2>2. C[k] = D[k]
    BY <2>1
  <2> QED
    BY <1>3, <2>1, <2>2
<1>6. T \in SUBSET Nat
  OBVIOUS
<1> HIDE DEF T
<1>7. N \in T
  BY <1>2, <1>4, <1>5, <1>6, NatSteps
<1> QED
  BY <1>1, <1>2, <1>7 DEF T, N

LEMMA CostOfOne ==
    ASSUME NEW g, IsMap(g), Complete(g), NEW p \in Seq(DOMAIN g.zone), Len(p) = 1
    PROVE  PathCost(g, p) = 0
<1>1. PICK C : Tally(g, p, C) /\ PathCost(g, p) = C[Len(p)]
  BY TallyExists
<1>2. 1 \in 1..Len(p)
  OBVIOUS
<1>3. C[1] = IF 1 <= 1 THEN 0 ELSE C[1 - 1] + Cost(g, p[1])
  BY <1>1, <1>2, Zenon DEF Tally
<1> QED
  BY <1>1, <1>3

(* r goes on from the last zone of u with q, which begins there. *)
Glued(u, q, r) ==
  /\ Len(u) >= 1 /\ Len(q) >= 1 /\ Len(r) = (Len(u) - 1) + Len(q)
  /\ \A j \in 1..Len(u) : r[j] = u[j]
  /\ \A j \in 1..Len(q) : r[(Len(u) - 1) + j] = q[j]

LEMMA CostOfGlued ==
    ASSUME NEW g, IsMap(g), Complete(g), NEW u \in Seq(DOMAIN g.zone), NEW q \in Seq(DOMAIN g.zone),
           NEW r \in Seq(DOMAIN g.zone), Glued(u, q, r)
    PROVE  PathCost(g, r) = PathCost(g, u) + PathCost(g, q)
<1> DEFINE m == Len(u)
           n == Len(q)
<1>1. PICK A : Tally(g, u, A) /\ PathCost(g, u) = A[m]
  BY TallyExists
<1>2. PICK B : Tally(g, q, B) /\ PathCost(g, q) = B[n]
  BY TallyExists
<1>3. /\ m \in Nat /\ n \in Nat /\ m >= 1 /\ n >= 1 /\ Len(r) = (m - 1) + n
      /\ \A j \in 1..m : r[j] = u[j]
      /\ \A j \in 1..n : r[(m - 1) + j] = q[j]
  BY DEF Glued
<1>4. /\ A \in [0..m -> Nat] /\ A[0] = 0 /\ \A i \in 1..m : A[i] = IF i <= 1 THEN 0 ELSE A[i - 1] + Cost(g, u[i])
      /\ B \in [0..n -> Nat] /\ B[0] = 0 /\ \A i \in 1..n : B[i] = IF i <= 1 THEN 0 ELSE B[i - 1] + Cost(g, q[i])
  BY <1>1, <1>2 DEF Tally
<1> HIDE DEF m, n
<1> DEFINE N == (m - 1) + n
           C == [k \in 0..N |-> IF k <= m THEN A[k] ELSE A[m] + B[(k - m) + 1]]
<1>5. /\ \A k \in 0..N : k <= m => k \in 0..m
      /\ \A k \in 0..N : ~(k <= m) => (k - m) + 1 \in 0..n
      /\ m \in 0..m
  BY <1>3
<1>6. C \in [0..N -> Nat]
  BY <1>4, <1>5
<1>7. C[0] = 0
  BY <1>3, <1>4
<1>8. ASSUME NEW k \in 1..N PROVE C[k] = IF k <= 1 THEN 0 ELSE C[k - 1] + Cost(g, r[k])
  <2>1. CASE k <= m
    <3>1. k \in 1..m /\ C[k] = A[k] /\ C[k - 1] = A[k - 1] /\ r[k] = u[k]
      BY <1>3, <2>1
    <3> QED
      BY <1>4, <3>1
  <2>2. CASE ~(k <= m)
    <3> DEFINE j == (k - m) + 1
    <3>1. /\ j \in 1..n /\ ~(j <= 1) /\ j - 1 = k - m /\ j - 1 \in 0..n /\ ~(k <= 1)
          /\ (m - 1) + j = k /\ k \in 0..N /\ k - 1 \in 0..N
      BY <1>3, <2>2
    <3>2. B[j] = B[j - 1] + Cost(g, q[j]) /\ r[k] = q[j]
      BY <1>3, <1>4, <3>1
    <3>3. C[k] = A[m] + B[j]
      BY <2>2, <3>1
    <3>4. C[k - 1] = A[m] + B[j - 1]
      <4>1. CASE k - 1 = m
        <5>1. j - 1 = 1 /\ 1 \in 1..n
          BY <1>3, <3>1, <4>1
        <5>2. B[1] = IF 1 <= 1 THEN 0 ELSE B[1 - 1] + Cost(g, q[1])
          BY <1>4, <5>1, Zenon
        <5>3. B[1] = 0
          BY <5>2
        <5>4. C[k - 1] = A[m] /\ A[m] \in Nat
          BY <1>3, <1>4, <1>5, <3>1, <4>1
        <5> QED
          BY <5>1, <5>3, <5>4
      <4>2. CASE k - 1 # m
        <5>1. ~(k - 1 <= m) /\ ((k - 1) - m) + 1 = j - 1
          BY <1>3, <2>2, <3>1, <4>2
        <5> QED
          BY <3>1, <5>1
      <4> QED
        BY <4>1, <4>2
    <3>5. A[m] \in Nat /\ B[j - 1] \in Nat /\ Cost(g, q[j]) \in Nat
      <4>1. q[j] \in DOMAIN g.zone
        BY <3>1 DEF n
      <4>2. Cost(g, q[j]) \in {1, 2}
        BY <4>1, CostIs
      <4>3. A[m] \in Nat /\ B[j - 1] \in Nat
        BY <1>4, <1>5, <3>1
      <4> QED
        BY <4>2, <4>3
    <3> HIDE DEF j, C
    <3> QED
      BY <3>1, <3>2, <3>3, <3>4, <3>5
  <2> QED
    BY <2>1, <2>2
<1>9. Tally(g, r, C)
  BY <1>3, <1>6, <1>7, <1>8 DEF Tally
<1>10. C[N] = A[m] + B[n]
  <2>1. CASE n = 1
    <3>1. N = m /\ 1 \in 1..n /\ m \in 0..N
      BY <1>3, <2>1
    <3>2. B[1] = IF 1 <= 1 THEN 0 ELSE B[1 - 1] + Cost(g, q[1])
      BY <1>4, <3>1, Zenon
    <3>3. B[n] = 0 /\ A[m] \in Nat
      BY <1>4, <1>5, <2>1, <3>2
    <3>4. C[N] = A[m]
      BY <1>3, <3>1
    <3> QED
      BY <3>3, <3>4
  <2>2. CASE n # 1
    <3>1. ~(N <= m) /\ (N - m) + 1 = n /\ N \in 0..N
      BY <1>3, <2>2
    <3> QED
      BY <3>1
  <2> QED
    BY <2>1, <2>2
<1> HIDE DEF C
<1>11. PathCost(g, r) = C[N]
  <2>1. PathCost(g, r) = C[Len(r)]
    BY <1>9, TallyIs
  <2> QED
    BY <1>3, <2>1
<1> QED
  BY <1>1, <1>2, <1>10, <1>11 DEF m, n

LEMMA CostOfAppend ==
    ASSUME NEW g, IsMap(g), Complete(g), NEW p \in Seq(DOMAIN g.zone), p # <<>>, NEW z \in DOMAIN g.zone
    PROVE  PathCost(g, Append(p, z)) = PathCost(g, p) + Cost(g, z)
<1> DEFINE N == Len(p)
           r == Append(p, z)
<1>1. PICK A : Tally(g, p, A) /\ PathCost(g, p) = A[N]
  BY TallyExists
<1>2. /\ N \in Nat /\ N >= 1 /\ r \in Seq(DOMAIN g.zone) /\ Len(r) = N + 1 /\ r[N + 1] = z
      /\ \A j \in 1..N : r[j] = p[j]
  OBVIOUS
<1>3. /\ A \in [0..N -> Nat] /\ A[0] = 0
      /\ \A i \in 1..N : A[i] = IF i <= 1 THEN 0 ELSE A[i - 1] + Cost(g, p[i])
  BY <1>1 DEF Tally
<1> HIDE DEF N, r
<1> DEFINE C == [k \in 0..N + 1 |-> IF k <= N THEN A[k] ELSE A[N] + Cost(g, z)]
<1>4. Cost(g, z) \in Nat /\ A[N] \in Nat
  <2>1. Cost(g, z) \in {1, 2}
    BY CostIs
  <2>2. A[N] \in Nat
    BY <1>2, <1>3
  <2> QED
    BY <2>1, <2>2
<1>5. C \in [0..N + 1 -> Nat]
  <2>1. \A k \in 0..N + 1 : k <= N => k \in 0..N
    BY <1>2
  <2> QED
    BY <1>3, <1>4, <2>1
<1>6. C[0] = 0 /\ C[N] = A[N] /\ C[N + 1] = A[N] + Cost(g, z)
  BY <1>2, <1>3
<1>7. ASSUME NEW k \in 1..N + 1 PROVE C[k] = IF k <= 1 THEN 0 ELSE C[k - 1] + Cost(g, r[k])
  <2>1. CASE k = N + 1
    <3>1. ~(k <= 1) /\ k - 1 = N /\ r[k] = z
      BY <1>2, <2>1
    <3> QED
      BY <1>6, <2>1, <3>1
  <2>2. CASE k # N + 1
    <3>1. k \in 1..N /\ C[k] = A[k] /\ C[k - 1] = A[k - 1] /\ r[k] = p[k]
      BY <1>2, <2>2
    <3> QED
      BY <1>3, <3>1
  <2> QED
    BY <2>1, <2>2
<1>8. Tally(g, r, C)
  BY <1>2, <1>5, <1>6, <1>7 DEF Tally
<1> HIDE DEF C
<1>9. PathCost(g, r) = C[N + 1]
  BY <1>2, <1>8, TallyIs
<1> QED
  BY <1>1, <1>6, <1>9 DEF N, r

(* A path cut in two. *)
LEMMA SuffixIs ==
    ASSUME NEW S, NEW p \in Seq(S), NEW i \in 1..Len(p)
    PROVE  /\ SubSeq(p, i, Len(p)) \in Seq(S) /\ Len(SubSeq(p, i, Len(p))) = (Len(p) - i) + 1
           /\ \A j \in 1..(Len(p) - i) + 1 : SubSeq(p, i, Len(p))[j] = p[(i - 1) + j]
<1> DEFINE n == (Len(p) - i) + 1
           w(j) == p[(i - 1) + j]
           v == SubSeq(p, i, Len(p))
<1>1. n \in Nat /\ v = [j \in 1..n |-> w(j)]
  <2>1. i \in Nat /\ i >= 1 /\ i <= Len(p) /\ Len(p) \in Nat
    OBVIOUS
  <2>2. v = [j \in 1..n |-> p[(i + j) - 1]]
    BY <2>1
  <2>3. \A j \in 1..n : (i + j) - 1 = (i - 1) + j
    BY <2>1
  <2> QED
    BY <2>1, <2>2, <2>3
<1>2. \A j \in 1..n : w(j) \in S
  OBVIOUS
<1>3. \A j \in 1..n : w(j) = p[(i - 1) + j]
  OBVIOUS
<1> HIDE DEF v, n, w
<1>4. v \in Seq(S) /\ Len(v) = n /\ \A j \in 1..n : v[j] = w(j)
  BY <1>1, <1>2
<1> QED
  BY <1>3, <1>4 DEF v, n

LEMMA CostOfCut ==
    ASSUME NEW g, IsMap(g), Complete(g), NEW p \in Seq(DOMAIN g.zone), NEW i \in 1..Len(p)
    PROVE  /\ PathCost(g, SubSeq(p, 1, i)) \in Nat /\ PathCost(g, SubSeq(p, i, Len(p))) \in Nat
           /\ PathCost(g, p) = PathCost(g, SubSeq(p, 1, i)) + PathCost(g, SubSeq(p, i, Len(p)))
<1> DEFINE u == SubSeq(p, 1, i)
           q == SubSeq(p, i, Len(p))
<1>1. u \in Seq(DOMAIN g.zone) /\ Len(u) = i /\ \A j \in 1..i : u[j] = p[j]
  BY SubSeqIs
<1>2. q \in Seq(DOMAIN g.zone) /\ Len(q) = (Len(p) - i) + 1 /\ \A j \in 1..(Len(p) - i) + 1 : q[j] = p[(i - 1) + j]
  BY SuffixIs
<1> HIDE DEF u, q
<1>3. Glued(u, q, p)
  BY <1>1, <1>2 DEF Glued
<1>4. PathCost(g, p) = PathCost(g, u) + PathCost(g, q)
  BY <1>1, <1>2, <1>3, CostOfGlued
<1>5. PathCost(g, u) \in Nat /\ PathCost(g, q) \in Nat
  BY <1>1, <1>2, PathCostIs
<1> QED
  BY <1>4, <1>5 DEF u, q

-----------------------------------------------------------------------------
(* The path finder: a search.                                              *)

Entries(g) == [f : Int, g : Nat, path : Seq(DOMAIN g.zone)]

(* An entry of the heap holds a loopless walk and what that costs. *)
EntryOk(g, source, e) ==
  /\ Walk(g, e.path) /\ e.path[1] = source /\ IsInjective(e.path)
  /\ e.f = e.g + Distance(g, Last(e.path))
  /\ e.g = PathCost(g, e.path) /\ e.g <= 2 * (Len(e.path) - 1)

(* The search keeps off a set of connections and one of zones. *)
Allowed(g, links, zones, x, y) == Move(g, x, y) /\ y \notin zones /\ {y, x} \notin links
Keeps(g, links, zones, p) == \A i \in 1..Len(p) - 1 : Allowed(g, links, zones, p[i], p[i + 1])

(* What is pushed makes z known, at this cost or less. *)
Within(pushed, z, cost) == \E d \in pushed : Last(d.path) = z /\ d.g <= cost

(* No two entries are for the same zone at the same cost, each zone of a path has
   an entry that costs no more, and what has left the heap was not of the end
   and made every neighbour known at the cost of going on there, unless there
   is a cheaper one. *)
SearchOk(g, source, links, zones, s) ==
  /\ s.heap \subseteq s.pushed /\ Within(s.pushed, source, 0)
  /\ \A e \in s.pushed : EntryOk(g, source, e) /\ Keeps(g, links, zones, e.path)
  /\ \A d, e \in s.pushed : Last(d.path) = Last(e.path) /\ d.g = e.g => d = e
  /\ \A e \in s.pushed : \A i \in 1..Len(e.path) : Within(s.pushed, e.path[i], e.g)
  /\ \A d \in s.pushed \ s.heap :
       /\ Last(d.path) # g.end
       /\ \/ Stale(d, s.pushed)
          \/ \A y \in DOMAIN g.zone : Allowed(g, links, zones, Last(d.path), y) =>
               Within(s.pushed, y, d.g + Cost(g, y))

States(g, source, links, zones) ==
  {s \in [heap : SUBSET Entries(g), pushed : SUBSET Entries(g)] : SearchOk(g, source, links, zones, s)}

Over(g, s) == s.heap = {} \/ Last(First(s.heap).path) = g.end

LEMMA RankIs ==
    ASSUME NEW x \in Zones, NEW y \in Zones
    PROVE  Rank(x) \in Nat /\ (Rank(x) = Rank(y) => x = y)
<1>1. (\E i \in DOMAIN Names : Names[i] = x) /\ (\E i \in DOMAIN Names : Names[i] = y)
  BY DEF Zones
<1>2. Rank(x) \in DOMAIN Names /\ Names[Rank(x)] = x /\ Names[Rank(y)] = y
  BY <1>1 DEF Rank
<1> QED
  BY <1>2, NamesFacts

LEMMA WalkOn ==
    ASSUME NEW g, NEW p, Walk(g, p), NEW z \in DOMAIN g.zone, Move(g, Last(p), z)
    PROVE  LET q == Append(p, z)
           IN  /\ Walk(g, q) /\ Len(q) = Len(p) + 1 /\ Last(q) = z /\ q[1] = p[1]
               /\ \A j \in 1..Len(p) : q[j] = p[j]
               /\ IsInjective(p) /\ (\A j \in 1..Len(p) : p[j] # z) => IsInjective(q)
<1> DEFINE q == Append(p, z)
<1>1. /\ p \in Seq(DOMAIN g.zone) /\ Len(p) \in Nat /\ Len(p) >= 1
      /\ \A i \in 1..Len(p) - 1 : Move(g, p[i], p[i + 1])
  BY DEF Walk
<1>2. /\ q \in Seq(DOMAIN g.zone) /\ Len(q) = Len(p) + 1 /\ q[Len(p) + 1] = z
      /\ \A j \in 1..Len(p) : q[j] = p[j]
  BY <1>1
<1> HIDE DEF q
<1>3. q # <<>> /\ q[1] = p[1] /\ Last(q) = z
  BY <1>1, <1>2 DEF Last
<1>4. ASSUME NEW j \in 1..Len(q) - 1 PROVE Move(g, q[j], q[j + 1])
  <2>1. CASE j = Len(p)
    BY <1>1, <1>2, <2>1 DEF Last
  <2>2. CASE j # Len(p)
    <3>1. j \in 1..Len(p) - 1 /\ j \in 1..Len(p) /\ j + 1 \in 1..Len(p)
      BY <1>1, <1>2, <2>2
    <3> QED
      BY <1>1, <1>2, <3>1
  <2> QED
    BY <2>1, <2>2
<1>5. ASSUME IsInjective(p), \A j \in 1..Len(p) : p[j] # z PROVE IsInjective(q)
  <2> SUFFICES ASSUME NEW i \in DOMAIN q, NEW j \in DOMAIN q, q[i] = q[j] PROVE i = j
    BY DEF IsInjective
  <2>1. DOMAIN q = 1..Len(p) + 1 /\ DOMAIN p = 1..Len(p)
    BY <1>1, <1>2
  <2> QED
    BY <1>1, <1>2, <1>5, <2>1 DEF IsInjective
<1>6. Walk(g, q)
  BY <1>2, <1>3, <1>4 DEF Walk
<1> QED
  BY <1>2, <1>3, <1>5, <1>6 DEF q

(* heappop has a least entry to pop: no two are equal in all they are ordered by. *)
LEMMA FirstIs ==
    ASSUME NEW g, IsMap(g), Complete(g), NEW source, NEW links, NEW zones,
           NEW s \in States(g, source, links, zones), s.heap # {}
    PROVE  First(s.heap) \in s.heap /\ \A e \in s.heap : First(s.heap) = e \/ Before(First(s.heap), e)
<1> DEFINE H == s.heap
<1>1. \A d \in H : /\ d.f \in Nat /\ d.g \in Nat /\ Last(d.path) \in Zones
                   /\ \A e \in H : Last(d.path) = Last(e.path) /\ d.g = e.g => d = e
  <2> TAKE d \in H
  <2>1. SearchOk(g, source, links, zones, s) /\ s \in [heap : SUBSET Entries(g), pushed : SUBSET Entries(g)]
    BY DEF States
  <2>2. d \in s.pushed /\ d \in Entries(g) /\ EntryOk(g, source, d)
    BY <2>1 DEF SearchOk
  <2>3. d.g \in Nat /\ d.path \in Seq(DOMAIN g.zone) /\ d.path # <<>>
    BY <2>2 DEF Entries, EntryOk, Walk
  <2>4. Last(d.path) \in DOMAIN g.zone
    BY <2>3 DEF Last
  <2>5. d.f \in Nat
    BY <2>2, <2>3, <2>4, CostIs DEF EntryOk
  <2>6. Last(d.path) \in Zones
    BY <2>4 DEF IsMap
  <2>7. \A e \in H : Last(d.path) = Last(e.path) /\ d.g = e.g => d = e
    BY <2>1, <2>2 DEF SearchOk
  <2> QED
    BY <2>3, <2>5, <2>6, <2>7
<1> HIDE DEF H
<1> DEFINE F == {d.f : d \in H}
<1>2. PICK f \in F : \A m \in F : f <= m
  <2>1. F \in SUBSET Nat /\ F # {}
    BY <1>1 DEF H
  <2> HIDE DEF F
  <2> QED
    BY <2>1, NatMin
<1> DEFINE G == {d.g : d \in {e \in H : e.f = f}}
<1>3. PICK c \in G : \A m \in G : c <= m
  <2>1. G \in SUBSET Nat /\ G # {}
    BY <1>1, <1>2
  <2> HIDE DEF G
  <2> QED
    BY <2>1, NatMin
<1> DEFINE R == {Rank(Last(d.path)) : d \in {e \in H : e.f = f /\ e.g = c}}
<1>4. PICK r \in R : \A m \in R : r <= m
  <2>1. R \in SUBSET Nat /\ R # {}
    BY <1>1, <1>3, RankIs
  <2> HIDE DEF R
  <2> QED
    BY <2>1, NatMin
<1>5. PICK d \in H : d.f = f /\ d.g = c /\ Rank(Last(d.path)) = r
  BY <1>4
<1>6. ASSUME NEW e \in H, d # e PROVE Before(d, e)
  <2>1. d.f <= e.f /\ d.f \in Nat /\ e.f \in Nat
    BY <1>1, <1>2, <1>5
  <2>2. CASE d.f < e.f
    BY <2>2 DEF Before
  <2>3. CASE d.f = e.f
    <3>1. d.g <= e.g /\ d.g \in Nat /\ e.g \in Nat
      BY <1>1, <1>3, <1>5, <2>3
    <3>2. CASE d.g < e.g
      BY <2>3, <3>2 DEF Before
    <3>3. CASE d.g = e.g
      <4>1. Rank(Last(d.path)) <= Rank(Last(e.path))
        BY <1>4, <1>5, <2>3, <3>3
      <4>2. /\ Rank(Last(d.path)) # Rank(Last(e.path))
            /\ Rank(Last(d.path)) \in Nat /\ Rank(Last(e.path)) \in Nat
        BY <1>1, <1>6, <3>3, RankIs
      <4> QED
        BY <2>3, <3>3, <4>1, <4>2 DEF Before
    <3> QED
      BY <3>1, <3>2, <3>3
  <2> QED
    BY <2>1, <2>2, <2>3
<1>7. \E x \in H : \A e \in H : x = e \/ Before(x, e)
  BY <1>6
<1>8. First(H) \in H /\ \A e \in H : First(H) = e \/ Before(First(H), e)
  BY <1>7 DEF First
<1> QED
  BY <1>8 DEF H

(* What the entry top is the reason to push: for each neighbour that may be
   entered one entry, unless it has one that costs no more. *)
LEMMA CheaperIs ==
    ASSUME NEW g, NEW top, NEW pushed, NEW links, NEW zones
    PROVE  \A e : e \in Cheaper(g, top, pushed, links, zones) <=>
             \E z \in DOMAIN g.zone :
               /\ Allowed(g, links, zones, Last(top.path), z)
               /\ e = Entry(g, top.g + Cost(g, z), Append(top.path, z))
               /\ \A d \in pushed : Last(d.path) = Last(e.path) => e.g < d.g
  BY DEF Cheaper, Allowed, Move, Neighbours

(* e is the entry for z, one hop on from the entry top. *)
OneHopOn(g, source, links, zones, top, z, e) ==
  /\ e \in Entries(g) /\ Last(e.path) = z /\ e.g = top.g + Cost(g, z) /\ e.g > top.g
  /\ (\A i \in 1..Len(top.path) : top.path[i] # z) => EntryOk(g, source, e)
  /\ Keeps(g, links, zones, e.path)
  /\ Len(e.path) = Len(top.path) + 1
  /\ \A i \in 1..Len(top.path) : e.path[i] = top.path[i]

LEMMA EntryMade ==
    ASSUME NEW g, NEW a \in Int, NEW b \in Nat, NEW p \in Seq(DOMAIN g.zone)
    PROVE  [f |-> a, g |-> b, path |-> p] \in Entries(g)
  BY DEF Entries

(* What is pushed for a neighbour z. *)
LEMMA PushedIs ==
    ASSUME NEW g, IsMap(g), Complete(g), NEW source, NEW links, NEW zones,
           NEW top \in Entries(g), EntryOk(g, source, top), Keeps(g, links, zones, top.path),
           NEW z \in DOMAIN g.zone, Allowed(g, links, zones, Last(top.path), z),
           NEW e, e = Entry(g, top.g + Cost(g, z), Append(top.path, z))
    PROVE  OneHopOn(g, source, links, zones, top, z, e)
<1> DEFINE q == Append(top.path, z)
<1>1. /\ Walk(g, top.path) /\ top.path[1] = source /\ IsInjective(top.path)
      /\ top.g = PathCost(g, top.path) /\ top.path \in Seq(DOMAIN g.zone) /\ top.path # <<>>
      /\ top.g <= 2 * (Len(top.path) - 1) /\ top.g \in Nat /\ Len(top.path) \in Nat
  BY DEF EntryOk, Entries, Walk
<1>2. /\ Walk(g, q) /\ Len(q) = Len(top.path) + 1 /\ Last(q) = z /\ q[1] = source
      /\ \A j \in 1..Len(top.path) : q[j] = top.path[j]
      /\ (\A j \in 1..Len(top.path) : top.path[j] # z) => IsInjective(q)
  <2>1. Move(g, Last(top.path), z)
    BY DEF Allowed
  <2> QED
    BY <1>1, <2>1, WalkOn
<1>3. PathCost(g, q) = top.g + Cost(g, z)
  BY <1>1, CostOfAppend
<1> HIDE DEF q
<1>4. Cost(g, z) \in {1, 2} /\ Distance(g, z) \in Nat
  BY CostIs
<1>5. e = [f |-> (top.g + Cost(g, z)) + Distance(g, z), g |-> top.g + Cost(g, z), path |-> q]
  BY <1>2 DEF Entry, q
<1>6. e.f = e.g + Distance(g, z) /\ e.g = top.g + Cost(g, z) /\ e.path = q /\ e.g \in Nat /\ e.f \in Int
  BY <1>1, <1>4, <1>5
<1>7. e \in Entries(g)
  <2>1. e = [f |-> e.f, g |-> e.g, path |-> e.path]
    BY <1>5
  <2>2. e.path \in Seq(DOMAIN g.zone) /\ e.path # <<>>
    BY <1>2, <1>6 DEF Walk
  <2> DEFINE a == e.f
             b == e.g
             p == e.path
  <2>3. a \in Int /\ b \in Nat /\ p \in Seq(DOMAIN g.zone) /\ e = [f |-> a, g |-> b, path |-> p]
    BY <1>6, <2>1, <2>2
  <2> HIDE DEF a, b, p
  <2> QED
    BY <2>3, EntryMade
<1>8. e.g <= 2 * (Len(e.path) - 1) /\ e.g > top.g /\ e.g = PathCost(g, e.path)
  <2> DEFINE n == Len(top.path)
             c == Cost(g, z)
             b == top.g
  <2>1. n \in Nat /\ b \in Nat /\ b <= 2 * (n - 1) /\ c \in {1, 2}
    BY <1>1, <1>4
  <2>2. e.g = b + c /\ Len(e.path) = n + 1 /\ e.g = PathCost(g, e.path)
    BY <1>2, <1>3, <1>6
  <2> HIDE DEF n, c, b
  <2>3. b + c <= 2 * ((n + 1) - 1) /\ b + c > b
    BY <2>1
  <2>4. e.g <= 2 * (Len(e.path) - 1)
    BY <2>2, <2>3
  <2> QED
    BY <2>2, <2>3, <2>4 DEF b
<1>9. Keeps(g, links, zones, q)
  <2> SUFFICES ASSUME NEW i \in 1..Len(q) - 1 PROVE Allowed(g, links, zones, q[i], q[i + 1])
    BY DEF Keeps
  <2>1. CASE i = Len(top.path)
    <3>1. q[i] = Last(top.path) /\ q[i + 1] = z
      BY <1>1, <1>2, <2>1 DEF Last
    <3> QED
      BY <3>1
  <2>2. CASE i # Len(top.path)
    <3>1. i \in 1..Len(top.path) - 1 /\ i \in 1..Len(top.path) /\ i + 1 \in 1..Len(top.path)
      BY <1>1, <1>2, <2>2
    <3> QED
      BY <1>2, <3>1 DEF Keeps
  <2> QED
    BY <2>1, <2>2
<1> QED
  BY <1>2, <1>6, <1>7, <1>8, <1>9 DEF EntryOk, OneHopOn

(* A round of the search. *)
LEMMA RoundIs ==
    ASSUME NEW g, IsMap(g), Complete(g), NEW source, NEW links, NEW zones,
           NEW s \in States(g, source, links, zones), ~Over(g, s)
    PROVE  /\ Round(g, s, links, zones) \in States(g, source, links, zones)
           /\ First(s.heap) \in s.heap
           /\ Round(g, s, links, zones).pushed \ Round(g, s, links, zones).heap
                = (s.pushed \ s.heap) \cup {First(s.heap)}
<1> DEFINE top == First(s.heap)
           P == s.pushed
           new == IF Stale(top, P) THEN {} ELSE Cheaper(g, top, P, links, zones)
           P2 == P \cup new
           H2 == (s.heap \ {top}) \cup new
           t == [heap |-> H2, pushed |-> P2]
<1>1. Round(g, s, links, zones) = t
  BY DEF Round
<1>2. SearchOk(g, source, links, zones, s) /\ s \in [heap : SUBSET Entries(g), pushed : SUBSET Entries(g)]
  BY DEF States
<1>3. top \in s.heap /\ Last(top.path) # g.end
  BY FirstIs DEF Over
<1>4. /\ top \in P /\ top \in Entries(g) /\ EntryOk(g, source, top) /\ Keeps(g, links, zones, top.path)
      /\ s.heap \subseteq P
  BY <1>2, <1>3 DEF SearchOk
<1> HIDE DEF top
<1>pushed. ASSUME NEW z \in DOMAIN g.zone, Allowed(g, links, zones, Last(top.path), z),
                  NEW e, e = Entry(g, top.g + Cost(g, z), Append(top.path, z))
           PROVE  OneHopOn(g, source, links, zones, top, z, e)
  <2>1. top \in Entries(g) /\ EntryOk(g, source, top) /\ Keeps(g, links, zones, top.path)
    BY <1>4
  <2> HIDE DEF P, new, P2, H2, t
  <2> QED
    BY <1>pushed, <2>1, PushedIs
<1>5. ASSUME NEW e \in new
      PROVE  \E z \in DOMAIN g.zone :
               /\ Allowed(g, links, zones, Last(top.path), z)
               /\ e = Entry(g, top.g + Cost(g, z), Append(top.path, z))
               /\ \A d \in P : Last(d.path) = Last(e.path) => e.g < d.g
  <2>1. e \in Cheaper(g, top, P, links, zones)
    BY <1>5
  <2> HIDE DEF P, new
  <2> QED
    BY <2>1, CheaperIs
<1>6. \A d \in P : d \in Entries(g) /\ d.g \in Nat
  BY <1>2 DEF Entries
<1>7. ASSUME NEW e \in new
      PROVE  /\ e \in Entries(g) /\ EntryOk(g, source, e) /\ Keeps(g, links, zones, e.path) /\ e.g > top.g
             /\ Len(e.path) = Len(top.path) + 1 /\ Last(e.path) = e.path[Len(e.path)]
             /\ \A i \in 1..Len(top.path) : e.path[i] = top.path[i]
             /\ \A d \in P : Last(d.path) = Last(e.path) => e.g < d.g
  <2>1. PICK z \in DOMAIN g.zone :
               /\ Allowed(g, links, zones, Last(top.path), z)
               /\ e = Entry(g, top.g + Cost(g, z), Append(top.path, z))
               /\ \A d \in P : Last(d.path) = Last(e.path) => e.g < d.g
    BY <1>5
  <2>3. /\ e \in Entries(g) /\ Last(e.path) = z /\ e.g > top.g /\ Keeps(g, links, zones, e.path)
        /\ (\A i \in 1..Len(top.path) : top.path[i] # z) => EntryOk(g, source, e)
        /\ Len(e.path) = Len(top.path) + 1
        /\ \A i \in 1..Len(top.path) : e.path[i] = top.path[i]
    BY <1>pushed, <2>1 DEF OneHopOn
  <2>4. ASSUME NEW i \in 1..Len(top.path), top.path[i] = z PROVE FALSE
    <3>1. PICK d \in P : Last(d.path) = z /\ d.g <= top.g
      BY <1>2, <1>4, <2>4 DEF SearchOk, Within
    <3>2. e.g < d.g /\ d.g \in Nat /\ top.g \in Nat /\ e.g \in Nat
      BY <1>4, <1>6, <2>1, <2>3, <3>1 DEF Entries
    <3> QED
      BY <2>3, <3>1, <3>2
  <2> QED
    BY <2>1, <2>3, <2>4 DEF Last
<1>8. ASSUME NEW d \in new, NEW e \in new, Last(d.path) = Last(e.path) PROVE d = e
  <2>1. PICK y \in DOMAIN g.zone : /\ Allowed(g, links, zones, Last(top.path), y)
                                   /\ d = Entry(g, top.g + Cost(g, y), Append(top.path, y))
    BY <1>5
  <2>2. PICK z \in DOMAIN g.zone : /\ Allowed(g, links, zones, Last(top.path), z)
                                   /\ e = Entry(g, top.g + Cost(g, z), Append(top.path, z))
    BY <1>5
  <2>3. Last(d.path) = y
    BY <1>pushed, <2>1 DEF OneHopOn
  <2>4. Last(e.path) = z
    BY <1>pushed, <2>2 DEF OneHopOn
  <2> QED
    BY <1>8, <2>1, <2>2, <2>3, <2>4
<1>9. \A e \in new : e \notin P
  BY <1>6, <1>7
<1>10. ~Stale(top, P) => \A y \in DOMAIN g.zone : Allowed(g, links, zones, Last(top.path), y) =>
                          Within(P2, y, top.g + Cost(g, y))
  <2> SUFFICES ASSUME ~Stale(top, P), NEW y \in DOMAIN g.zone, Allowed(g, links, zones, Last(top.path), y),
                      \A d \in P : Last(d.path) = y => ~(d.g <= top.g + Cost(g, y))
               PROVE  \E e \in new : Last(e.path) = y /\ e.g <= top.g + Cost(g, y)
    BY DEF Within
  <2> DEFINE e == Entry(g, top.g + Cost(g, y), Append(top.path, y))
  <2>1. Last(e.path) = y /\ e.g = top.g + Cost(g, y) /\ e \in Entries(g)
    BY <1>pushed DEF OneHopOn
  <2> HIDE DEF e
  <2>2. e.g \in Nat /\ e.g <= e.g
    BY <2>1 DEF Entries
  <2>3. \A d \in P : Last(d.path) = Last(e.path) => e.g < d.g
    BY <1>6, <2>1, <2>2
  <2>4. e \in Cheaper(g, top, P, links, zones)
    <3> HIDE DEF P, new
    <3> QED
      BY <2>3, CheaperIs DEF e
  <2> QED
    BY <2>1, <2>2, <2>4
<1> HIDE DEF new
<1>11. t \in [heap : SUBSET Entries(g), pushed : SUBSET Entries(g)]
  BY <1>2, <1>7
<1>12. SearchOk(g, source, links, zones, t)
  <2>1. H2 \subseteq P2 /\ Within(P2, source, 0)
    BY <1>2 DEF SearchOk, Within
  <2>2. \A e \in P2 : EntryOk(g, source, e) /\ Keeps(g, links, zones, e.path)
    BY <1>2, <1>7 DEF SearchOk
  <2>3. ASSUME NEW d \in P2, NEW e \in P2, Last(d.path) = Last(e.path), d.g = e.g PROVE d = e
    <3>1. CASE d \in P /\ e \in P
      BY <1>2, <2>3, <3>1 DEF SearchOk
    <3>2. CASE d \in new /\ e \in new
      BY <1>8, <2>3, <3>2
    <3>3. CASE d \in P /\ e \in new
      BY <1>6, <1>7, <2>3, <3>3
    <3>4. CASE d \in new /\ e \in P
      BY <1>6, <1>7, <2>3, <3>4
    <3> QED
      BY <3>1, <3>2, <3>3, <3>4
  <2>4. ASSUME NEW e \in P2, NEW i \in 1..Len(e.path)
        PROVE  Within(P2, e.path[i], e.g)
    <3>1. CASE e \in P
      BY <1>2, <3>1 DEF SearchOk, Within
    <3>2. CASE e \in new
      <4>1. e.g \in Nat /\ top.g \in Nat /\ Len(top.path) \in Nat /\ e.g > top.g /\ Len(e.path) = Len(top.path) + 1
        BY <1>4, <1>7, <3>2 DEF Entries
      <4>2. CASE i = Len(e.path)
        BY <1>7, <3>2, <4>1, <4>2 DEF Within
      <4>3. CASE i # Len(e.path)
        <5>1. i \in 1..Len(top.path)
          BY <4>1, <4>3
        <5>2. PICK d \in P : Last(d.path) = top.path[i] /\ d.g <= top.g
          BY <1>2, <1>4, <5>1 DEF SearchOk, Within
        <5>3. d.g \in Nat /\ e.path[i] = top.path[i]
          BY <1>6, <1>7, <3>2, <5>1
        <5> QED
          BY <4>1, <5>2, <5>3 DEF Within
      <4> QED
        BY <4>2, <4>3
    <3> QED
      BY <3>1, <3>2
  <2>5. ASSUME NEW d \in P2 \ H2
        PROVE  /\ Last(d.path) # g.end
               /\ \/ Stale(d, P2)
                  \/ \A y \in DOMAIN g.zone : Allowed(g, links, zones, Last(d.path), y) =>
                       Within(P2, y, d.g + Cost(g, y))
    <3>1. d = top \/ d \in P \ s.heap
      OBVIOUS
    <3>2. CASE d = top
      BY <1>3, <1>10, <3>2 DEF Stale
    <3>3. CASE d \in P \ s.heap
      BY <1>2, <3>3 DEF SearchOk, Stale, Within
    <3> QED
      BY <3>1, <3>2, <3>3
  <2>6. t.heap = H2 /\ t.pushed = P2
    OBVIOUS
  <2> HIDE DEF t, H2, P2
  <2> QED
    BY <2>1, <2>2, <2>3, <2>4, <2>5, <2>6 DEF SearchOk
<1>13. P2 \ H2 = (P \ s.heap) \cup {top}
  BY <1>3, <1>4, <1>9
<1> QED
  BY <1>1, <1>3, <1>11, <1>12, <1>13 DEF States, top

(* There are no more entries than rounds: a zone has one at most for each cost. *)
LEMMA PushedFew ==
    ASSUME NEW g, IsMap(g), Complete(g), NEW source, NEW links, NEW zones,
           NEW s \in States(g, source, links, zones)
    PROVE  IsFiniteSet(s.pushed) /\ Cardinality(s.pushed) <= MaxRounds /\ MaxRounds \in Nat
<1> DEFINE N == Len(Names)
           costs == 0..(2 * N - 1)
           place == [e \in s.pushed |-> <<Last(e.path), e.g>>]
<1>1. N \in Nat /\ IsFiniteSet(Zones) /\ Cardinality(Zones) \in Nat /\ Cardinality(Zones) <= N
  BY NamesFacts
<1>2. SearchOk(g, source, links, zones, s) /\ s.pushed \subseteq Entries(g)
  BY DEF States
<1>3. \A e \in s.pushed : Last(e.path) \in Zones /\ e.g \in costs
  <2> TAKE e \in s.pushed
  <2>1. e \in Entries(g) /\ EntryOk(g, source, e)
    BY <1>2 DEF SearchOk
  <2>2. e.path \in Seq(DOMAIN g.zone) /\ e.path # <<>> /\ IsInjective(e.path)
        /\ e.g \in Nat /\ e.g <= 2 * (Len(e.path) - 1)
    BY <2>1 DEF Entries, EntryOk, Walk
  <2>3. e.path \in Seq(Zones) /\ Last(e.path) \in Zones
    BY <2>2 DEF IsMap, Last
  <2>4. Len(e.path) <= N /\ Len(e.path) \in Nat
    BY <2>2, <2>3, LooplessIsShort
  <2> QED
    BY <1>1, <2>2, <2>3, <2>4
<1>4. place \in Injection(s.pushed, Zones \X costs)
  <2>1. place \in [s.pushed -> Zones \X costs]
    BY <1>3
  <2>2. \A d, e \in s.pushed : place[d] = place[e] => d = e
    BY <1>2 DEF SearchOk
  <2> QED
    BY <2>1, <2>2 DEF Injection, IsInjective
<1>5. IsFiniteSet(costs) /\ Cardinality(costs) = 2 * N
  <2>1. 0 \in Int /\ 2 * N - 1 \in Int /\ (IF 0 > 2 * N - 1 THEN 0 ELSE (2 * N - 1) - 0 + 1) = 2 * N
    BY <1>1
  <2>2. IsFiniteSet(costs) /\ Cardinality(costs) = IF 0 > 2 * N - 1 THEN 0 ELSE (2 * N - 1) - 0 + 1
    BY <2>1, FS_Interval
  <2> QED
    BY <2>1, <2>2
<1> HIDE DEF place, costs
<1>6. IsFiniteSet(Zones \X costs) /\ Cardinality(Zones \X costs) = Cardinality(Zones) * (2 * N)
  BY <1>1, <1>5, FS_Product
<1>7. IsFiniteSet(s.pushed) /\ Cardinality(s.pushed) <= Cardinality(Zones \X costs)
  BY <1>4, <1>6, FS_Injection
<1>8. Cardinality(s.pushed) \in Nat
  BY <1>7, FS_CardinalityType
<1>9. \A m, n \in Nat : m <= n => m * (2 * n) <= 2 * n * n /\ 2 * n * n \in Nat
  OBVIOUS
<1>10. Cardinality(Zones) * (2 * N) <= 2 * N * N /\ 2 * N * N \in Nat
  BY <1>1, <1>9
<1>11. Cardinality(Zones) * (2 * N) \in Nat
  BY <1>1
<1> QED
  BY <1>6, <1>7, <1>8, <1>10, <1>11 DEF MaxRounds

Rounds(g, source, links, zones) ==
  [k \in 1..MaxRounds |-> [s \in States(g, source, links, zones) |->
     IF Over(g, s) THEN s ELSE Round(g, s, links, zones)]]

Start(g, source) == [heap |-> {Entry(g, 0, <<source>>)}, pushed |-> {Entry(g, 0, <<source>>)}]

LEMMA StartIs ==
    ASSUME NEW g, IsMap(g), Complete(g), NEW source \in DOMAIN g.zone, NEW links, NEW zones
    PROVE  Start(g, source) \in States(g, source, links, zones)
<1> DEFINE p == <<source>>
           e == Entry(g, 0, p)
           s == Start(g, source)
<1>1. p \in Seq(DOMAIN g.zone) /\ Len(p) = 1 /\ p[1] = source /\ p # <<>>
  BY OneAlone
<1> HIDE DEF p
<1>2. Walk(g, p) /\ IsInjective(p) /\ Last(p) = source
  BY <1>1 DEF Walk, IsInjective, Last
<1>3. e = [f |-> 0 + Distance(g, source), g |-> 0, path |-> p]
  BY <1>2 DEF Entry
<1>4. Distance(g, source) \in Nat
  BY CostIs
<1>5. e \in Entries(g) /\ e.g = 0 /\ e.path = p /\ e.f = 0 + Distance(g, source)
  BY <1>1, <1>3, <1>4 DEF Entries
<1>6. EntryOk(g, source, e) /\ Keeps(g, links, zones, e.path)
  <2>1. PathCost(g, p) = 0
    BY <1>1, CostOfOne
  <2>2. EntryOk(g, source, e)
    BY <1>1, <1>2, <1>4, <1>5, <2>1 DEF EntryOk
  <2>3. 1..Len(p) - 1 = {}
    BY <1>1
  <2> QED
    BY <1>5, <2>2, <2>3 DEF Keeps
<1> HIDE DEF e
<1>7. s.heap = {e} /\ s.pushed = {e} /\ s = [heap |-> {e}, pushed |-> {e}]
  BY DEF Start, e, p
<1> HIDE DEF s
<1>8. SearchOk(g, source, links, zones, s)
  <2>1. Within({e}, source, 0)
    BY <1>2, <1>5 DEF Within
  <2>2. \A i \in 1..Len(e.path) : Within({e}, e.path[i], e.g)
    <3> TAKE i \in 1..Len(e.path)
    <3>1. Len(e.path) = 1
      BY <1>1, <1>5, Zenon
    <3>2. i = 1
      BY <3>1
    <3> QED
      BY <1>1, <1>2, <1>5, <3>2 DEF Within
  <2> QED
    BY <1>6, <1>7, <2>1, <2>2 DEF SearchOk
<1>9. s \in [heap : SUBSET Entries(g), pushed : SUBSET Entries(g)]
  BY <1>5, <1>7
<1> QED
  BY <1>8, <1>9 DEF States, s

LEMMA SearchIs ==
    ASSUME NEW g, IsMap(g), Complete(g), NEW source \in DOMAIN g.zone, NEW links, NEW zones
    PROVE  \E S : /\ Iterates(S, MaxRounds, Start(g, source), Rounds(g, source, links, zones),
                              States(g, source, links, zones))
                  /\ Search(g, source, links, zones) = S[MaxRounds]
<1> DEFINE M == MaxRounds
           a == Start(g, source)
           K == States(g, source, links, zones)
           h == Rounds(g, source, links, zones)
           S == CHOOSE S : S = [n \in 0..M |->
                  IF n = 0 THEN [heap |-> {Entry(g, 0, <<source>>)}, pushed |-> {Entry(g, 0, <<source>>)}]
                  ELSE LET s == S[n - 1]
                       IN  IF s.heap = {} \/ Last(First(s.heap).path) = g.end THEN s
                           ELSE Round(g, s, links, zones)]
<1>1. Search(g, source, links, zones) = S[M]
  BY DEF Search
<1>2. a \in K
  BY StartIs
<1>3. M \in Nat
  BY <1>2, PushedFew
<1>4. \A s \in K : (IF Over(g, s) THEN s ELSE Round(g, s, links, zones)) \in K
  BY RoundIs
<1>5. h \in [1..M -> [K -> K]] /\ \A k \in 1..M : \A s \in K :
        h[k][s] = IF Over(g, s) THEN s ELSE Round(g, s, links, zones)
  BY <1>4 DEF Rounds
<1> HIDE DEF h, K, a, M
<1>6. PICK f : Iterates(f, M, a, h, K)
  BY <1>2, <1>3, <1>5, IteratesExists
<1>7. f = [n \in 0..M |-> IF n = 0 THEN a ELSE IF Over(g, f[n - 1]) THEN f[n - 1]
                                               ELSE Round(g, f[n - 1], links, zones)]
  <2>1. \A k \in 0..M : k # 0 => k \in 1..M /\ k - 1 \in 0..M
    BY <1>3
  <2> QED
    BY <1>5, <1>6, <2>1 DEF Iterates
<1>8. f = [n \in 0..M |->
             IF n = 0 THEN [heap |-> {Entry(g, 0, <<source>>)}, pushed |-> {Entry(g, 0, <<source>>)}]
             ELSE LET s == f[n - 1]
                  IN  IF s.heap = {} \/ Last(First(s.heap).path) = g.end THEN s
                      ELSE Round(g, s, links, zones)]
  BY <1>7, Zenon DEF Over, a, Start
<1>9. S = [n \in 0..M |-> IF n = 0 THEN a ELSE IF Over(g, S[n - 1]) THEN S[n - 1]
                                               ELSE Round(g, S[n - 1], links, zones)]
  BY <1>8, Zenon DEF Over, a, Start
<1> HIDE DEF S
<1>10. /\ S = [n \in 0..M |-> S[n]] /\ S[0] = a
       /\ \A k \in 1..M : S[k] = IF Over(g, S[k - 1]) THEN S[k - 1] ELSE Round(g, S[k - 1], links, zones)
  <2> DEFINE u(n) == IF n = 0 THEN a ELSE IF Over(g, S[n - 1]) THEN S[n - 1]
                                          ELSE Round(g, S[n - 1], links, zones)
  <2>1. S = [n \in 0..M |-> u(n)]
    BY <1>9
  <2> HIDE DEF u
  <2>2. S = [n \in 0..M |-> S[n]] /\ \A n \in 0..M : S[n] = u(n)
    BY <2>1
  <2>3. 0 \in 0..M /\ \A k \in 1..M : k \in 0..M /\ k # 0
    BY <1>3
  <2> QED
    BY <2>2, <2>3, Zenon DEF u
<1>11. Iterates(S, M, a, h, K)
  <2>1. \A k \in 1..M : S[k - 1] \in K => S[k] = h[k][S[k - 1]]
    BY <1>5, <1>10
  <2> QED
    BY <2>1, <1>2, <1>3, <1>5, <1>10, IteratesIs
<1> QED
  BY <1>1, <1>11 DEF M, a, h, K

(* After so many rounds the loop has ended: each of them took an entry out of the
   heap for good. *)
LEMMA SearchEnds ==
    ASSUME NEW g, IsMap(g), Complete(g), NEW source \in DOMAIN g.zone, NEW links, NEW zones
    PROVE  LET s == Search(g, source, links, zones)
           IN  s \in States(g, source, links, zones) /\ Over(g, s)
<1> DEFINE M == MaxRounds
           K == States(g, source, links, zones)
           h == Rounds(g, source, links, zones)
           a == Start(g, source)
<1>1. PICK S : Iterates(S, M, a, h, K) /\ Search(g, source, links, zones) = S[M]
  BY SearchIs
<1>2. M \in Nat
  BY StartIs, PushedFew
<1>3. /\ S[0] = a /\ \A k \in 0..M : S[k] \in K
      /\ \A k \in 1..M : S[k] = IF Over(g, S[k - 1]) THEN S[k - 1] ELSE Round(g, S[k - 1], links, zones)
  <2>1. \A k \in 1..M : k - 1 \in 0..M
    BY <1>2
  <2>2. S[0] = a /\ \A k \in 0..M : S[k] \in K
    BY <1>1 DEF Iterates
  <2>3. \A k \in 1..M : S[k] = h[k][S[k - 1]]
    BY <1>1 DEF Iterates
  <2> QED
    BY <2>1, <2>2, <2>3 DEF Rounds
<1> HIDE DEF M, h
<1> DEFINE Gone(s) == s.pushed \ s.heap
           T == {k \in Nat : k <= M => Over(g, S[k]) \/ (IsFiniteSet(Gone(S[k])) /\ Cardinality(Gone(S[k])) = k)}
<1>4. 0 \in T
  <2>1. Gone(S[0]) = {}
    BY <1>3 DEF Start
  <2> HIDE DEF Gone
  <2> QED
    BY <2>1, FS_EmptySet
<1>5. ASSUME NEW k \in T PROVE k + 1 \in T
  <2> SUFFICES ASSUME k + 1 <= M, ~Over(g, S[k + 1])
               PROVE  IsFiniteSet(Gone(S[k + 1])) /\ Cardinality(Gone(S[k + 1])) = k + 1
    BY <1>5
  <2>1. k \in Nat /\ k <= M /\ k + 1 \in 1..M /\ (k + 1) - 1 = k /\ k \in 0..M
    BY <1>2
  <2>2. ~Over(g, S[k]) /\ S[k + 1] = Round(g, S[k], links, zones)
    BY <1>3, <2>1
  <2>3. S[k] \in K
    BY <1>3, <2>1
  <2>4. Gone(S[k + 1]) = Gone(S[k]) \cup {First(S[k].heap)} /\ First(S[k].heap) \notin Gone(S[k])
    BY <2>2, <2>3, RoundIs
  <2>5. IsFiniteSet(Gone(S[k])) /\ Cardinality(Gone(S[k])) = k
    BY <2>1, <2>2
  <2> HIDE DEF Gone
  <2> QED
    BY <2>4, <2>5, FS_AddElement
<1>6. T \in SUBSET Nat
  OBVIOUS
<1> HIDE DEF T
<1>7. M \in T
  BY <1>2, <1>4, <1>5, <1>6, NatSteps
<1>8. S[M] \in K
  BY <1>2, <1>3
<1>9. ASSUME ~Over(g, S[M]) PROVE FALSE
  <2>1. IsFiniteSet(Gone(S[M])) /\ Cardinality(Gone(S[M])) = M
    BY <1>2, <1>7, <1>9 DEF T
  <2>2. IsFiniteSet(S[M].pushed) /\ Cardinality(S[M].pushed) <= M
    BY <1>8, PushedFew DEF M
  <2>3. Cardinality(S[M].pushed) \in Nat
    BY <2>2, FS_CardinalityType
  <2>4. First(S[M].heap) \in S[M].heap
    BY <1>8, <1>9, RoundIs
  <2>5. S[M].heap \subseteq S[M].pushed
    BY <1>8 DEF States, SearchOk
  <2>6. Gone(S[M]) \in SUBSET S[M].pushed /\ Gone(S[M]) # S[M].pushed
    BY <2>4, <2>5
  <2> HIDE DEF Gone
  <2>7. /\ Cardinality(Gone(S[M])) <= Cardinality(S[M].pushed)
        /\ Cardinality(S[M].pushed) = Cardinality(Gone(S[M])) => S[M].pushed = Gone(S[M])
    BY <2>2, <2>6, FS_Subset
  <2> QED
    BY <1>2, <2>1, <2>2, <2>3, <2>6, <2>7
<1> QED
  BY <1>1, <1>8, <1>9

(* At any time of the search, a walk q to the end that keeps off what is to be
   avoided goes through a zone in the heap, which was reached at no more than
   what q costs up to there. *)
LEMMA Frontier ==
    ASSUME NEW g, IsMap(g), Complete(g), NEW source, NEW links, NEW zones,
           NEW s \in States(g, source, links, zones),
           NEW q, Walk(g, q), q[1] = source, Last(q) = g.end, Keeps(g, links, zones, q)
    PROVE  \E i \in 1..Len(q) : Within(s.heap, q[i], PathCost(g, SubSeq(q, 1, i)))
<1> DEFINE P == s.pushed
           C(i) == PathCost(g, SubSeq(q, 1, i))
<1>1. SearchOk(g, source, links, zones, s) /\ P \subseteq Entries(g)
  BY DEF States
<1>2. q \in Seq(DOMAIN g.zone) /\ Len(q) \in Nat /\ Len(q) >= 1
  BY DEF Walk
<1>3. \A d \in P : d.g \in Nat
  BY <1>1 DEF Entries
<1>4. C(1) = 0
  <2>1. SubSeq(q, 1, 1) \in Seq(DOMAIN g.zone) /\ Len(SubSeq(q, 1, 1)) = 1
    <3>1. 1 \in 1..Len(q)
      BY <1>2
    <3> QED
      BY <1>2, <3>1, SubSeqIs
  <2> QED
    BY <2>1, CostOfOne
<1>5. ASSUME NEW i \in 1..Len(q) - 1
      PROVE  C(i) \in Nat /\ Cost(g, q[i + 1]) \in Nat /\ C(i + 1) = C(i) + Cost(g, q[i + 1])
  <2> DEFINE u == SubSeq(q, 1, i)
             v == SubSeq(q, 1, i + 1)
             z == q[i + 1]
  <2>1. i \in 1..Len(q) /\ i + 1 \in 1..Len(q) /\ i \in Nat /\ i >= 1
    BY <1>2
  <2>2. u \in Seq(DOMAIN g.zone) /\ Len(u) = i /\ \A j \in 1..i : u[j] = q[j]
    BY <1>2, <2>1, SubSeqIs
  <2>3. v \in Seq(DOMAIN g.zone) /\ Len(v) = i + 1 /\ \A j \in 1..i + 1 : v[j] = q[j]
    BY <1>2, <2>1, SubSeqIs
  <2>4. z \in DOMAIN g.zone
    BY <1>2, <2>1
  <2> HIDE DEF u, v, z
  <2>5. v = Append(u, z) /\ u # <<>>
    BY <2>1, <2>2, <2>3 DEF z
  <2>6. PathCost(g, v) = PathCost(g, u) + Cost(g, z)
    BY <2>2, <2>4, <2>5, CostOfAppend
  <2>7. PathCost(g, u) \in Nat
    BY <2>2, PathCostIs
  <2>8. Cost(g, z) \in {1, 2}
    BY <2>4, CostIs
  <2> QED
    BY <2>6, <2>7, <2>8 DEF u, v, z
<1> HIDE DEF C
<1> SUFFICES ASSUME \A i \in 1..Len(q) : ~Within(s.heap, q[i], C(i)) PROVE FALSE
  BY DEF C
<1> DEFINE T == {k \in Nat : k + 1 <= Len(q) => Within(P, q[k + 1], C(k + 1))}
<1>6. 0 \in T
  BY <1>1, <1>4 DEF SearchOk
<1>7. ASSUME NEW k \in T PROVE k + 1 \in T
  <2> DEFINE i == k + 1
             x == q[i]
  <2> SUFFICES ASSUME i + 1 <= Len(q) PROVE Within(P, q[i + 1], C(i + 1))
    BY <1>7
  <2>1. i \in 1..Len(q) - 1 /\ i \in 1..Len(q) /\ i + 1 \in 1..Len(q)
    BY <1>2
  <2>2. Within(P, x, C(i))
    BY <1>2, <1>7, <2>1
  <2> HIDE DEF i
  <2> DEFINE G == {d.g : d \in {e \in P : Last(e.path) = x}}
  <2>3. G \in SUBSET Nat /\ G # {}
    BY <1>3, <2>2 DEF Within
  <2> HIDE DEF G
  <2>4. PICK m \in G : \A n \in G : m <= n
    BY <2>3, NatMin
  <2>5. PICK d \in P : Last(d.path) = x /\ d.g = m
    BY <2>4 DEF G
  <2>6. ~Stale(d, P)
    <3> SUFFICES ASSUME NEW e \in P, Last(e.path) = x, e.g < d.g PROVE FALSE
      BY <2>5 DEF Stale
    <3>1. e.g \in G
      BY DEF G
    <3>2. m <= e.g /\ m \in Nat /\ e.g \in Nat
      BY <2>3, <2>4, <3>1
    <3> QED
      BY <2>5, <3>2
  <2>7. d.g <= C(i) /\ d.g \in Nat
    <3>1. PICK e \in P : Last(e.path) = x /\ e.g <= C(i)
      BY <2>2 DEF Within
    <3>2. e.g \in G /\ e.g \in Nat
      BY <1>3, <3>1 DEF G
    <3>3. m <= e.g /\ m \in Nat /\ C(i) \in Nat
      BY <1>5, <2>1, <2>3, <2>4, <3>2
    <3> QED
      BY <2>5, <3>1, <3>2, <3>3
  <2>8. d \in P \ s.heap
    BY <2>1, <2>5, <2>7 DEF Within
  <2>9. q[i + 1] \in DOMAIN g.zone /\ Allowed(g, links, zones, Last(d.path), q[i + 1])
    BY <1>2, <2>1, <2>5 DEF Keeps
  <2>10. Within(P, q[i + 1], d.g + Cost(g, q[i + 1]))
    BY <1>1, <2>6, <2>8, <2>9 DEF SearchOk
  <2>11. PICK e \in P : Last(e.path) = q[i + 1] /\ e.g <= d.g + Cost(g, q[i + 1])
    BY <2>10 DEF Within
  <2>12. e.g \in Nat /\ C(i) \in Nat /\ Cost(g, q[i + 1]) \in Nat /\ C(i + 1) = C(i) + Cost(g, q[i + 1])
    BY <1>3, <1>5, <2>1
  <2>13. e.g <= C(i + 1)
    BY <2>7, <2>11, <2>12
  <2> QED
    BY <2>11, <2>13 DEF Within
<1>8. T \in SUBSET Nat
  OBVIOUS
<1> HIDE DEF T
<1>9. Len(q) - 1 \in T /\ (Len(q) - 1) + 1 = Len(q) /\ Len(q) \in 1..Len(q)
  <2>1. T = Nat
    BY <1>6, <1>7, <1>8, NatSteps
  <2> QED
    BY <1>2, <2>1
<1>10. Within(P, q[Len(q)], C(Len(q)))
  BY <1>2, <1>9 DEF T
<1>11. PICK d \in P : Last(d.path) = g.end /\ d.g <= C(Len(q))
  BY <1>10 DEF Within, Last
<1>12. d \in s.heap
  BY <1>1, <1>11 DEF SearchOk
<1> QED
  BY <1>9, <1>11, <1>12 DEF Within, Last

(* From every zone of the walk to its end, the distance is not more than the cost. *)
Near(g, q) == \A i \in 1..Len(q) : Distance(g, q[i]) <= PathCost(g, SubSeq(q, i, Len(q)))

(* What is found leads from the source to the end and keeps off what is to be
   avoided; and no walk that does so costs less if the distance misleads
   nowhere on it. *)
Found(g, source, links, zones, p) ==
  /\ Walk(g, p) /\ p[1] = source /\ Last(p) = g.end /\ IsInjective(p)
  /\ Keeps(g, links, zones, p)
  /\ \A q : Walk(g, q) /\ q[1] = source /\ Last(q) = g.end /\ Keeps(g, links, zones, q) /\ Near(g, q) =>
       PathCost(g, p) <= PathCost(g, q)

LEMMA FoundIs ==
    ASSUME NEW g, IsMap(g), Complete(g), NEW source \in DOMAIN g.zone, NEW links, NEW zones,
           NEW p, p = FindPathAvoiding(g, source, links, zones), p # <<>>
    PROVE  Found(g, source, links, zones, p)
<1> DEFINE s == Search(g, source, links, zones)
           top == First(s.heap)
<1>1. s \in States(g, source, links, zones) /\ Over(g, s)
  BY SearchEnds
<1>2. s.heap # {} /\ p = top.path
  BY DEF FindPathAvoiding
<1> HIDE DEF s
<1>3. Last(p) = g.end
  BY <1>1, <1>2 DEF Over
<1>4. top \in s.heap /\ \A e \in s.heap : top = e \/ Before(top, e)
  BY <1>1, <1>2, FirstIs
<1> HIDE DEF top
<1>5. s.heap \subseteq s.pushed /\ s.pushed \subseteq Entries(g)
      /\ \A e \in s.pushed : EntryOk(g, source, e) /\ Keeps(g, links, zones, e.path)
  BY <1>1 DEF States, SearchOk
<1>6. EntryOk(g, source, top) /\ Keeps(g, links, zones, p)
  BY <1>2, <1>4, <1>5
<1>7. Walk(g, p) /\ p[1] = source /\ IsInjective(p) /\ top.g = PathCost(g, p) /\ top.f = top.g + Distance(g, g.end)
  BY <1>2, <1>3, <1>6 DEF EntryOk
<1>8. ASSUME NEW q, Walk(g, q), q[1] = source, Last(q) = g.end, Keeps(g, links, zones, q), Near(g, q)
      PROVE  PathCost(g, p) <= PathCost(g, q)
  <2>1. PICK i \in 1..Len(q) : Within(s.heap, q[i], PathCost(g, SubSeq(q, 1, i)))
    BY <1>1, <1>8, Frontier
  <2>2. PICK d \in s.heap : Last(d.path) = q[i] /\ d.g <= PathCost(g, SubSeq(q, 1, i))
    BY <2>1 DEF Within
  <2>3. q \in Seq(DOMAIN g.zone) /\ q[i] \in DOMAIN g.zone
    BY <1>8 DEF Walk
  <2>4. /\ PathCost(g, SubSeq(q, 1, i)) \in Nat /\ PathCost(g, SubSeq(q, i, Len(q))) \in Nat
        /\ PathCost(g, q) = PathCost(g, SubSeq(q, 1, i)) + PathCost(g, SubSeq(q, i, Len(q)))
    BY <2>3, CostOfCut
  <2>5. Distance(g, q[i]) <= PathCost(g, SubSeq(q, i, Len(q))) /\ Distance(g, q[i]) \in Nat
    <3>1. Distance(g, q[i]) \in Nat
      BY <2>3, CostIs
    <3> QED
      BY <1>8, <3>1 DEF Near
  <2>6. d.f = d.g + Distance(g, q[i]) /\ d.g \in Nat
    BY <1>5, <2>2 DEF EntryOk, Entries
  <2>7. top.g \in Nat /\ Distance(g, g.end) \in Nat
    <3>1. g.end \in DOMAIN g.zone
      BY DEF IsMap, Complete
    <3>2. Distance(g, g.end) \in Nat
      BY <3>1, CostIs
    <3> QED
      BY <1>4, <1>5, <3>2 DEF Entries
  <2>8. top.f <= d.f
    <3>1. top.f = d.f \/ top.f < d.f
      BY <1>4, <2>2 DEF Before
    <3> QED
      BY <1>7, <2>5, <2>6, <2>7, <3>1
  <2> QED
    BY <1>7, <2>2, <2>4, <2>5, <2>6, <2>7, <2>8
<1> QED
  BY <1>3, <1>6, <1>7, <1>8 DEF Found

(* The search ends without a path only if there is none. *)
LEMMA NoneMissed ==
    ASSUME NEW g, IsMap(g), Complete(g), NEW source \in DOMAIN g.zone, NEW links, NEW zones,
           NEW q, Walk(g, q), q[1] = source, Last(q) = g.end, Keeps(g, links, zones, q)
    PROVE  FindPathAvoiding(g, source, links, zones) # <<>>
<1> DEFINE s == Search(g, source, links, zones)
<1>1. s \in States(g, source, links, zones)
  BY SearchEnds
<1>2. FindPathAvoiding(g, source, links, zones) = IF s.heap = {} THEN <<>> ELSE First(s.heap).path
  BY DEF FindPathAvoiding
<1> HIDE DEF s
<1>3. s.heap # {}
  BY <1>1, Frontier DEF Within
<1>4. First(s.heap) \in s.heap
  BY <1>1, <1>3, FirstIs
<1>5. Walk(g, First(s.heap).path)
  BY <1>1, <1>4 DEF States, SearchOk, EntryOk
<1> QED
  BY <1>2, <1>3, <1>5 DEF Walk

(* Where the parser found a route, the path finder finds one. *)
LEMMA RouteFound ==
    ASSUME NEW g, IsMap(g), HasRoute(g)
    PROVE  FindPath(g) # <<>>
<1>1. Complete(g) /\ g.start \in DOMAIN g.zone
  BY DEF HasRoute, Complete, IsMap
<1>2. PICK p : Loopless(g, p) /\ Last(p) = g.end
  BY <1>1, VisitedReached DEF HasRoute
<1>3. Walk(g, p) /\ p[1] = g.start
  BY <1>2 DEF Loopless
<1>4. Keeps(g, {}, {}, p)
  BY <1>3 DEF Walk, Keeps, Allowed
<1>5. FindPathAvoiding(g, g.start, {}, {}) # <<>>
  BY <1>1, <1>2, <1>3, <1>4, NoneMissed
<1> QED
  BY <1>5 DEF FindPath

-----------------------------------------------------------------------------
(* The path finder: further paths.                                         *)

Routes(g) == {p \in Seq(DOMAIN g.zone) : Loopless(g, p) /\ Last(p) = g.end}

LEMMA RouteIs ==
    ASSUME NEW g, IsMap(g), Complete(g), NEW p \in Routes(g)
    PROVE  /\ Walk(g, p) /\ p \in Seq(DOMAIN g.zone) /\ p # <<>> /\ IsInjective(p)
           /\ p[1] = g.start /\ Last(p) = g.end /\ Len(p) \in Nat /\ Len(p) >= 2
           /\ PathCost(g, p) \in Nat
<1>1. Walk(g, p) /\ p \in Seq(DOMAIN g.zone) /\ p # <<>> /\ IsInjective(p) /\ p[1] = g.start /\ Last(p) = g.end
  BY DEF Routes, Loopless, Walk
<1>2. g.start # g.end
  BY DEF IsMap, Complete
<1>3. Len(p) \in Nat /\ Len(p) >= 2
  BY <1>1, <1>2 DEF Last
<1>4. PathCost(g, p) \in Nat
  BY <1>1, PathCostIs
<1> QED
  BY <1>1, <1>3, <1>4

LEMMA RoutesAreSimplePaths ==
    ASSUME NEW g, IsMap(g), Complete(g)
    PROVE  Routes(g) = SimplePaths(g)
<1>1. ASSUME NEW p PROVE p \in Routes(g) <=> p \in SimplePaths(g)
  <2>1. p \in SimplePaths(g) <=> Loopless(g, p) /\ Last(p) = g.end
    BY SimplePathsIs
  <2> QED
    BY <2>1 DEF Routes, Loopless, Walk
<1> QED
  BY <1>1

(* The first i zones of p and q are the same. *)
Agree(p, q, i) == i <= Len(p) /\ i <= Len(q) /\ \A j \in 1..i : p[j] = q[j]

(* The path q leaves all of the paths at its i-th zone. *)
Leaves(paths, q, i) ==
  /\ i \in 1..Len(q) - 1
  /\ \E n \in DOMAIN paths : Agree(paths[n], q, i)
  /\ \A n \in DOMAIN paths : ~Agree(paths[n], q, i + 1)

(* No route is the beginning of another one. *)
LEMMA SameRoute ==
    ASSUME NEW g, IsMap(g), Complete(g), NEW p \in Routes(g), NEW q \in Routes(g), Agree(p, q, Len(q))
    PROVE  p = q
<1>1. p \in Seq(DOMAIN g.zone) /\ q \in Seq(DOMAIN g.zone) /\ Len(p) \in Nat /\ Len(q) \in Nat /\ Len(q) >= 2
      /\ IsInjective(p) /\ Last(p) = g.end /\ Last(q) = g.end /\ Len(p) >= 2
  BY RouteIs
<1>2. Len(q) <= Len(p) /\ \A j \in 1..Len(q) : p[j] = q[j]
  BY DEF Agree
<1>3. p[Len(q)] = p[Len(p)] /\ Len(q) \in DOMAIN p /\ Len(p) \in DOMAIN p
  BY <1>1, <1>2 DEF Last
<1>4. Len(p) = Len(q)
  BY <1>1, <1>3 DEF IsInjective
<1> QED
  BY <1>1, <1>2, <1>4

(* A route that is not one of the paths leaves them somewhere. *)
LEMMA LeavesSomewhere ==
    ASSUME NEW g, IsMap(g), Complete(g), NEW paths \in Seq(Routes(g)), paths # <<>>,
           NEW q \in Routes(g), q \notin ToSet(paths)
    PROVE  \E i : Leaves(paths, q, i)
<1> DEFINE T == {j \in Nat : \A n \in DOMAIN paths : ~Agree(paths[n], q, j + 1)}
<1>1. Len(q) \in Nat /\ Len(q) >= 2 /\ q[1] = g.start
  BY RouteIs
<1>2. Len(q) \in T
  BY <1>1 DEF Agree
<1>3. T \in SUBSET Nat /\ T # {}
  BY <1>2
<1>4. PICK i \in T : \A j \in T : i <= j
  <2> HIDE DEF T
  <2> QED
    BY <1>3, NatMin
<1>5. i \in Nat /\ i <= Len(q) /\ \A n \in DOMAIN paths : ~Agree(paths[n], q, i + 1)
  BY <1>2, <1>4
<1>6. i # 0
  <2>1. 1 \in DOMAIN paths /\ paths[1] \in Routes(g)
    OBVIOUS
  <2>2. paths[1][1] = g.start /\ Len(paths[1]) \in Nat /\ Len(paths[1]) >= 2
    BY <2>1, RouteIs
  <2>3. Agree(paths[1], q, 1)
    BY <1>1, <2>2 DEF Agree
  <2> QED
    BY <1>5, <2>1, <2>3
<1>7. PICK n \in DOMAIN paths : Agree(paths[n], q, i)
  <2>1. i - 1 \in Nat /\ ~(i <= i - 1) /\ (i - 1) + 1 = i
    BY <1>5, <1>6
  <2>2. i - 1 \notin T
    BY <1>4, <2>1
  <2> QED
    BY <2>1, <2>2
<1>8. i # Len(q)
  <2> SUFFICES ASSUME i = Len(q) PROVE FALSE
    OBVIOUS
  <2>1. paths[n] \in Routes(g) /\ Agree(paths[n], q, Len(q))
    BY <1>7
  <2>2. paths[n] = q
    BY <2>1, SameRoute
  <2> QED
    BY <2>2 DEF ToSet
<1>9. i \in 1..Len(q) - 1
  BY <1>1, <1>5, <1>6, <1>8
<1> QED
  BY <1>5, <1>7, <1>9 DEF Leaves

(* heappop takes one of the candidates, and none is cheaper. *)
LEMMA CheapestIs ==
    ASSUME NEW g, IsMap(g), Complete(g), NEW c \in Seq(Routes(g)), c # <<>>
    PROVE  /\ Cheapest(g, c) \in DOMAIN c
           /\ \A j \in DOMAIN c : PathCost(g, c[Cheapest(g, c)]) <= PathCost(g, c[j])
<1>1. \A i \in DOMAIN c : PathCost(g, c[i]) \in Nat
  BY RouteIs
<1>2. DOMAIN c \in SUBSET Nat /\ DOMAIN c # {}
  OBVIOUS
<1> DEFINE V == {PathCost(g, c[i]) : i \in DOMAIN c}
<1>3. PICK v \in V : \A m \in V : v <= m
  <2>1. V \in SUBSET Nat /\ V # {}
    BY <1>1, <1>2
  <2> HIDE DEF V
  <2> QED
    BY <2>1, NatMin
<1> DEFINE I == {i \in DOMAIN c : PathCost(g, c[i]) = v}
<1>4. PICK i \in I : \A m \in I : i <= m
  <2>1. I \in SUBSET Nat /\ I # {}
    BY <1>2, <1>3
  <2> HIDE DEF I
  <2> QED
    BY <2>1, NatMin
<1>5. \E k \in DOMAIN c : \A j \in DOMAIN c :
        \/ PathCost(g, c[k]) < PathCost(g, c[j])
        \/ PathCost(g, c[k]) = PathCost(g, c[j]) /\ k <= j
  <2> WITNESS i \in DOMAIN c
  <2> TAKE j \in DOMAIN c
  <2>1. PathCost(g, c[i]) = v /\ v <= PathCost(g, c[j]) /\ v \in Nat /\ PathCost(g, c[j]) \in Nat
    BY <1>1, <1>3, <1>4
  <2>2. PathCost(g, c[j]) = v => i <= j
    BY <1>4
  <2> QED
    BY <2>1, <2>2
<1> DEFINE b == Cheapest(g, c)
<1>6. b \in DOMAIN c /\ \A j \in DOMAIN c :
        \/ PathCost(g, c[b]) < PathCost(g, c[j])
        \/ PathCost(g, c[b]) = PathCost(g, c[j]) /\ b <= j
  BY <1>5 DEF Cheapest
<1> HIDE DEF b
<1>7. \A j \in DOMAIN c : PathCost(g, c[b]) <= PathCost(g, c[j])
  BY <1>1, <1>6
<1> QED
  BY <1>6, <1>7 DEF b

LEMMA ConcatIs ==
    ASSUME NEW S, NEW u \in Seq(S), NEW v \in Seq(S)
    PROVE  /\ u \o v \in Seq(S) /\ Len(u \o v) = Len(u) + Len(v)
           /\ \A j \in 1..Len(u) : (u \o v)[j] = u[j]
           /\ \A j \in 1..Len(v) : (u \o v)[Len(u) + j] = v[j]
<1>1. u \o v \in Seq(S) /\ Len(u \o v) = Len(u) + Len(v)
  OBVIOUS
<1>2. \A j \in 1..Len(u) : (u \o v)[j] = u[j]
  OBVIOUS
<1>3. \A j \in 1..Len(v) : (u \o v)[Len(u) + j] = v[j]
  OBVIOUS
<1> QED
  BY <1>1, <1>2, <1>3

(* The first zones of a path but for the last of them. *)
LEMMA RootIs ==
    ASSUME NEW S, NEW p \in Seq(S), NEW i \in 1..Len(p)
    PROVE  /\ Front(SubSeq(p, 1, i)) \in Seq(S) /\ Len(Front(SubSeq(p, 1, i))) = i - 1
           /\ \A j \in 1..i - 1 : Front(SubSeq(p, 1, i))[j] = p[j]
<1> DEFINE root == SubSeq(p, 1, i)
           f == Front(root)
<1>1. root \in Seq(S) /\ Len(root) = i /\ (\A j \in 1..i : root[j] = p[j]) /\ i \in Nat /\ i >= 1
  BY SubSeqIs
<1>2. f = SubSeq(root, 1, Len(root) - 1)
  BY DEF Front
<1> HIDE DEF root, f
<1> SUFFICES f \in Seq(S) /\ Len(f) = i - 1 /\ \A j \in 1..i - 1 : f[j] = p[j]
  BY DEF f, root
<1>3. CASE i = 1
  <2>1. f = SubSeq(root, 1, 0)
    BY <1>1, <1>2, <1>3
  <2>2. f = <<>>
    BY <1>1, <2>1
  <2>3. f \in Seq(S) /\ Len(f) = 0
    <3>1. <<>> \in Seq(S) /\ Len(<<>>) = 0
      OBVIOUS
    <3> QED
      BY <2>2, <3>1, Zenon
  <2>4. i - 1 = 0 /\ 1..0 = {}
    BY <1>3
  <2> QED
    BY <2>3, <2>4
<1>4. CASE i # 1
  <2>1. i - 1 \in 1..Len(root) /\ f = SubSeq(root, 1, i - 1)
    BY <1>1, <1>2, <1>4
  <2>2. f \in Seq(S) /\ Len(f) = i - 1 /\ \A j \in 1..i - 1 : f[j] = root[j]
    BY <1>1, <2>1, SubSeqIs
  <2> QED
    BY <1>1, <2>2
<1> QED
  BY <1>3, <1>4

(* root_path[:-1] + spur_path *)
Joined(p, i, q) == Front(SubSeq(p, 1, i)) \o q

Joins(g, p, i, q, r) ==
  /\ Walk(g, r) /\ r[1] = p[1] /\ Last(r) = Last(q) /\ Len(r) = (i - 1) + Len(q)
  /\ \A j \in 1..i : r[j] = p[j]
  /\ \A j \in 1..Len(q) : r[(i - 1) + j] = q[j]

LEMMA JoinIs ==
    ASSUME NEW g, NEW p, Walk(g, p), NEW i \in 1..Len(p), NEW q, Walk(g, q), q[1] = p[i]
    PROVE  Joins(g, p, i, q, Joined(p, i, q))
<1> DEFINE front == Front(SubSeq(p, 1, i))
           r == front \o q
           Z == DOMAIN g.zone
<1>1. /\ p \in Seq(Z) /\ q \in Seq(Z) /\ Len(q) \in Nat /\ Len(q) >= 1 /\ i \in Nat /\ i >= 1 /\ i <= Len(p)
      /\ \A j \in 1..Len(p) - 1 : Move(g, p[j], p[j + 1])
      /\ \A j \in 1..Len(q) - 1 : Move(g, q[j], q[j + 1])
  BY DEF Walk
<1>2. r = front \o q /\ front = Front(SubSeq(p, 1, i))
  OBVIOUS
<1> HIDE DEF front, r, Z
<1>3. front \in Seq(Z) /\ Len(front) = i - 1 /\ \A j \in 1..i - 1 : front[j] = p[j]
  <2>1. p \in Seq(Z) /\ i \in 1..Len(p) /\ front = Front(SubSeq(p, 1, i))
    BY <1>1, <1>2
  <2> QED
    BY <2>1, RootIs
<1>4. /\ r \in Seq(Z) /\ Len(r) = Len(front) + Len(q)
      /\ \A j \in 1..Len(front) : r[j] = front[j]
      /\ \A j \in 1..Len(q) : r[Len(front) + j] = q[j]
  <2>1. front \in Seq(Z) /\ q \in Seq(Z)
    BY <1>1, <1>3
  <2>2. /\ front \o q \in Seq(Z) /\ Len(front \o q) = Len(front) + Len(q)
        /\ \A j \in 1..Len(front) : (front \o q)[j] = front[j]
        /\ \A j \in 1..Len(q) : (front \o q)[Len(front) + j] = q[j]
    BY <2>1, ConcatIs
  <2> QED
    BY <1>2, <2>2, Zenon
<1>5. r \in Seq(Z)
  BY <1>4
<1>6. /\ Len(r) = (i - 1) + Len(q)
      /\ \A j \in 1..i - 1 : r[j] = p[j]
      /\ \A j \in 1..Len(q) : r[(i - 1) + j] = q[j]
  BY <1>3, <1>4
<1>7. r # <<>> /\ Last(r) = Last(q)
  BY <1>1, <1>5, <1>6 DEF Last
<1>8. r[1] = p[1]
  <2>1. CASE i = 1
    <3>1. 1 \in 1..Len(q) /\ (i - 1) + 1 = 1
      BY <1>1, <2>1
    <3> QED
      BY <1>6, <2>1, <3>1
  <2>2. CASE i # 1
    BY <1>1, <1>6, <2>2
  <2> QED
    BY <2>1, <2>2
<1>9. \A j \in 1..i : r[j] = p[j]
  <2> TAKE j \in 1..i
  <2>1. CASE j = i
    <3>1. 1 \in 1..Len(q) /\ (i - 1) + 1 = i
      BY <1>1
    <3> QED
      BY <1>6, <2>1, <3>1
  <2>2. CASE j # i
    BY <1>1, <1>6, <2>2
  <2> QED
    BY <2>1, <2>2
<1>10. ASSUME NEW j \in 1..Len(r) - 1 PROVE Move(g, r[j], r[j + 1])
  <2>1. CASE j < i
    <3>1. j \in 1..i /\ j + 1 \in 1..i /\ j \in 1..Len(p) - 1
      BY <1>1, <2>1
    <3> QED
      BY <1>1, <1>9, <3>1
  <2>2. CASE ~(j < i)
    <3> DEFINE k == j - (i - 1)
    <3>1. /\ k \in 1..Len(q) - 1 /\ k \in 1..Len(q) /\ k + 1 \in 1..Len(q)
          /\ (i - 1) + k = j /\ (i - 1) + (k + 1) = j + 1
      BY <1>1, <1>6, <2>2
    <3> HIDE DEF k
    <3>2. r[j] = q[k] /\ r[j + 1] = q[k + 1]
      BY <1>6, <3>1
    <3> QED
      BY <1>1, <3>1, <3>2
  <2> QED
    BY <2>1, <2>2
<1>11. Walk(g, r)
  BY <1>5, <1>7, <1>10 DEF Walk, Z
<1> QED
  BY <1>6, <1>7, <1>8, <1>9, <1>11 DEF r, front, Joined, Joins

(* Paths without loops that have no zone in common but the one where they meet
   make one without loops. *)
LEMMA JoinIsInjective ==
    ASSUME NEW S, NEW p \in Seq(S), IsInjective(p), NEW i \in 1..Len(p),
           NEW q \in Seq(S), q # <<>>, IsInjective(q), \A j \in 1..i - 1, k \in 1..Len(q) : q[k] # p[j],
           NEW r \in Seq(S), Len(r) = (i - 1) + Len(q), \A j \in 1..i : r[j] = p[j],
           \A j \in 1..Len(q) : r[(i - 1) + j] = q[j]
    PROVE  IsInjective(r)
<1>1. i \in Nat /\ i >= 1 /\ i <= Len(p) /\ Len(p) \in Nat /\ Len(q) \in Nat /\ DOMAIN r = 1..(i - 1) + Len(q)
      /\ DOMAIN p = 1..Len(p) /\ DOMAIN q = 1..Len(q)
  OBVIOUS
<1> SUFFICES ASSUME NEW a \in DOMAIN r, NEW b \in DOMAIN r, r[a] = r[b] PROVE a = b
  BY DEF IsInjective
<1>2. CASE a < i /\ b < i
  <2>1. a \in DOMAIN p /\ b \in DOMAIN p /\ p[a] = p[b]
    BY <1>1, <1>2
  <2> QED
    BY <2>1 DEF IsInjective
<1>3. CASE ~(a < i) /\ ~(b < i)
  <2> DEFINE c == a - (i - 1)
             d == b - (i - 1)
  <2>1. c \in 1..Len(q) /\ d \in 1..Len(q) /\ (i - 1) + c = a /\ (i - 1) + d = b
    <3>1. a \in 1..(i - 1) + Len(q) /\ b \in 1..(i - 1) + Len(q)
      BY <1>1
    <3>2. /\ i \in Nat /\ Len(q) \in Nat /\ a \in Nat /\ b \in Nat
          /\ a <= (i - 1) + Len(q) /\ b <= (i - 1) + Len(q)
      BY <1>1, <3>1
    <3>3. c \in 1..Len(q) /\ (i - 1) + c = a
      BY <1>3, <3>2
    <3>4. d \in 1..Len(q) /\ (i - 1) + d = b
      BY <1>3, <3>2
    <3> QED
      BY <3>3, <3>4
  <2> HIDE DEF c, d
  <2>2. q[c] = q[d]
    BY <2>1
  <2>3. c = d
    BY <1>1, <2>1, <2>2 DEF IsInjective
  <2> QED
    BY <2>1, <2>3
<1>4. ASSUME NEW x \in DOMAIN r, NEW y \in DOMAIN r, x < i, ~(y < i), r[x] = r[y] PROVE FALSE
  <2> DEFINE d == y - (i - 1)
  <2>1. x \in 1..i - 1 /\ x \in 1..i /\ d \in 1..Len(q) /\ (i - 1) + d = y
    <3>1. x \in 1..(i - 1) + Len(q) /\ y \in 1..(i - 1) + Len(q)
      BY <1>1
    <3>2. i \in Nat /\ x \in Nat /\ x >= 1 /\ y \in Nat /\ y <= (i - 1) + Len(q) /\ Len(q) \in Nat
      BY <1>1, <3>1
    <3>3. x \in 1..i - 1 /\ x \in 1..i
      BY <1>4, <3>2
    <3>4. d \in 1..Len(q) /\ (i - 1) + d = y
      BY <1>4, <3>2, SMTT(40)
    <3> QED
      BY <3>3, <3>4
  <2> HIDE DEF d
  <2>2. r[x] = p[x] /\ r[y] = q[d]
    BY <2>1
  <2> QED
    BY <1>4, <2>1, <2>2
<1> QED
  BY <1>2, <1>3, <1>4

LEMMA SeqEq ==
    ASSUME NEW S, NEW s \in Seq(S), NEW t \in Seq(S), Len(s) = Len(t),
           \A a \in 1..Len(s) : s[a] = t[a]
    PROVE  s = t
OBVIOUS

(* What a route that leaves the paths at its i-th zone has from there on keeps off
   what the search for a branch does. *)
Suffixed(g, paths, root, x, q, v) ==
  /\ Walk(g, v) /\ v[1] = x /\ Last(v) = g.end
  /\ Keeps(g, BlockUsedConnections(paths, root), RemovedNodes(root), v)
  /\ Admissible(g) => Near(g, v)
  /\ PathCost(g, q) = PathCost(g, root) + PathCost(g, v)
  /\ PathCost(g, root) \in Nat /\ PathCost(g, v) \in Nat

LEMMA SuffixKeeps ==
    ASSUME NEW g, IsMap(g), Complete(g), NEW paths \in Seq(Routes(g)), paths # <<>>,
           NEW p, p = Last(paths), NEW i \in 1..Len(p) - 1,
           NEW q \in Routes(g), Agree(p, q, i), Leaves(paths, q, i),
           NEW v, v = SubSeq(q, i, Len(q)), NEW root, root = SubSeq(p, 1, i)
    PROVE  Suffixed(g, paths, root, p[i], q, v)
<1> DEFINE Z == DOMAIN g.zone
           n == (Len(q) - i) + 1
<1>1. p \in Routes(g)
  BY DEF Last
<1>2. /\ p \in Seq(Z) /\ q \in Seq(Z) /\ Len(p) \in Nat /\ Len(q) \in Nat /\ Last(q) = g.end /\ IsInjective(q)
      /\ \A j \in 1..Len(q) - 1 : Move(g, q[j], q[j + 1])
  <2>1. p \in Seq(Z) /\ Len(p) \in Nat
    BY <1>1, RouteIs
  <2>2. q \in Seq(Z) /\ Len(q) \in Nat /\ Last(q) = g.end /\ IsInjective(q) /\ Walk(g, q)
    BY RouteIs
  <2> QED
    BY <2>1, <2>2 DEF Walk
<1>3. i \in Nat /\ i >= 1 /\ i <= Len(q) - 1 /\ i \in 1..Len(q) /\ i \in 1..Len(p) /\ n \in Nat /\ n >= 2
  BY <1>2 DEF Leaves
<1>4. v \in Seq(Z) /\ Len(v) = n /\ \A j \in 1..n : v[j] = q[(i - 1) + j]
  BY <1>2, <1>3, SuffixIs
<1>5. root \in Seq(Z) /\ Len(root) = i /\ \A j \in 1..i : root[j] = p[j]
  BY <1>2, <1>3, SubSeqIs
<1>6. \A j \in 1..i : p[j] = q[j]
  BY DEF Agree
<1> HIDE DEF n
<1>7. v # <<>> /\ v[1] = p[i] /\ Last(v) = g.end
  <2>1. 1 \in 1..n /\ n \in 1..n /\ (i - 1) + 1 = i /\ (i - 1) + n = Len(q) /\ i \in 1..i
    BY <1>2, <1>3 DEF n
  <2>2. v[1] = q[i] /\ v[n] = q[Len(q)] /\ p[i] = q[i]
    BY <1>4, <1>6, <2>1
  <2> QED
    <3>1. Len(v) = n /\ v # <<>>
      <4>1. Len(v) = n
        BY <1>4
      <4>2. Len(v) # 0
        BY <1>3, <4>1
      <4>3. Len(<<>>) = 0
        OBVIOUS
      <4> QED
        BY <4>1, <4>2, <4>3, Zenon
    <3>2. v[1] = p[i]
      BY <2>2
    <3>3. Last(v) = q[Len(q)] /\ Last(q) = q[Len(q)]
      BY <2>2, <3>1 DEF Last
    <3> QED
      BY <1>2, <3>1, <3>2, <3>3
<1>8. ASSUME NEW j \in 1..n - 1
      PROVE  /\ j \in 1..n /\ j + 1 \in 1..n /\ (i - 1) + j \in 1..Len(q) - 1
             /\ v[j] = q[(i - 1) + j] /\ v[j + 1] = q[((i - 1) + j) + 1]
  <2>1. j \in 1..n /\ j + 1 \in 1..n /\ (i - 1) + j \in 1..Len(q) - 1 /\ ((i - 1) + j) + 1 = (i - 1) + (j + 1)
    BY <1>2, <1>3 DEF n
  <2> QED
    BY <1>4, <2>1
<1>9. Walk(g, v)
  BY <1>2, <1>4, <1>7, <1>8 DEF Walk
<1>10. ASSUME NEW j \in 1..n - 1
       PROVE  Allowed(g, BlockUsedConnections(paths, root), RemovedNodes(root), v[j], v[j + 1])
  <2> DEFINE k == (i - 1) + j
  <2>1. /\ k \in 1..Len(q) - 1 /\ v[j] = q[k] /\ v[j + 1] = q[k + 1] /\ k \in DOMAIN q /\ k + 1 \in DOMAIN q
        /\ i \in DOMAIN q /\ i <= k /\ k + 1 # i /\ k \in Nat /\ k + 1 # k
    <3>1. k \in 1..Len(q) - 1 /\ v[j] = q[k] /\ v[j + 1] = q[k + 1]
      BY <1>8
    <3>2. DOMAIN q = 1..Len(q)
      BY <1>2
    <3>3. j >= 1 /\ j \in Nat
      BY <1>3
    <3>4. i <= k /\ k + 1 # i /\ k \in Nat /\ k + 1 # k /\ k \in 1..Len(q) /\ k + 1 \in 1..Len(q)
      BY <1>2, <1>3, <3>1, <3>3
    <3> QED
      BY <1>3, <3>1, <3>2, <3>4
  <2> HIDE DEF k
  <2>2. Move(g, v[j], v[j + 1])
    BY <1>2, <2>1
  <2>3. v[j + 1] \notin RemovedNodes(root)
    <3> SUFFICES ASSUME v[j + 1] \in RemovedNodes(root) PROVE FALSE
      OBVIOUS
    <3>1. /\ Front(SubSeq(p, 1, i)) \in Seq(Z) /\ Len(Front(SubSeq(p, 1, i))) = i - 1
          /\ \A m \in 1..i - 1 : Front(SubSeq(p, 1, i))[m] = p[m]
      BY <1>2, <1>3, RootIs
    <3> DEFINE f == Front(root)
    <3>2. f \in Seq(Z) /\ Len(f) = i - 1 /\ \A m \in 1..i - 1 : f[m] = p[m]
      BY <3>1
    <3> HIDE DEF f
    <3>3. PICK m \in DOMAIN f : f[m] = v[j + 1]
      BY DEF RemovedNodes, ToSet, f
    <3>4. m \in 1..i - 1 /\ m \in 1..i /\ m # k + 1 /\ m \in DOMAIN q
      <4>1. DOMAIN f = 1..i - 1 /\ DOMAIN q = 1..Len(q)
        BY <1>2, <3>2
      <4>2. m \in 1..i - 1
        BY <4>1
      <4>3. m \in Nat /\ m >= 1 /\ m < i
        BY <1>3, <4>2
      <4>4. i \in Nat /\ k \in Nat /\ i <= k
        BY <1>3, <2>1
      <4>5. m \in 1..i /\ m # k + 1
        BY <4>3, <4>4
      <4>6. Len(q) \in Nat /\ i <= Len(q)
        BY <1>2, <1>3
      <4>7. m \in 1..Len(q)
        BY <4>3, <4>4, <4>6
      <4> QED
        BY <4>1, <4>2, <4>5, <4>7
    <3>5. q[m] = q[k + 1]
      BY <1>6, <2>1, <3>2, <3>3, <3>4
    <3> QED
      BY <1>2, <2>1, <3>4, <3>5 DEF IsInjective
  <2>4. {v[j + 1], v[j]} \notin BlockUsedConnections(paths, root)
    <3> SUFFICES ASSUME {v[j + 1], v[j]} \in BlockUsedConnections(paths, root) PROVE FALSE
      OBVIOUS
    <3>1. PICK r \in ToSet(paths) : /\ IsPrefix(root, r) /\ Len(r) > Len(root)
                                    /\ {v[j + 1], v[j]} = {Last(root), r[Len(root) + 1]}
      BY DEF BlockUsedConnections
    <3>2. Last(root) = q[i]
      BY <1>3, <1>5, <1>6 DEF Last
    <3>3. PICK m \in DOMAIN paths : paths[m] = r
      BY DEF ToSet
    <3>4. r \in Seq(Z) /\ Len(r) \in Nat
      <4>1. r \in Routes(g)
        BY <3>3
      <4> QED
        BY <4>1, RouteIs
    <3>5. Len(r) > i /\ {q[k + 1], q[k]} = {q[i], r[i + 1]}
      BY <1>5, <2>1, <3>1, <3>2
    <3>6. q[k + 1] # q[i] /\ q[k + 1] # q[k]
      BY <1>2, <2>1 DEF IsInjective
    <3>7. q[k] = q[i] /\ q[k + 1] = r[i + 1]
      BY <3>5, <3>6
    <3>8. k = i
      BY <1>2, <2>1, <3>7 DEF IsInjective
    <3>9. \A a \in 1..i : r[a] = q[a]
      <4>1. SubSeq(root, 1, Len(root)) = SubSeq(r, 1, Len(root))
        BY <3>1 DEF IsPrefix
      <4>2. i \in 1..Len(r) /\ i \in 1..Len(root)
        BY <1>3, <1>5, <3>4, <3>5
      <4>3. \A a \in 1..i : SubSeq(root, 1, i)[a] = root[a]
        BY <1>5, <4>2, SubSeqIs
      <4>4. \A a \in 1..i : SubSeq(r, 1, i)[a] = r[a]
        BY <3>4, <4>2, SubSeqIs
      <4> QED
        BY <1>5, <1>6, <4>1, <4>3, <4>4
    <3>10. Agree(r, q, i + 1)
      <4>1. i + 1 <= Len(r) /\ i + 1 <= Len(q)
        BY <1>3, <3>4, <3>5
      <4>2. \A a \in 1..i + 1 : a \in 1..i \/ a = i + 1
        BY <1>3
      <4> QED
        BY <3>7, <3>8, <3>9, <4>1, <4>2 DEF Agree
    <3> QED
      BY <3>3, <3>10 DEF Leaves
  <2> QED
    BY <2>2, <2>3, <2>4 DEF Allowed
<1>11. Keeps(g, BlockUsedConnections(paths, root), RemovedNodes(root), v)
  BY <1>4, <1>10 DEF Keeps
<1>12. ASSUME Admissible(g) PROVE Near(g, v)
  <2> SUFFICES ASSUME NEW j \in 1..Len(v) PROVE Distance(g, v[j]) <= PathCost(g, SubSeq(v, j, Len(v)))
    BY DEF Near
  <2> DEFINE k == (i - 1) + j
  <2>1. k \in 1..Len(q) /\ k \in DOMAIN q /\ v[j] = q[k] /\ j \in 1..n /\ j \in Nat
    <3>1. j \in 1..n /\ n \in Nat
      BY <1>3, <1>4
    <3>2. k \in 1..Len(q) /\ j \in Nat
      BY <1>2, <1>3, <3>1 DEF n
    <3>3. v[j] = q[k]
      BY <1>4, <3>1
    <3>4. DOMAIN q = 1..Len(q)
      BY <1>2
    <3> QED
      BY <3>1, <3>2, <3>3, <3>4
  <2>2. SubSeq(v, j, Len(v)) = SubSeq(q, k, Len(q))
    <3>1. /\ SubSeq(q, k, Len(q)) \in Seq(Z) /\ Len(SubSeq(q, k, Len(q))) = (Len(q) - k) + 1
          /\ \A a \in 1..(Len(q) - k) + 1 : SubSeq(q, k, Len(q))[a] = q[(k - 1) + a]
      <4>1. q \in Seq(Z) /\ k \in 1..Len(q)
        BY <1>2, <2>1
      <4> HIDE DEF Z, k
      <4> QED
        BY <4>1, SuffixIs
    <3>2. /\ SubSeq(v, j, Len(v)) \in Seq(Z) /\ Len(SubSeq(v, j, Len(v))) = (Len(v) - j) + 1
          /\ \A a \in 1..(Len(v) - j) + 1 : SubSeq(v, j, Len(v))[a] = v[(j - 1) + a]
      <4>1. j \in 1..Len(v) /\ v \in Seq(Z)
        BY <1>4
      <4> HIDE DEF Z, k
      <4> QED
        BY <4>1, SuffixIs
    <3>3. (Len(v) - j) + 1 = (Len(q) - k) + 1 /\ (Len(q) - k) + 1 \in Nat
      BY <1>2, <1>3, <1>4, <2>1 DEF n
    <3>4. ASSUME NEW a \in 1..(Len(q) - k) + 1 PROVE v[(j - 1) + a] = q[(k - 1) + a]
      <4>1. (j - 1) + a \in 1..n /\ (i - 1) + ((j - 1) + a) = (k - 1) + a
        BY <1>2, <1>3, <1>4, <2>1 DEF n
      <4> QED
        BY <1>4, <4>1
    <3> DEFINE s1 == SubSeq(v, j, Len(v))
               s2 == SubSeq(q, k, Len(q))
    <3>5. s1 \in Seq(Z) /\ s2 \in Seq(Z) /\ Len(s1) = Len(s2)
      BY <3>1, <3>2, <3>3
    <3>6. \A a \in 1..Len(s1) : s1[a] = s2[a]
      BY <3>1, <3>2, <3>3, <3>4
    <3> HIDE DEF s1, s2
    <3>7. s1 = s2
      <4> HIDE DEF Z, k
      <4> QED
        BY <3>5, <3>6, SeqEq
    <3> QED
      BY <3>7 DEF s1, s2
  <2>3. q \in SimplePaths(g)
    BY RoutesAreSimplePaths
  <2>4. Distance(g, q[k]) <= PathCost(g, SubSeq(q, k, Len(q)))
    <3> HIDE DEF k
    <3> QED
      BY <1>12, <2>1, <2>3 DEF Admissible
  <2> QED
    BY <2>1, <2>2, <2>4
<1>13. /\ PathCost(g, SubSeq(q, 1, i)) \in Nat /\ PathCost(g, v) \in Nat
       /\ PathCost(g, q) = PathCost(g, SubSeq(q, 1, i)) + PathCost(g, v)
  BY <1>2, <1>3, CostOfCut
<1>14. SubSeq(q, 1, i) = root
  <2> DEFINE u == SubSeq(q, 1, i)
  <2>1. u \in Seq(Z) /\ Len(u) = i /\ \A j \in 1..i : u[j] = q[j]
    BY <1>2, <1>3, SubSeqIs
  <2> HIDE DEF u
  <2>2. Len(u) = Len(root) /\ \A a \in 1..Len(u) : u[a] = root[a]
    BY <1>5, <1>6, <2>1
  <2>3. u = root
    <3> HIDE DEF Z
    <3> QED
      BY <1>5, <2>1, <2>2, SeqEq
  <2> QED
    BY <2>3 DEF u
<1> QED
  BY <1>7, <1>9, <1>11, <1>12, <1>13, <1>14 DEF Suffixed

(* The search for a spur: the branch at the i-th zone of the last path found is
   a route that leaves the paths there, and none that does so is cheaper. *)
Branches(g, paths, i, r) ==
  /\ r \in Routes(g) /\ Agree(Last(paths), r, i) /\ Leaves(paths, r, i)
  /\ Admissible(g) =>
       \A q \in Routes(g) : Agree(Last(paths), q, i) /\ Leaves(paths, q, i) => PathCost(g, r) <= PathCost(g, q)

LEMMA BranchIs ==
    ASSUME NEW g, IsMap(g), Complete(g), NEW paths \in Seq(Routes(g)), paths # <<>>,
           NEW i \in 1..Len(Last(paths)) - 1, NEW r, r = Branch(g, paths, i), r # <<>>
    PROVE  Branches(g, paths, i, r)
<1> DEFINE p == Last(paths)
           Z == DOMAIN g.zone
           root == SubSeq(p, 1, i)
           links == BlockUsedConnections(paths, root)
           zones == RemovedNodes(root)
           spur == FindPathAvoiding(g, Last(root), links, zones)
<1>1. spur # <<>> /\ r = Joined(p, i, spur)
  BY DEF Branch, Joined
<1>2. p \in Routes(g) /\ i \in 1..Len(p) - 1
  BY DEF Last
<1>3. links = BlockUsedConnections(paths, root) /\ zones = RemovedNodes(root) /\ root = SubSeq(p, 1, i) /\ p = Last(paths)
  OBVIOUS
<1>4. spur = FindPathAvoiding(g, Last(root), links, zones)
  OBVIOUS
<1>5. Branches(g, paths, i, r) <=>
        /\ r \in Routes(g) /\ Agree(p, r, i) /\ Leaves(paths, r, i)
        /\ Admissible(g) =>
             \A q \in Routes(g) : Agree(p, q, i) /\ Leaves(paths, q, i) => PathCost(g, r) <= PathCost(g, q)
  BY DEF Branches
<1> HIDE DEF spur, links, zones, root, p
<1>6. /\ Walk(g, p) /\ p \in Seq(Z) /\ p # <<>> /\ IsInjective(p) /\ p[1] = g.start /\ Last(p) = g.end
      /\ Len(p) \in Nat /\ Len(p) >= 2
  BY <1>2, RouteIs
<1>7. i \in Nat /\ i >= 1 /\ i < Len(p) /\ i \in 1..Len(p) /\ DOMAIN p = 1..Len(p) /\ p[i] \in Z /\ i \in 1..i
  BY <1>2, <1>6
<1>8. root \in Seq(Z) /\ Len(root) = i /\ \A j \in 1..i : root[j] = p[j]
  <2> HIDE DEF Z
  <2> QED
    BY <1>3, <1>6, <1>7, SubSeqIs
<1>9. Last(root) = p[i]
  BY <1>7, <1>8 DEF Last
<1>10. Found(g, p[i], links, zones, spur)
  <2>1. spur = FindPathAvoiding(g, p[i], links, zones) /\ p[i] \in DOMAIN g.zone
    BY <1>4, <1>7, <1>9
  <2> QED
    BY <1>1, <2>1, FoundIs
<1>11. /\ Walk(g, spur) /\ spur[1] = p[i] /\ Last(spur) = g.end /\ IsInjective(spur)
       /\ Keeps(g, links, zones, spur)
  BY <1>10 DEF Found
<1>12. ASSUME NEW v, Walk(g, v), v[1] = p[i], Last(v) = g.end, Keeps(g, links, zones, v), Near(g, v)
       PROVE  PathCost(g, spur) <= PathCost(g, v)
  BY <1>10, <1>12 DEF Found
<1>13. spur \in Seq(Z) /\ Len(spur) \in Nat /\ DOMAIN spur = 1..Len(spur)
  BY <1>11 DEF Walk
<1>14. p[i] # g.end
  <2>1. Len(p) \in DOMAIN p /\ i \in DOMAIN p /\ i # Len(p)
    <3>1. \A n \in Nat : n >= 2 => n \in 1..n
      OBVIOUS
    <3>2. \A m, n \in Nat : m < n => m # n
      OBVIOUS
    <3>3. Len(p) \in Nat /\ Len(p) >= 2 /\ i \in Nat /\ i < Len(p) /\ i \in 1..Len(p)
      BY <1>6, <1>7, Zenon
    <3>4. Len(p) \in 1..Len(p) /\ i # Len(p)
      BY <3>1, <3>2, <3>3, Zenon
    <3> QED
      BY <1>7, <3>3, <3>4, Zenon
  <2>2. p[Len(p)] = g.end
    BY <1>6, Zenon DEF Last
  <2> QED
    BY <1>6, <2>1, <2>2 DEF IsInjective
<1>15. Len(spur) >= 2
  BY <1>1, <1>11, <1>13, <1>14 DEF Last
<1>16. /\ Walk(g, r) /\ r[1] = p[1] /\ Last(r) = Last(spur)
       /\ Len(r) = (i - 1) + Len(spur)
       /\ \A j \in 1..i : r[j] = p[j]
       /\ \A j \in 1..Len(spur) : r[(i - 1) + j] = spur[j]
  <2>1. Joins(g, p, i, spur, Joined(p, i, spur))
    BY <1>6, <1>7, <1>11, JoinIs
  <2>2. Joins(g, p, i, spur, r)
    BY <1>1, <2>1, Zenon
  <2> QED
    BY <2>2, Zenon DEF Joins
<1>17. r \in Seq(Z)
  BY <1>16 DEF Walk
<1>18. ASSUME NEW j \in 1..i - 1, NEW k \in 1..Len(spur) PROVE spur[k] # p[j]
  <2>1. j \in DOMAIN p /\ j # i /\ i \in DOMAIN p
    BY <1>7
  <2>2. CASE k = 1
    BY <1>6, <1>11, <2>1, <2>2 DEF IsInjective
  <2>3. CASE k # 1
    <3>1. k - 1 \in 1..Len(spur) - 1 /\ (k - 1) + 1 = k
      BY <1>13, <2>3
    <3>2. Allowed(g, links, zones, spur[k - 1], spur[k])
      BY <1>11, <3>1 DEF Keeps
    <3>3. spur[k] \notin zones
      BY <3>2 DEF Allowed
    <3> DEFINE f == Front(SubSeq(p, 1, i))
    <3>4. f \in Seq(Z) /\ Len(f) = i - 1 /\ \A m \in 1..i - 1 : f[m] = p[m]
      <4> HIDE DEF Z
      <4> QED
        BY <1>6, <1>7, RootIs
    <3>5. zones = ToSet(f)
      BY <1>3 DEF RemovedNodes
    <3> HIDE DEF f
    <3>6. p[j] \in ToSet(f)
      BY <1>7, <3>4 DEF ToSet
    <3> QED
      BY <3>3, <3>5, <3>6
  <2> QED
    BY <2>2, <2>3
<1>19. IsInjective(r)
  <2> HIDE DEF Z
  <2>1. p \in Seq(Z) /\ IsInjective(p) /\ i \in 1..Len(p)
    BY <1>6, <1>7
  <2>2. spur \in Seq(Z) /\ spur # <<>> /\ IsInjective(spur)
    BY <1>1, <1>11, <1>13
  <2>3. \A j \in 1..i - 1, k \in 1..Len(spur) : spur[k] # p[j]
    BY <1>18
  <2>4. /\ r \in Seq(Z) /\ Len(r) = (i - 1) + Len(spur) /\ \A j \in 1..i : r[j] = p[j]
        /\ \A j \in 1..Len(spur) : r[(i - 1) + j] = spur[j]
    BY <1>16, <1>17
  <2> QED
    BY <2>1, <2>2, <2>3, <2>4, JoinIsInjective
<1>20. r \in Routes(g)
  BY <1>6, <1>11, <1>16, <1>17, <1>19 DEF Routes, Loopless
<1>21. Agree(p, r, i)
  <2>1. i <= Len(r)
    BY <1>7, <1>13, <1>15, <1>16
  <2> QED
    BY <1>7, <1>16, <2>1 DEF Agree
<1>22. Leaves(paths, r, i)
  <2>1. i \in 1..Len(r) - 1
    BY <1>7, <1>13, <1>15, <1>16
  <2>2. Len(paths) \in DOMAIN paths /\ paths[Len(paths)] = p
    BY <1>3 DEF Last
  <2>3. ASSUME NEW n \in DOMAIN paths, Agree(paths[n], r, i + 1) PROVE FALSE
    <3> DEFINE t == paths[n]
    <3>1. t \in Routes(g) /\ t \in ToSet(paths)
      BY DEF ToSet
    <3>2. t \in Seq(Z) /\ Len(t) \in Nat
      BY <3>1, RouteIs
    <3>3. i + 1 <= Len(t) /\ \A j \in 1..i + 1 : t[j] = r[j]
      BY <2>3 DEF Agree
    <3> HIDE DEF t
    <3>4. i \in 1..Len(t) /\ i \in 1..Len(root) /\ i + 1 \in 1..i + 1 /\ Len(t) > Len(root)
      BY <1>7, <1>8, <3>2, <3>3
    <3>5. IsPrefix(root, t)
      <4> DEFINE u == SubSeq(root, 1, i)
                 v == SubSeq(t, 1, i)
      <4> HIDE DEF Z
      <4>1. u \in Seq(Z) /\ Len(u) = i /\ \A j \in 1..i : u[j] = root[j]
        BY <1>8, <3>4, SubSeqIs
      <4>2. v \in Seq(Z) /\ Len(v) = i /\ \A j \in 1..i : v[j] = t[j]
        BY <3>2, <3>4, SubSeqIs
      <4> HIDE DEF u, v
      <4>3. \A j \in 1..i : j \in 1..i + 1
        BY <1>7
      <4>4. \A j \in 1..Len(u) : u[j] = v[j]
        <5>1. \A j \in 1..i : u[j] = p[j] /\ v[j] = r[j] /\ r[j] = p[j]
          BY <1>8, <1>16, <3>3, <4>1, <4>2, <4>3
        <5> QED
          BY <4>1, <5>1
      <4>5. u = v
        BY <4>1, <4>2, <4>4, SeqEq
      <4>6. SubSeq(root, 1, Len(root)) = SubSeq(t, 1, Len(root))
        BY <1>8, <4>5 DEF u, v
      <4>7. Len(root) <= Len(t)
        BY <1>7, <1>8, <3>2, <3>4
      <4> QED
        BY <4>6, <4>7 DEF IsPrefix
    <3>6. {Last(root), t[i + 1]} \in links
      BY <1>3, <1>8, <3>1, <3>4, <3>5 DEF BlockUsedConnections
    <3>7. Allowed(g, links, zones, spur[1], spur[2])
      <4>1. 1 \in 1..Len(spur) - 1 /\ 1 + 1 = 2
        BY <1>13, <1>15
      <4> QED
        BY <1>11, <4>1 DEF Keeps
    <3>8. spur[2] = t[i + 1]
      <4>1. 2 \in 1..Len(spur) /\ (i - 1) + 2 = i + 1
        BY <1>7, <1>13, <1>15
      <4> QED
        BY <1>16, <3>3, <3>4, <4>1
    <3>9. {spur[2], spur[1]} \in links
      <4>1. {spur[2], spur[1]} = {Last(root), t[i + 1]}
        BY <1>9, <1>11, <3>8
      <4> QED
        BY <3>6, <4>1
    <3> QED
      BY <3>7, <3>9 DEF Allowed
  <2> QED
    BY <1>21, <2>1, <2>2, <2>3 DEF Leaves
<1>23. ASSUME Admissible(g), NEW q \in Routes(g), Agree(p, q, i), Leaves(paths, q, i)
       PROVE  PathCost(g, r) <= PathCost(g, q)
  <2> DEFINE v == SubSeq(q, i, Len(q))
  <2>1. v = SubSeq(q, i, Len(q))
    OBVIOUS
  <2> HIDE DEF v
  <2>2. Suffixed(g, paths, root, p[i], q, v)
    BY <1>2, <1>3, <1>23, <2>1, SuffixKeeps
  <2>3. PathCost(g, spur) <= PathCost(g, v)
    BY <1>3, <1>12, <1>23, <2>2 DEF Suffixed
  <2>4. PathCost(g, r) = PathCost(g, root) + PathCost(g, spur)
    <3>1. Glued(root, spur, r)
      <4>1. Len(root) >= 1 /\ Len(spur) >= 1 /\ Len(r) = (Len(root) - 1) + Len(spur)
        BY <1>7, <1>8, <1>13, <1>15, <1>16
      <4>2. \A j \in 1..Len(root) : r[j] = root[j]
        BY <1>8, <1>16
      <4>3. \A j \in 1..Len(spur) : r[(Len(root) - 1) + j] = spur[j]
        <5>1. Len(root) - 1 = i - 1
          BY <1>8
        <5> QED
          BY <1>16, <5>1, Zenon
      <4> QED
        BY <4>1, <4>2, <4>3 DEF Glued
    <3> QED
      BY <1>8, <1>13, <1>17, <3>1, CostOfGlued
  <2>5. PathCost(g, spur) \in Nat
    BY <1>1, <1>13, PathCostIs
  <2> QED
    BY <2>2, <2>3, <2>4, <2>5 DEF Suffixed
<1> QED
  BY <1>5, <1>20, <1>21, <1>22, <1>23

(* Where a route leaves the paths at a zone of the last of them, there is a branch. *)
LEMMA BranchExists ==
    ASSUME NEW g, IsMap(g), Complete(g), NEW paths \in Seq(Routes(g)), paths # <<>>,
           NEW i \in 1..Len(Last(paths)) - 1,
           NEW q \in Routes(g), Agree(Last(paths), q, i), Leaves(paths, q, i)
    PROVE  Branch(g, paths, i) # <<>>
<1> DEFINE p == Last(paths)
           Z == DOMAIN g.zone
           root == SubSeq(p, 1, i)
           links == BlockUsedConnections(paths, root)
           zones == RemovedNodes(root)
           spur == FindPathAvoiding(g, Last(root), links, zones)
           v == SubSeq(q, i, Len(q))
<1>1. Branch(g, paths, i) = IF spur = <<>> THEN <<>> ELSE Joined(p, i, spur)
  BY DEF Branch, Joined
<1>2. p \in Routes(g) /\ i \in 1..Len(p) - 1 /\ Agree(p, q, i)
  BY DEF Last
<1>3. links = BlockUsedConnections(paths, root) /\ zones = RemovedNodes(root) /\ root = SubSeq(p, 1, i) /\ p = Last(paths)
      /\ v = SubSeq(q, i, Len(q))
  OBVIOUS
<1>4. spur = FindPathAvoiding(g, Last(root), links, zones)
  OBVIOUS
<1> HIDE DEF spur, links, zones, root, p, v
<1>5. Walk(g, p) /\ p \in Seq(Z) /\ Len(p) \in Nat
  BY <1>2, RouteIs
<1>6. i \in 1..Len(p) /\ i >= 1 /\ p[i] \in Z /\ i \in 1..i
  BY <1>2, <1>5
<1>7. root \in Seq(Z) /\ Len(root) = i /\ \A j \in 1..i : root[j] = p[j]
  <2> HIDE DEF Z
  <2> QED
    BY <1>3, <1>5, <1>6, SubSeqIs
<1>8. Last(root) = p[i]
  BY <1>6, <1>7 DEF Last
<1>9. Suffixed(g, paths, root, p[i], q, v)
  BY <1>2, <1>3, SuffixKeeps
<1>10. Walk(g, v) /\ v[1] = p[i] /\ Last(v) = g.end /\ Keeps(g, links, zones, v)
  BY <1>3, <1>9 DEF Suffixed
<1>11. spur # <<>>
  BY <1>4, <1>6, <1>8, <1>10, NoneMissed
<1>12. Walk(g, spur) /\ spur[1] = p[i]
  <2>1. Found(g, p[i], links, zones, spur)
    BY <1>4, <1>6, <1>8, <1>11, FoundIs
  <2> QED
    BY <2>1 DEF Found
<1>13. Walk(g, Joined(p, i, spur))
  <2>1. Joins(g, p, i, spur, Joined(p, i, spur))
    BY <1>5, <1>6, <1>12, JoinIs
  <2> QED
    BY <2>1 DEF Joins
<1> QED
  BY <1>1, <1>11, <1>13 DEF Walk

LEMMA AppendIs ==
    ASSUME NEW S, NEW c \in Seq(S), NEW x \in S
    PROVE  /\ Append(c, x) \in Seq(S) /\ Append(c, x) # <<>> /\ Len(Append(c, x)) = Len(c) + 1
           /\ Last(Append(c, x)) = x /\ ToSet(Append(c, x)) = ToSet(c) \cup {x}
           /\ \A n \in DOMAIN c : Append(c, x)[n] = c[n]
           /\ IsInjective(c) /\ x \notin ToSet(c) => IsInjective(Append(c, x))
<1> DEFINE d == Append(c, x)
<1>1. d \in Seq(S) /\ Len(d) = Len(c) + 1 /\ DOMAIN d = 1..Len(c) + 1 /\ DOMAIN c = 1..Len(c) /\ Len(c) \in Nat
  OBVIOUS
<1>2. d[Len(c) + 1] = x /\ \A n \in 1..Len(c) : d[n] = c[n]
  OBVIOUS
<1> HIDE DEF d
<1>3. d # <<>>
  BY <1>1
<1>4. Last(d) = x
  BY <1>1, <1>2 DEF Last
<1>5. ToSet(d) = ToSet(c) \cup {x}
  <2>1. ASSUME NEW n \in DOMAIN d PROVE d[n] \in ToSet(c) \cup {x}
    <3>1. n \in 1..Len(c) \/ n = Len(c) + 1
      BY <1>1
    <3> QED
      BY <1>1, <1>2, <3>1 DEF ToSet
  <2>2. ASSUME NEW n \in DOMAIN c PROVE c[n] \in ToSet(d)
    <3>1. n \in DOMAIN d /\ d[n] = c[n]
      BY <1>1, <1>2
    <3> QED
      BY <3>1 DEF ToSet
  <2>3. x \in ToSet(d)
    <3>1. Len(c) + 1 \in DOMAIN d
      BY <1>1
    <3> QED
      BY <1>2, <3>1 DEF ToSet
  <2> QED
    BY <2>1, <2>2, <2>3 DEF ToSet
<1>6. ASSUME IsInjective(c), x \notin ToSet(c) PROVE IsInjective(d)
  <2>1. ASSUME NEW a \in DOMAIN d, NEW b \in DOMAIN d, d[a] = d[b] PROVE a = b
    <3>1. (a \in DOMAIN c \/ a = Len(c) + 1) /\ (b \in DOMAIN c \/ b = Len(c) + 1)
      BY <1>1
    <3>2. \A n \in DOMAIN c : d[n] = c[n] /\ c[n] # x
      BY <1>1, <1>2, <1>6 DEF ToSet
    <3> QED
      BY <1>2, <1>6, <2>1, <3>1, <3>2 DEF IsInjective
  <2> QED
    BY <2>1 DEF IsInjective
<1> QED
  BY <1>1, <1>2, <1>3, <1>4, <1>5, <1>6 DEF d

(* A sequence without its i-th member. *)
LEMMA RemoveAtIs ==
    ASSUME NEW S, NEW c \in Seq(S), NEW i \in DOMAIN c
    PROVE  /\ RemoveAt(c, i) \in Seq(S)
           /\ IsInjective(c) => IsInjective(RemoveAt(c, i)) /\ ToSet(RemoveAt(c, i)) = ToSet(c) \ {c[i]}
<1> DEFINE n == Len(c)
           u == SubSeq(c, 1, i - 1)
           v == SubSeq(c, i + 1, n)
           r == RemoveAt(c, i)
<1>1. n \in Nat /\ i \in Nat /\ i >= 1 /\ i <= n /\ DOMAIN c = 1..n
  OBVIOUS
<1>2. u \in Seq(S) /\ Len(u) = i - 1 /\ \A j \in 1..i - 1 : u[j] = c[j]
  <2>1. u = [j \in 1..i - 1 |-> c[j]]
    BY <1>1
  <2>2. (\A j \in 1..i - 1 : c[j] \in S) /\ i - 1 \in Nat
    BY <1>1
  <2> HIDE DEF u
  <2> QED
    BY <2>1, <2>2
<1>3. v \in Seq(S) /\ Len(v) = n - i /\ \A j \in 1..n - i : v[j] = c[i + j]
  <2>1. v = [j \in 1..n - i |-> c[i + j]]
    BY <1>1
  <2>2. (\A j \in 1..n - i : c[i + j] \in S) /\ n - i \in Nat
    BY <1>1
  <2> DEFINE m == n - i
             w(j) == c[i + j]
  <2>3. m \in Nat /\ v = [j \in 1..m |-> w(j)] /\ \A j \in 1..m : w(j) \in S
    BY <2>1, <2>2
  <2> HIDE DEF v, m, w
  <2>4. v \in Seq(S) /\ Len(v) = m /\ \A j \in 1..m : v[j] = w(j)
    BY <2>3
  <2> QED
    BY <2>4 DEF m, w
<1>4. r = u \o v
  BY DEF RemoveAt
<1> HIDE DEF u, v, r
<1>5. /\ r \in Seq(S) /\ Len(r) = Len(u) + Len(v)
      /\ \A j \in 1..Len(u) : r[j] = u[j]
      /\ \A j \in 1..Len(v) : r[Len(u) + j] = v[j]
  <2>1. u \in Seq(S) /\ v \in Seq(S)
    BY <1>2, <1>3
  <2>2. /\ u \o v \in Seq(S) /\ Len(u \o v) = Len(u) + Len(v)
        /\ \A j \in 1..Len(u) : (u \o v)[j] = u[j]
        /\ \A j \in 1..Len(v) : (u \o v)[Len(u) + j] = v[j]
    BY <2>1, ConcatIs
  <2> QED
    BY <1>4, <2>2, Zenon
<1> HIDE DEF n
<1>6. DOMAIN r = 1..n - 1
  <2>1. DOMAIN r = 1..Len(r)
    BY <1>5
  <2>2. Len(r) = n - 1
    BY <1>1, <1>2, <1>3, <1>5
  <2> QED
    BY <2>1, <2>2
<1>7. ASSUME NEW j \in DOMAIN r
      PROVE  r[j] = c[IF j < i THEN j ELSE j + 1]
  <2>1. CASE j < i
    <3>1. j \in 1..i - 1
      BY <1>1, <1>6, <2>1
    <3> QED
      BY <1>2, <1>5, <2>1, <3>1
  <2>2. CASE ~(j < i)
    <3> DEFINE m == j - (i - 1)
    <3>1. m \in 1..n - i /\ (i - 1) + m = j /\ i + m = j + 1
      BY <1>1, <1>6, <2>2
    <3> HIDE DEF m
    <3>2. r[j] = v[m] /\ v[m] = c[j + 1]
      BY <1>2, <1>3, <1>5, <3>1
    <3> QED
      BY <2>2, <3>2
  <2> QED
    BY <2>1, <2>2
<1>8. ASSUME IsInjective(c) PROVE IsInjective(r)
  <2>1. ASSUME NEW a \in DOMAIN r, NEW b \in DOMAIN r, r[a] = r[b] PROVE a = b
    <3> DEFINE e(j) == IF j < i THEN j ELSE j + 1
    <3>1. e(a) \in DOMAIN c /\ e(b) \in DOMAIN c /\ (e(a) = e(b) => a = b)
      BY <1>1, <1>6
    <3>2. r[a] = c[e(a)] /\ r[b] = c[e(b)]
      BY <1>7
    <3> HIDE DEF e
    <3> QED
      BY <1>8, <2>1, <3>1, <3>2 DEF IsInjective
  <2> QED
    BY <2>1 DEF IsInjective
<1>9. ASSUME IsInjective(c) PROVE ToSet(r) = ToSet(c) \ {c[i]}
  <2>1. ASSUME NEW a \in DOMAIN r PROVE r[a] \in ToSet(c) \ {c[i]}
    <3> DEFINE b == IF a < i THEN a ELSE a + 1
    <3>1. b \in DOMAIN c /\ b # i
      BY <1>1, <1>6
    <3>2. r[a] = c[b]
      BY <1>7
    <3> HIDE DEF b
    <3> QED
      BY <1>9, <3>1, <3>2 DEF IsInjective, ToSet
  <2>2. ASSUME NEW b \in DOMAIN c, c[b] # c[i] PROVE c[b] \in ToSet(r)
    <3> DEFINE a == IF b < i THEN b ELSE b - 1
    <3>1. b \in 1..n /\ b # i
      BY <1>1, <2>2
    <3>2. a \in 1..n - 1 /\ (IF a < i THEN a ELSE a + 1) = b
      BY <1>1, <3>1
    <3> HIDE DEF a
    <3>3. a \in DOMAIN r /\ r[a] = c[b]
      BY <1>6, <1>7, <3>2
    <3> QED
      BY <3>3 DEF ToSet
  <2> QED
    BY <2>1, <2>2 DEF ToSet
<1> QED
  BY <1>5, <1>8, <1>9 DEF r

LEMMA AgreeSame ==
    ASSUME NEW p, NEW q, NEW r, NEW i, Agree(p, q, i)
    PROVE  /\ Agree(q, p, i)
           /\ Agree(q, r, i) => Agree(p, r, i)
           /\ Agree(r, q, i) => Agree(r, p, i)
BY DEF Agree

LEMMA AgreeLess ==
    ASSUME NEW p, NEW q, Len(p) \in Nat, Len(q) \in Nat, NEW i \in Nat, Agree(p, q, i + 1)
    PROVE  Agree(p, q, i)
<1>1. i + 1 <= Len(p) /\ i + 1 <= Len(q) /\ \A j \in 1..i + 1 : p[j] = q[j]
  BY DEF Agree
<1>2. i <= Len(p) /\ i <= Len(q) /\ \A j \in 1..i : j \in 1..i + 1
  BY <1>1
<1> QED
  BY <1>1, <1>2 DEF Agree


(* The cheapest routes there are come first, in the order of their costs. *)
Ordered(g, paths) ==
  Admissible(g) =>
    /\ \A n \in 2..Len(paths) : PathCost(g, paths[n - 1]) <= PathCost(g, paths[n])
    /\ \A q \in Routes(g) \ ToSet(paths) : PathCost(g, Last(paths)) <= PathCost(g, q)

(* The states of the search for further paths: no route is found twice. *)
YenStates(g) ==
  {s \in [paths : Seq(Routes(g)), candidates : Seq(Routes(g)), seen : SUBSET Routes(g)] :
     /\ s.paths # <<>> /\ IsInjective(s.paths) /\ IsInjective(s.candidates)
     /\ ToSet(s.paths) \cap ToSet(s.candidates) = {}
     /\ s.seen = ToSet(s.paths) \cup ToSet(s.candidates)
     /\ Ordered(g, s.paths)}

(* Some candidate leaves the paths together with q, and costs no more. *)
Covered(g, s, q, i) ==
  \E c \in ToSet(s.candidates) :
     /\ Agree(c, q, i) /\ Leaves(s.paths, c, i)
     /\ Admissible(g) => PathCost(g, c) <= PathCost(g, q)

(* There is one for each route that leaves the paths, unless it leaves them
   together with the last path, at a zone after the k-th. *)
Explored(g, s, k) ==
  \A q \in Routes(g), i \in Nat :
     Leaves(s.paths, q, i) /\ (~Agree(Last(s.paths), q, i) \/ i <= k) => Covered(g, s, q, i)

LEMMA YenStateIs ==
    ASSUME NEW g, NEW s \in YenStates(g)
    PROVE  /\ s = [paths |-> s.paths, candidates |-> s.candidates, seen |-> s.seen]
           /\ s.paths \in Seq(Routes(g)) /\ s.candidates \in Seq(Routes(g)) /\ s.seen \in SUBSET Routes(g)
           /\ s.paths # <<>> /\ IsInjective(s.paths) /\ IsInjective(s.candidates)
           /\ ToSet(s.paths) \cap ToSet(s.candidates) = {}
           /\ s.seen = ToSet(s.paths) \cup ToSet(s.candidates)
           /\ Ordered(g, s.paths)
           /\ Last(s.paths) \in Routes(g) /\ Last(s.paths) \in ToSet(s.paths)
           /\ Len(s.paths) \in Nat /\ Len(s.paths) >= 1 /\ Len(s.paths) \in DOMAIN s.paths
<1>1. s \in [paths : Seq(Routes(g)), candidates : Seq(Routes(g)), seen : SUBSET Routes(g)]
  BY DEF YenStates
<1>2. /\ s = [paths |-> s.paths, candidates |-> s.candidates, seen |-> s.seen]
      /\ s.paths \in Seq(Routes(g)) /\ s.candidates \in Seq(Routes(g)) /\ s.seen \in SUBSET Routes(g)
  BY <1>1
<1>3. /\ s.paths # <<>> /\ IsInjective(s.paths) /\ IsInjective(s.candidates)
      /\ ToSet(s.paths) \cap ToSet(s.candidates) = {}
      /\ s.seen = ToSet(s.paths) \cup ToSet(s.candidates)
      /\ Ordered(g, s.paths)
  BY Zenon DEF YenStates
<1>4. Len(s.paths) \in Nat /\ Len(s.paths) >= 1 /\ Len(s.paths) \in DOMAIN s.paths
  BY <1>2, <1>3
<1>5. Last(s.paths) \in Routes(g) /\ Last(s.paths) \in ToSet(s.paths)
  BY <1>2, <1>4 DEF Last, ToSet
<1> QED
  BY <1>2, <1>3, <1>4, <1>5

LEMMA YenStateMade ==
    ASSUME NEW g, NEW paths \in Seq(Routes(g)), NEW candidates \in Seq(Routes(g)), NEW seen \in SUBSET Routes(g),
           paths # <<>>, IsInjective(paths), IsInjective(candidates),
           ToSet(paths) \cap ToSet(candidates) = {}, seen = ToSet(paths) \cup ToSet(candidates),
           Ordered(g, paths)
    PROVE  [paths |-> paths, candidates |-> candidates, seen |-> seen] \in YenStates(g)
<1> DEFINE s == [paths |-> paths, candidates |-> candidates, seen |-> seen]
<1>1. s \in [paths : Seq(Routes(g)), candidates : Seq(Routes(g)), seen : SUBSET Routes(g)]
  OBVIOUS
<1>2. s.paths = paths /\ s.candidates = candidates /\ s.seen = seen
  OBVIOUS
<1> HIDE DEF s
<1>3. s \in YenStates(g)
  BY <1>1, <1>2, Zenon DEF YenStates
<1> QED
  BY <1>3 DEF s

(* A branch becomes a candidate, unless it was seen before. *)
Offered(g, s, total, t) ==
  /\ t \in YenStates(g) /\ t.paths = s.paths
  /\ ToSet(s.candidates) \subseteq ToSet(t.candidates)
  /\ total # <<>> /\ total \notin ToSet(s.paths) => total \in ToSet(t.candidates)

LEMMA OfferedIs ==
    ASSUME NEW g, NEW s \in YenStates(g), NEW total, total = <<>> \/ total \in Routes(g)
    PROVE  Offered(g, s, total, WithCandidate(s, total))
<1>1. /\ s = [paths |-> s.paths, candidates |-> s.candidates, seen |-> s.seen]
      /\ s.paths \in Seq(Routes(g)) /\ s.candidates \in Seq(Routes(g)) /\ s.seen \in SUBSET Routes(g)
      /\ s.paths # <<>> /\ IsInjective(s.paths) /\ IsInjective(s.candidates)
      /\ ToSet(s.paths) \cap ToSet(s.candidates) = {}
      /\ s.seen = ToSet(s.paths) \cup ToSet(s.candidates)
      /\ Ordered(g, s.paths)
  BY YenStateIs
<1>2. CASE total = <<>> \/ total \in s.seen
  <2>1. WithCandidate(s, total) = s
    BY <1>2 DEF WithCandidate
  <2> QED
    BY <1>1, <1>2, <2>1 DEF Offered
<1>3. CASE ~(total = <<>> \/ total \in s.seen)
  <2>1. total \in Routes(g) /\ total \notin ToSet(s.candidates) /\ total \notin ToSet(s.paths)
    BY <1>1, <1>3
  <2> DEFINE more == Append(s.candidates, total)
             seen == s.seen \cup {total}
             t == [paths |-> s.paths, candidates |-> more, seen |-> seen]
  <2>2. more \in Seq(Routes(g)) /\ ToSet(more) = ToSet(s.candidates) \cup {total} /\ IsInjective(more)
    BY <1>1, <2>1, AppendIs
  <2>3. seen \in SUBSET Routes(g)
    BY <1>1, <2>1
  <2>4. WithCandidate(s, total) = [s EXCEPT !.candidates = more, !.seen = seen]
    BY <1>3 DEF WithCandidate
  <2> HIDE DEF more
  <2>5. seen = ToSet(s.paths) \cup ToSet(more) /\ ToSet(s.paths) \cap ToSet(more) = {}
    BY <1>1, <2>1, <2>2
  <2> HIDE DEF seen
  <2>6. WithCandidate(s, total) = t
    BY <1>1, <2>4
  <2>7. t \in YenStates(g)
    BY <1>1, <2>2, <2>3, <2>5, YenStateMade
  <2>8. t.paths = s.paths /\ t.candidates = more
    OBVIOUS
  <2> HIDE DEF t
  <2> QED
    BY <2>2, <2>6, <2>7, <2>8 DEF Offered
<1> QED
  BY <1>2, <1>3

(* The i-th round of the loop covers the routes that leave the last path at its
   i-th zone. *)
LEMMA ExploredMore ==
    ASSUME NEW g, IsMap(g), Complete(g), NEW s \in YenStates(g), NEW i \in 1..Len(Last(s.paths)) - 1,
           Explored(g, s, i - 1), NEW t, t = WithCandidate(s, Branch(g, s.paths, i))
    PROVE  t \in YenStates(g) /\ t.paths = s.paths /\ Explored(g, t, i)
<1> DEFINE r == Branch(g, s.paths, i)
<1>1. s.paths \in Seq(Routes(g)) /\ s.paths # <<>>
  BY YenStateIs
<1>2. r = <<>> \/ Branches(g, s.paths, i, r)
  BY <1>1, BranchIs
<1>3. r = <<>> \/ r \in Routes(g)
  BY <1>2 DEF Branches
<1>4. t = WithCandidate(s, r)
  OBVIOUS
<1>5. ASSUME NEW q \in Routes(g), Agree(Last(s.paths), q, i), Leaves(s.paths, q, i) PROVE r # <<>>
  BY <1>1, <1>5, BranchExists
<1> HIDE DEF r
<1>6. Offered(g, s, r, t)
  BY <1>3, <1>4, OfferedIs
<1>7. /\ t \in YenStates(g) /\ t.paths = s.paths /\ ToSet(s.candidates) \subseteq ToSet(t.candidates)
      /\ r # <<>> /\ r \notin ToSet(s.paths) => r \in ToSet(t.candidates)
  BY <1>6 DEF Offered
<1>8. ASSUME NEW q \in Routes(g), NEW j \in Nat, Leaves(s.paths, q, j),
             ~Agree(Last(s.paths), q, j) \/ j <= i
      PROVE  Covered(g, t, q, j)
  <2>1. CASE ~Agree(Last(s.paths), q, j) \/ j <= i - 1
    <3>1. Covered(g, s, q, j)
      BY <1>8, <2>1 DEF Explored
    <3> QED
      BY <1>7, <3>1 DEF Covered
  <2>2. CASE Agree(Last(s.paths), q, j) /\ ~(j <= i - 1)
    <3>1. j = i
      BY <1>8, <2>2
    <3>2. Agree(Last(s.paths), q, i) /\ Leaves(s.paths, q, i)
      BY <1>8, <2>2, <3>1
    <3>3. r # <<>> /\ Branches(g, s.paths, i, r)
      BY <1>2, <1>5, <3>2
    <3>4. r \in Routes(g) /\ Agree(Last(s.paths), r, i) /\ Leaves(s.paths, r, i)
          /\ (Admissible(g) => PathCost(g, r) <= PathCost(g, q))
      BY <3>2, <3>3 DEF Branches
    <3>5. Agree(r, q, i)
      BY <3>2, <3>4, AgreeSame
    <3>6. r \notin ToSet(s.paths)
      <4>1. Len(r) \in Nat
        BY <3>4, RouteIs
      <4>2. Agree(r, r, i + 1)
        BY <3>4, <4>1 DEF Agree, Leaves
      <4> QED
        BY <3>4, <4>2 DEF Leaves, ToSet
    <3>7. r \in ToSet(t.candidates)
      BY <1>7, <3>3, <3>6
    <3>8. Covered(g, t, q, i)
      BY <1>7, <3>4, <3>5, <3>7 DEF Covered
    <3> QED
      BY <3>1, <3>8
  <2> QED
    BY <2>1, <2>2
<1>9. Explored(g, t, i)
  BY <1>7, <1>8 DEF Explored
<1> QED
  BY <1>7, <1>9

(* After the last round of the loop all routes that are left are covered. *)
LEMMA AllExplored ==
    ASSUME NEW g, IsMap(g), Complete(g), NEW s \in YenStates(g), Explored(g, s, Len(Last(s.paths)) - 1),
           NEW q \in Routes(g), NEW i \in Nat, Leaves(s.paths, q, i)
    PROVE  Covered(g, s, q, i)
<1> DEFINE p == Last(s.paths)
<1>1. p \in Routes(g)
  BY YenStateIs
<1>2. Len(p) \in Nat /\ Len(q) \in Nat
  BY <1>1, RouteIs
<1>3. ASSUME Agree(p, q, i), ~(i <= Len(p) - 1) PROVE FALSE
  <2>1. i = Len(p)
    BY <1>2, <1>3 DEF Agree
  <2>2. Agree(q, p, Len(p))
    BY <1>3, <2>1, AgreeSame
  <2>3. q = p
    BY <1>1, <2>2, SameRoute
  <2> QED
    BY <1>2, <2>1, <2>3 DEF Leaves
<1> QED
  BY <1>3 DEF Explored

(* The cheapest candidate becomes the next path; the others stay candidates, and
   cover what they did. *)
LEMMA PathAdded ==
    ASSUME NEW g, IsMap(g), Complete(g), NEW s \in YenStates(g), Explored(g, s, Len(Last(s.paths)) - 1),
           NEW best \in DOMAIN s.candidates,
           \A j \in DOMAIN s.candidates : PathCost(g, s.candidates[best]) <= PathCost(g, s.candidates[j]),
           NEW t, t = [paths |-> Append(s.paths, s.candidates[best]),
                       candidates |-> RemoveAt(s.candidates, best), seen |-> s.seen]
    PROVE  t \in YenStates(g) /\ Explored(g, t, 0)
<1> DEFINE x == s.candidates[best]
           paths == Append(s.paths, x)
           rest == RemoveAt(s.candidates, best)
<1>1. /\ s.paths \in Seq(Routes(g)) /\ s.candidates \in Seq(Routes(g)) /\ s.seen \in SUBSET Routes(g)
      /\ s.paths # <<>> /\ IsInjective(s.paths) /\ IsInjective(s.candidates)
      /\ ToSet(s.paths) \cap ToSet(s.candidates) = {}
      /\ s.seen = ToSet(s.paths) \cup ToSet(s.candidates)
      /\ Ordered(g, s.paths)
      /\ Last(s.paths) \in Routes(g) /\ Last(s.paths) \in ToSet(s.paths)
      /\ Len(s.paths) \in Nat /\ Len(s.paths) >= 1 /\ Len(s.paths) \in DOMAIN s.paths
  BY YenStateIs
<1>2. x \in Routes(g) /\ x \in ToSet(s.candidates) /\ x \notin ToSet(s.paths)
  BY <1>1 DEF ToSet
<1>3. \A c \in ToSet(s.candidates) : PathCost(g, x) <= PathCost(g, c)
  BY DEF ToSet
<1>4. t = [paths |-> paths, candidates |-> rest, seen |-> s.seen]
  OBVIOUS
<1>5. t.paths = paths /\ t.candidates = rest
  BY <1>4
<1>6. rest \in Seq(Routes(g)) /\ IsInjective(rest) /\ ToSet(rest) = ToSet(s.candidates) \ {x}
  BY <1>1, RemoveAtIs
<1> HIDE DEF x, rest
<1>7. /\ paths \in Seq(Routes(g)) /\ paths # <<>> /\ Len(paths) = Len(s.paths) + 1
      /\ Last(paths) = x /\ ToSet(paths) = ToSet(s.paths) \cup {x}
      /\ \A n \in DOMAIN s.paths : paths[n] = s.paths[n]
      /\ IsInjective(paths)
  BY <1>1, <1>2, AppendIs
<1> HIDE DEF paths
<1>8. DOMAIN paths = 1..Len(s.paths) + 1 /\ DOMAIN s.paths = 1..Len(s.paths) /\ paths[Len(s.paths) + 1] = x
  BY <1>1, <1>7 DEF Last
<1>9. ASSUME NEW q \in Routes(g), q \notin ToSet(s.paths), Admissible(g)
      PROVE  PathCost(g, x) <= PathCost(g, q)
  <2>1. PICK i : Leaves(s.paths, q, i)
    BY <1>1, <1>9, LeavesSomewhere
  <2>2. i \in Nat
    <3>1. Len(q) \in Nat
      BY RouteIs
    <3> QED
      BY <2>1, <3>1 DEF Leaves
  <2>3. Covered(g, s, q, i)
    BY <2>1, <2>2, AllExplored
  <2>4. PICK c \in ToSet(s.candidates) : PathCost(g, c) <= PathCost(g, q)
    BY <1>9, <2>3 DEF Covered
  <2>5. c \in Routes(g)
    BY <1>1 DEF ToSet
  <2>6. PathCost(g, x) \in Nat /\ PathCost(g, c) \in Nat /\ PathCost(g, q) \in Nat
    BY <1>2, <2>5, RouteIs
  <2>7. PathCost(g, x) <= PathCost(g, c)
    BY <1>3
  <2> QED
    BY <2>4, <2>6, <2>7
<1>10. Ordered(g, paths)
  <2> SUFFICES ASSUME Admissible(g)
               PROVE  /\ \A n \in 2..Len(paths) : PathCost(g, paths[n - 1]) <= PathCost(g, paths[n])
                      /\ \A q \in Routes(g) \ ToSet(paths) : PathCost(g, Last(paths)) <= PathCost(g, q)
    BY DEF Ordered
  <2>1. /\ \A n \in 2..Len(s.paths) : PathCost(g, s.paths[n - 1]) <= PathCost(g, s.paths[n])
        /\ \A q \in Routes(g) \ ToSet(s.paths) : PathCost(g, Last(s.paths)) <= PathCost(g, q)
    BY <1>1 DEF Ordered
  <2>2. ASSUME NEW n \in 2..Len(paths) PROVE PathCost(g, paths[n - 1]) <= PathCost(g, paths[n])
    <3>1. CASE n = Len(s.paths) + 1
      <4>1. n - 1 = Len(s.paths) /\ paths[n] = x
        BY <1>1, <1>8, <3>1
      <4>2. paths[n - 1] = Last(s.paths)
        BY <1>1, <1>7, <4>1 DEF Last
      <4> QED
        BY <1>2, <2>1, <4>1, <4>2
    <3>2. CASE n # Len(s.paths) + 1
      <4>1. n \in 2..Len(s.paths) /\ n \in DOMAIN s.paths /\ n - 1 \in DOMAIN s.paths
        BY <1>1, <1>7, <1>8, <3>2
      <4> QED
        BY <1>7, <2>1, <4>1
    <3> QED
      BY <3>1, <3>2
  <2>3. ASSUME NEW q \in Routes(g) \ ToSet(paths) PROVE PathCost(g, Last(paths)) <= PathCost(g, q)
    BY <1>7, <1>9
  <2> QED
    BY <2>2, <2>3
<1>11. ToSet(paths) \cap ToSet(rest) = {} /\ s.seen = ToSet(paths) \cup ToSet(rest)
  BY <1>1, <1>2, <1>6, <1>7
<1>12. t \in YenStates(g)
  <2> DEFINE u == s.seen
             w == [paths |-> paths, candidates |-> rest, seen |-> u]
  <2>1. u \in SUBSET Routes(g) /\ u = ToSet(paths) \cup ToSet(rest) /\ t = w
    BY <1>1, <1>4, <1>11
  <2> HIDE DEF u
  <2>2. w \in YenStates(g)
    BY <1>6, <1>7, <1>10, <1>11, <2>1, YenStateMade
  <2> QED
    BY <2>1, <2>2, Zenon
(* Where a route leaves the paths with one of the old ones, it left these there. *)
<1>13. ASSUME NEW q, NEW i, ~Agree(x, q, i) PROVE Leaves(paths, q, i) <=> Leaves(s.paths, q, i) /\ ~Agree(x, q, i + 1)
  <2>1. \A n \in DOMAIN paths : paths[n] = x \/ (n \in DOMAIN s.paths /\ paths[n] = s.paths[n])
    BY <1>1, <1>7, <1>8
  <2>2. \A n \in DOMAIN s.paths : n \in DOMAIN paths /\ paths[n] = s.paths[n]
    BY <1>1, <1>7, <1>8
  <2>3. Len(s.paths) + 1 \in DOMAIN paths
    BY <1>1, <1>8
  <2> QED
    BY <1>8, <1>13, <2>1, <2>2, <2>3 DEF Leaves
<1>14. ASSUME NEW q \in Routes(g), NEW i \in Nat, Leaves(paths, q, i), ~Agree(x, q, i)
       PROVE  Covered(g, t, q, i)
  <2>1. Leaves(s.paths, q, i)
    BY <1>13, <1>14
  <2>2. Covered(g, s, q, i)
    BY <2>1, AllExplored
  <2>3. PICK c \in ToSet(s.candidates) :
          /\ Agree(c, q, i) /\ Leaves(s.paths, c, i)
          /\ Admissible(g) => PathCost(g, c) <= PathCost(g, q)
    BY <2>2 DEF Covered
  <2>4. c \in Routes(g)
    BY <1>1 DEF ToSet
  <2>5. ~Agree(x, c, i)
    BY <1>14, <2>3, AgreeSame
  <2>6. c \in ToSet(rest)
    <3>1. Agree(c, c, i)
      BY <2>3 DEF Agree
    <3> QED
      BY <1>6, <2>5, <3>1
  <2>7. ~Agree(x, c, i + 1)
    <3>1. Len(x) \in Nat /\ Len(c) \in Nat
      BY <1>2, <2>4, RouteIs
    <3> QED
      BY <2>5, <3>1, AgreeLess
  <2>8. Leaves(paths, c, i)
    BY <1>13, <2>3, <2>5, <2>7
  <2> QED
    BY <1>5, <2>3, <2>6, <2>8 DEF Covered
<1>15. Explored(g, t, 0)
  <2>1. ASSUME NEW q \in Routes(g), NEW i \in Nat, Leaves(paths, q, i) PROVE ~(i <= 0)
    BY <2>1 DEF Leaves
  <2> QED
    BY <1>5, <1>7, <1>14, <2>1 DEF Explored
<1> QED
  BY <1>12, <1>15

(* Each further round of Yen's algorithm adds the next route, or there is none. *)
NextOk(g, s, t) ==
  /\ t \in YenStates(g) /\ Explored(g, t, 0)
  /\ \/ t.paths = s.paths /\ ToSet(s.paths) = Routes(g)
     \/ Len(t.paths) = Len(s.paths) + 1 /\ ToSet(s.paths) # Routes(g)

LEMMA NextPathIs ==
    ASSUME NEW g, IsMap(g), Complete(g), NEW s \in YenStates(g), Explored(g, s, 0)
    PROVE  NextOk(g, s, NextPath(g, s))
<1> DEFINE hops == Len(Last(s.paths)) - 1
           K == {t \in YenStates(g) : t.paths = s.paths}
           h == [i \in 1..hops |-> [t \in K |-> WithCandidate(t, Branch(g, s.paths, i))]]
           T == CHOOSE T : T = [i \in 0..hops |->
                  IF i = 0 THEN s ELSE WithCandidate(T[i - 1], Branch(g, s.paths, i))]
           t == T[hops]
           best == Cheapest(g, t.candidates)
<1>1. NextPath(g, s) =
        IF t.candidates = <<>> THEN t
        ELSE [t EXCEPT !.paths = Append(t.paths, t.candidates[best]),
                       !.candidates = RemoveAt(t.candidates, best)]
  BY DEF NextPath
<1>2. s \in K /\ s.paths \in Seq(Routes(g)) /\ s.paths # <<>>
  BY YenStateIs
<1>3. hops \in Nat
  <2>1. Last(s.paths) \in Routes(g)
    BY YenStateIs
  <2>2. Len(Last(s.paths)) \in Nat /\ Len(Last(s.paths)) >= 2
    BY <2>1, RouteIs
  <2> QED
    BY <2>2
<1>4. \A i \in 1..hops : \A r \in K : WithCandidate(r, Branch(g, s.paths, i)) \in K
  <2> TAKE i \in 1..hops
  <2> TAKE r \in K
  <2> DEFINE b == Branch(g, s.paths, i)
  <2>1. b = <<>> \/ Branches(g, s.paths, i, b)
    BY <1>2, BranchIs
  <2>2. r \in YenStates(g) /\ r.paths = s.paths
    OBVIOUS
  <2> HIDE DEF b
  <2>3. b = <<>> \/ b \in Routes(g)
    BY <2>1 DEF Branches
  <2>4. Offered(g, r, b, WithCandidate(r, b))
    BY <2>2, <2>3, OfferedIs
  <2>5. WithCandidate(r, b) \in YenStates(g) /\ WithCandidate(r, b).paths = s.paths
    BY <2>2, <2>4 DEF Offered
  <2> QED
    BY <2>5 DEF b
<1>5. h \in [1..hops -> [K -> K]] /\ \A i \in 1..hops : \A r \in K :
        h[i][r] = WithCandidate(r, Branch(g, s.paths, i))
  BY <1>4
<1> HIDE DEF h
<1>6. \A r : r \in K <=> r \in YenStates(g) /\ r.paths = s.paths
  OBVIOUS
<1>7. hops = Len(Last(s.paths)) - 1
  OBVIOUS
<1> HIDE DEF K, hops
<1>8. PICK f : Iterates(f, hops, s, h, K)
  BY <1>2, <1>3, <1>5, IteratesExists
<1>9. f = [i \in 0..hops |-> IF i = 0 THEN s ELSE WithCandidate(f[i - 1], Branch(g, s.paths, i))]
  <2>1. \A i \in 0..hops : i # 0 => i \in 1..hops /\ i - 1 \in 0..hops
    BY <1>3
  <2> QED
    BY <1>5, <1>8, <2>1 DEF Iterates
<1>10. T = [i \in 0..hops |-> IF i = 0 THEN s ELSE WithCandidate(T[i - 1], Branch(g, s.paths, i))]
  BY <1>9
<1> HIDE DEF T
<1>11. /\ T = [i \in 0..hops |-> T[i]] /\ T[0] = s
       /\ \A i \in 1..hops : T[i] = WithCandidate(T[i - 1], Branch(g, s.paths, i))
  <2> DEFINE u(i) == IF i = 0 THEN s ELSE WithCandidate(T[i - 1], Branch(g, s.paths, i))
  <2>1. T = [i \in 0..hops |-> u(i)]
    BY <1>10
  <2> HIDE DEF u
  <2>2. T = [i \in 0..hops |-> T[i]] /\ \A i \in 0..hops : T[i] = u(i)
    BY <2>1
  <2>3. 0 \in 0..hops /\ \A i \in 1..hops : i \in 0..hops /\ i # 0
    BY <1>3
  <2> QED
    BY <2>2, <2>3, Zenon DEF u
<1>12. Iterates(T, hops, s, h, K)
  <2>1. \A i \in 1..hops : T[i - 1] \in K => T[i] = h[i][T[i - 1]]
    BY <1>5, <1>11
  <2>2. T = [i \in 0..hops |-> T[i]] /\ T[0] = s /\ s \in K /\ hops \in Nat /\ h \in [1..hops -> [K -> K]]
    BY <1>2, <1>3, <1>5, <1>11
  <2> QED
    BY <2>1, <2>2, IteratesIs
<1>13. \A i \in 0..hops : T[i] \in YenStates(g) /\ T[i].paths = s.paths
  BY <1>6, <1>12 DEF Iterates
<1> DEFINE N == {i \in Nat : i <= hops => Explored(g, T[i], i)}
<1>14. N = Nat
  <2>1. 0 \in N
    BY <1>11
  <2>2. ASSUME NEW i \in N PROVE i + 1 \in N
    <3> SUFFICES ASSUME i + 1 <= hops PROVE Explored(g, T[i + 1], i + 1)
      OBVIOUS
    <3>1. i \in Nat /\ i \in 0..hops /\ i + 1 \in 1..hops /\ (i + 1) - 1 = i
      BY <1>3
    <3>2. Explored(g, T[i], (i + 1) - 1) /\ T[i] \in YenStates(g) /\ T[i].paths = s.paths
      BY <1>13, <3>1
    <3>3. T[i + 1] = WithCandidate(T[i], Branch(g, T[i].paths, i + 1))
      BY <1>11, <3>1, <3>2
    <3>4. i + 1 \in 1..Len(Last(T[i].paths)) - 1
      BY <1>7, <3>1, <3>2
    <3> QED
      BY <3>2, <3>3, <3>4, ExploredMore
  <2> HIDE DEF N
  <2>3. N \in SUBSET Nat
    BY DEF N
  <2> QED
    BY <2>1, <2>2, <2>3, NatSteps
<1>15. hops \in 0..hops
  BY <1>3
<1>16. t \in YenStates(g) /\ t.paths = s.paths /\ Explored(g, t, Len(Last(t.paths)) - 1)
  <2>1. t \in YenStates(g) /\ t.paths = s.paths
    BY <1>13, <1>15
  <2>2. hops \in N
    BY <1>3, <1>14
  <2>3. Explored(g, t, hops)
    BY <1>3, <2>2
  <2> HIDE DEF t
  <2> QED
    BY <1>7, <2>1, <2>3
<1> HIDE DEF t
<1>17. /\ t = [paths |-> t.paths, candidates |-> t.candidates, seen |-> t.seen]
       /\ t.paths \in Seq(Routes(g)) /\ t.candidates \in Seq(Routes(g)) /\ t.seen \in SUBSET Routes(g)
       /\ t.paths # <<>> /\ ToSet(t.paths) \cap ToSet(t.candidates) = {}
  BY <1>16, YenStateIs
<1>18. CASE t.candidates = <<>>
  <2>1. NextPath(g, s) = t
    BY <1>1, <1>18
  <2>2. ToSet(t.candidates) = {}
    BY <1>18 DEF ToSet
  <2>3. ASSUME NEW q \in Routes(g), NEW i \in Nat, Leaves(t.paths, q, i) PROVE FALSE
    <3>1. Covered(g, t, q, i)
      BY <1>16, <2>3, AllExplored
    <3> QED
      BY <2>2, <3>1 DEF Covered
  <2>4. Explored(g, t, 0)
    BY <2>3 DEF Explored
  <2>5. ASSUME NEW q \in Routes(g), q \notin ToSet(t.paths) PROVE FALSE
    <3>1. PICK i : Leaves(t.paths, q, i)
      BY <1>17, <2>5, LeavesSomewhere
    <3>2. Len(q) \in Nat
      BY RouteIs
    <3>3. i \in Nat
      BY <3>1, <3>2 DEF Leaves
    <3> QED
      BY <2>3, <3>1, <3>3
  <2>6. ToSet(t.paths) = Routes(g)
    <3>1. ToSet(t.paths) \subseteq Routes(g)
      BY <1>17 DEF ToSet
    <3> QED
      BY <2>5, <3>1
  <2> QED
    BY <1>16, <2>1, <2>4, <2>6 DEF NextOk
<1>19. CASE t.candidates # <<>>
  <2>1. best \in DOMAIN t.candidates
        /\ \A j \in DOMAIN t.candidates : PathCost(g, t.candidates[best]) <= PathCost(g, t.candidates[j])
    BY <1>17, <1>19, CheapestIs
  <2> HIDE DEF best
  <2> DEFINE x == t.candidates[best]
             paths == Append(t.paths, x)
             rest == RemoveAt(t.candidates, best)
             v == [paths |-> paths, candidates |-> rest, seen |-> t.seen]
  <2>2. NextPath(g, s) = [t EXCEPT !.paths = paths, !.candidates = rest]
    BY <1>1, <1>19
  <2>3. x \in Routes(g) /\ x \in ToSet(t.candidates)
    BY <1>17, <2>1 DEF ToSet
  <2>4. v \in YenStates(g) /\ Explored(g, v, 0)
    BY <1>16, <2>1, PathAdded
  <2> HIDE DEF x, rest
  <2>5. Len(paths) = Len(t.paths) + 1
    BY <1>17, <2>3
  <2>6. x \notin ToSet(s.paths)
    BY <1>16, <1>17, <2>3
  <2> HIDE DEF paths
  <2>7. NextPath(g, s) = v
    BY <1>17, <2>2
  <2>8. v.paths = paths
    OBVIOUS
  <2> HIDE DEF v
  <2> QED
    BY <1>16, <2>3, <2>4, <2>5, <2>6, <2>7, <2>8 DEF NextOk
<1> QED
  BY <1>18, <1>19

(* What find_k_shortest_paths returns: distinct routes, the cheapest ones in the
   order of their costs, as many as were asked for or all there are. *)
Ranked(g, k, found) ==
  /\ found \in Seq(Routes(g)) /\ found # <<>> /\ IsInjective(found) /\ Ordered(g, found)
  /\ Len(found) = k \/ (Len(found) < k /\ ToSet(found) = Routes(g))

LEMMA FindKIs ==
    ASSUME NEW g, IsMap(g), HasRoute(g), NEW k \in Nat \ {0}
    PROVE  Ranked(g, k, FindKShortestPaths(g, k))
<1> DEFINE first == FindPath(g)
           a == [paths |-> <<first>>, candidates |-> <<>>, seen |-> {first}]
           m == k - 1
           K == {s \in YenStates(g) : Explored(g, s, 0)}
           h == [n \in 1..m |-> [s \in K |-> NextPath(g, s)]]
           P == CHOOSE P : P = [n \in 0..k - 1 |->
                  IF n = 0 THEN [paths |-> <<first>>, candidates |-> <<>>, seen |-> {first}]
                  ELSE NextPath(g, P[n - 1])]
<1>1. FindKShortestPaths(g, k) = IF first = <<>> THEN <<>> ELSE P[k - 1].paths
  BY DEF FindKShortestPaths
<1>2. Complete(g) /\ g.start \in DOMAIN g.zone
  BY DEF HasRoute, Complete, IsMap
<1>3. first # <<>> /\ Found(g, g.start, {}, {}, first)
  <2>1. first # <<>>
    BY RouteFound
  <2>2. first = FindPathAvoiding(g, g.start, {}, {})
    BY DEF FindPath
  <2> HIDE DEF first
  <2> QED
    BY <1>2, <2>1, <2>2, FoundIs
<1> HIDE DEF first
<1>4. first \in Routes(g)
  <2>1. Walk(g, first) /\ first[1] = g.start /\ Last(first) = g.end /\ IsInjective(first)
    BY <1>3 DEF Found
  <2> QED
    BY <2>1 DEF Routes, Loopless, Walk
<1>5. ASSUME Admissible(g), NEW q \in Routes(g) PROVE PathCost(g, first) <= PathCost(g, q)
  <2>1. Walk(g, q) /\ q \in Seq(DOMAIN g.zone) /\ q[1] = g.start /\ Last(q) = g.end
    BY <1>2, RouteIs
  <2>2. Keeps(g, {}, {}, q)
    BY <2>1 DEF Keeps, Allowed, Walk
  <2>3. Near(g, q)
    <3>1. q \in SimplePaths(g)
      BY <1>2, RoutesAreSimplePaths
    <3>2. DOMAIN q = 1..Len(q)
      BY <2>1
    <3> QED
      BY <1>5, <3>1, <3>2 DEF Admissible, Near
  <2> QED
    BY <1>3, <2>1, <2>2, <2>3 DEF Found
<1>6. a \in YenStates(g) /\ Explored(g, a, 0) /\ Len(a.paths) = 1
  <2> DEFINE one == <<first>>
             set == {first}
             none == <<>>
  <2>1. one \in Seq(Routes(g)) /\ one # <<>> /\ Len(one) = 1 /\ one[1] = first /\ DOMAIN one = {1}
    BY <1>4, OneAlone
  <2>2. none \in Seq(Routes(g)) /\ DOMAIN none = {}
    OBVIOUS
  <2>3. set \in SUBSET Routes(g)
    BY <1>4
  <2>4. ToSet(one) = {first} /\ ToSet(none) = {} /\ Last(one) = first
    BY <2>1, <2>2 DEF ToSet, Last
  <2>5. IsInjective(one) /\ IsInjective(none)
    BY <2>1, <2>2 DEF IsInjective
  <2>6. ToSet(one) \cap ToSet(none) = {} /\ set = ToSet(one) \cup ToSet(none)
    BY <2>4
  <2> HIDE DEF one, set, none
  <2>7. Ordered(g, one)
    <3>1. 2..Len(one) = {}
      BY <2>1
    <3> QED
      BY <1>5, <2>4, <3>1 DEF Ordered
  <2> DEFINE b == [paths |-> one, candidates |-> none, seen |-> set]
  <2>8. b \in YenStates(g)
    BY <2>1, <2>2, <2>3, <2>5, <2>6, <2>7, YenStateMade
  <2>9. b.paths = one
    OBVIOUS
  <2>10. a = b
    BY DEF one, none, set
  <2> HIDE DEF a, b
  <2>11. Explored(g, b, 0)
    <3>1. ASSUME NEW q \in Routes(g), NEW i \in Nat, Leaves(one, q, i),
                 ~Agree(Last(one), q, i) \/ i <= 0
          PROVE  FALSE
      <4>1. i >= 1 /\ Agree(first, q, i)
        BY <2>1, <3>1 DEF Leaves
      <4> QED
        BY <2>4, <3>1, <4>1
    <3> QED
      BY <2>9, <3>1 DEF Explored
  <2> QED
    BY <2>1, <2>8, <2>9, <2>10, <2>11
<1>7. \A s \in K : NextPath(g, s) \in K /\ NextOk(g, s, NextPath(g, s))
  <2> TAKE s \in K
  <2>1. NextOk(g, s, NextPath(g, s))
    BY <1>2, NextPathIs
  <2> QED
    BY <2>1 DEF NextOk
<1>8. h \in [1..m -> [K -> K]] /\ \A n \in 1..m : \A s \in K : h[n][s] = NextPath(g, s)
  BY <1>7
<1>9. m \in Nat /\ k - 1 = m /\ a \in K
  BY <1>6
<1>10. \A s \in K : s \in YenStates(g)
  OBVIOUS
<1> HIDE DEF h, K, a
<1>11. PICK f : Iterates(f, m, a, h, K)
  BY <1>8, <1>9, IteratesExists
<1>12. f = [n \in 0..m |-> IF n = 0 THEN a ELSE NextPath(g, f[n - 1])]
  <2>1. \A n \in 0..m : n # 0 => n \in 1..m /\ n - 1 \in 0..m
    BY <1>9
  <2> HIDE DEF m
  <2> QED
    BY <1>8, <1>11, <2>1 DEF Iterates
<1>13. f = [n \in 0..k - 1 |->
              IF n = 0 THEN [paths |-> <<first>>, candidates |-> <<>>, seen |-> {first}]
              ELSE NextPath(g, f[n - 1])]
  BY <1>12, Zenon DEF a
<1>14. P = [n \in 0..m |-> IF n = 0 THEN a ELSE NextPath(g, P[n - 1])]
  BY <1>13, Zenon DEF a
<1> HIDE DEF P, m
<1>15. P = [n \in 0..m |-> P[n]] /\ P[0] = a /\ \A n \in 1..m : P[n] = NextPath(g, P[n - 1])
  <2> DEFINE u(n) == IF n = 0 THEN a ELSE NextPath(g, P[n - 1])
  <2>1. P = [n \in 0..m |-> u(n)]
    BY <1>14
  <2> HIDE DEF u
  <2>2. P = [n \in 0..m |-> P[n]] /\ \A n \in 0..m : P[n] = u(n)
    BY <2>1
  <2>3. 0 \in 0..m /\ \A n \in 1..m : n \in 0..m /\ n # 0
    BY <1>9
  <2> QED
    BY <2>2, <2>3, Zenon DEF u
<1>16. Iterates(P, m, a, h, K)
  <2>1. \A n \in 1..m : P[n - 1] \in K => P[n] = h[n][P[n - 1]]
    BY <1>8, <1>15
  <2>2. P = [n \in 0..m |-> P[n]] /\ P[0] = a /\ a \in K /\ m \in Nat /\ h \in [1..m -> [K -> K]]
    BY <1>8, <1>9, <1>15
  <2> QED
    BY <2>1, <2>2, IteratesIs
<1>17. \A n \in 0..m : P[n] \in K
  BY <1>16 DEF Iterates
(* How many there are after n rounds. *)
<1> DEFINE Count(n) == \/ Len(P[n].paths) = n + 1
                       \/ Len(P[n].paths) < n + 1 /\ ToSet(P[n].paths) = Routes(g)
           N == {n \in Nat : n <= m => Count(n)}
<1>18. N = Nat
  <2>1. 0 \in N
    BY <1>6, <1>15
  <2>2. ASSUME NEW n \in N PROVE n + 1 \in N
    <3> SUFFICES ASSUME n + 1 <= m PROVE Count(n + 1)
      OBVIOUS
    <3>1. n \in Nat /\ n \in 0..m /\ n + 1 \in 1..m /\ (n + 1) - 1 = n
      BY <1>9
    <3> DEFINE s == P[n]
               t == P[n + 1]
    <3>2. t = NextPath(g, s)
      BY <1>15, <3>1
    <3>3. NextOk(g, s, t)
      BY <1>7, <1>17, <3>1, <3>2
    <3>4. s \in YenStates(g)
      BY <1>10, <1>17, <3>1
    <3>5. Len(s.paths) = n + 1 \/ (Len(s.paths) < n + 1 /\ ToSet(s.paths) = Routes(g))
      BY <3>1
    <3> HIDE DEF s, t
    <3>6. Len(s.paths) \in Nat
      BY <3>4, YenStateIs
    <3>7. Len(t.paths) = (n + 1) + 1 \/ (Len(t.paths) < (n + 1) + 1 /\ ToSet(t.paths) = Routes(g))
      <4>1. CASE t.paths = s.paths /\ ToSet(s.paths) = Routes(g)
        <5>1. Len(s.paths) < (n + 1) + 1
          BY <3>1, <3>5, <3>6
        <5> QED
          BY <4>1, <5>1
      <4>2. CASE Len(t.paths) = Len(s.paths) + 1 /\ ToSet(s.paths) # Routes(g)
        BY <3>5, <4>2
      <4> QED
        BY <3>3, <4>1, <4>2 DEF NextOk
    <3> QED
      BY <3>7 DEF t
  <2> HIDE DEF N
  <2>3. N \in SUBSET Nat
    BY DEF N
  <2> QED
    BY <2>1, <2>2, <2>3, NatSteps
<1> DEFINE r == P[m]
<1>19. Len(r.paths) = m + 1 \/ (Len(r.paths) < m + 1 /\ ToSet(r.paths) = Routes(g))
  <2>1. m \in N
    BY <1>9, <1>18
  <2> QED
    BY <1>9, <2>1
<1>20. r \in YenStates(g)
  BY <1>9, <1>10, <1>17
<1>21. FindKShortestPaths(g, k) = r.paths
  BY <1>1, <1>3, <1>9
<1>22. m + 1 = k
  BY <1>9
<1> HIDE DEF r
<1>23. r.paths \in Seq(Routes(g)) /\ r.paths # <<>> /\ IsInjective(r.paths) /\ Ordered(g, r.paths)
  BY <1>20, YenStateIs
<1> QED
  BY <1>19, <1>21, <1>22, <1>23 DEF Ranked

-----------------------------------------------------------------------------
(* The flight.                                                             *)

InState(z) == {d \in Drones : at[d] = z}

(* The hops behind the drones. *)
Done == {h \in Hops : h[2] < idx[h[1]]}

(* Somebody is spending a turn in a restricted zone. *)
Waiting == \E d \in Drones : ~delivered[d] /\ transit[d] > 0

Flying ==
  /\ graph.drones \in Nat \ {0}
  /\ path \in [1..graph.drones -> Routes(graph)]
  /\ idx \in [1..graph.drones -> Nat] /\ at \in [1..graph.drones -> DOMAIN graph.zone]
  /\ transit \in [1..graph.drones -> {0, 1}] /\ delivered \in [1..graph.drones -> BOOLEAN]
  /\ \A d \in 1..graph.drones :
       /\ idx[d] \in 1..Len(path[d]) /\ at[d] = path[d][idx[d]]
       /\ delivered[d] <=> at[d] = graph.end
  /\ occ = [z \in DOMAIN graph.zone |-> Cardinality(InState(z))]
  /\ usage \in [DOMAIN graph.link -> Nat] /\ \A l \in DOMAIN graph.link : usage[l] <= Cardinality(Drones)
  /\ LinkCapacityRespected
  /\ turn \in 0..MaxTurns
  (* Of two turns one brings somebody a hop further. *)
  /\ turn <= 2 * Cardinality(Done)
  /\ Waiting => turn + 1 <= 2 * Cardinality(Done)

Waits == path = <<>> /\ occ = <<>> /\ usage = <<>> /\ turn = 0

FlightInv == MapInv /\ (IF stage = "flight" THEN Flying ELSE Waits)

LEMMA DronesAre ==
    ASSUME Flying
    PROVE  /\ Drones = 1..graph.drones /\ Len(path) = graph.drones /\ graph.drones \in Nat
           /\ IsFiniteSet(Drones) /\ Cardinality(Drones) = graph.drones
<1>1. Drones = 1..graph.drones /\ graph.drones \in Nat /\ path \in [1..graph.drones -> Routes(graph)]
  BY DEF Flying, Drones
<1>2. Len(path) = graph.drones
  BY <1>1
<1>3. IsFiniteSet(1..graph.drones) /\ Cardinality(1..graph.drones) = graph.drones
  BY <1>1, Upto
<1> QED
  BY <1>1, <1>2, <1>3

LEMMA HopsFinite ==
    ASSUME Flying
    PROVE  IsFiniteSet(Hops)
<1> DEFINE f == [d \in Drones |-> {d} \X (1..Len(path[d]) - 1)]
           R == {f[d] : d \in Drones}
<1>1. IsFiniteSet(Drones)
  BY DronesAre
<1>2. \A d \in Drones : IsFiniteSet(f[d])
  <2> TAKE d \in Drones
  <2>1. path[d] \in Routes(graph)
    BY DronesAre DEF Flying
  <2>2. Len(path[d]) \in Nat /\ Len(path[d]) - 1 \in Nat
    BY <2>1 DEF Routes, Loopless, Walk
  <2> DEFINE n == Len(path[d]) - 1
  <2>3. IsFiniteSet(1..n)
    BY <2>2, Upto
  <2>4. IsFiniteSet({d})
    BY FS_Singleton
  <2>5. f[d] = {d} \X (1..n)
    OBVIOUS
  <2> HIDE DEF n, f
  <2>6. IsFiniteSet({d} \X (1..n))
    BY <2>3, <2>4, FS_Product
  <2> QED
    BY <2>5, <2>6
<1>3. f \in Surjection(Drones, R)
  BY DEF Surjection
<1>4. UNION R = Hops
  BY DEF Hops
<1> HIDE DEF f
<1>5. \A T \in R : IsFiniteSet(T)
  BY <1>2
<1> HIDE DEF R
<1>6. IsFiniteSet(R)
  BY <1>1, <1>3, FS_Surjection
<1> QED
  BY <1>4, <1>5, <1>6, FS_UNION

LEMMA DoneFinite ==
    ASSUME Flying
    PROVE  /\ IsFiniteSet(Done) /\ Cardinality(Done) \in Nat /\ Cardinality(Hops) \in Nat
           /\ Cardinality(Done) <= Cardinality(Hops)
<1>1. Done \in SUBSET Hops
  BY DEF Done
<1>2. IsFiniteSet(Hops)
  BY HopsFinite
<1> QED
  BY <1>1, <1>2, FS_Subset, FS_CardinalityType

(* Where a drone that is not delivered goes next. *)
LEMMA AheadIs ==
    ASSUME MapInv, stage = "flight", Flying, NEW d \in Drones, idx[d] < Len(path[d])
    PROVE  /\ Target(d) \in DOMAIN graph.zone /\ Link(d) \in DOMAIN graph.link
           /\ Accessible(graph, Target(d)) /\ idx[d] + 1 \in 1..Len(path[d])
<1>1. path[d] \in Routes(graph) /\ idx[d] \in 1..Len(path[d]) /\ at[d] = path[d][idx[d]]
  BY DronesAre DEF Flying
<1>2. /\ path[d] \in Seq(DOMAIN graph.zone)
      /\ \A i \in 1..Len(path[d]) - 1 : Move(graph, path[d][i], path[d][i + 1])
  BY <1>1 DEF Routes, Loopless, Walk
<1>3. idx[d] \in 1..Len(path[d]) - 1 /\ idx[d] + 1 \in 1..Len(path[d])
  BY <1>1, <1>2
<1>4. Move(graph, at[d], Target(d))
  BY <1>1, <1>2, <1>3 DEF Target
<1>5. {at[d], Target(d)} = {Target(d), at[d]}
  OBVIOUS
<1> QED
  BY <1>3, <1>4, <1>5 DEF Move, Neighbours, Link

LEMMA NotThere ==
    ASSUME MapInv, stage = "flight", Flying, NEW d \in Drones, ~delivered[d]
    PROVE  idx[d] < Len(path[d])
<1>1. path[d] \in Routes(graph) /\ idx[d] \in 1..Len(path[d]) /\ at[d] = path[d][idx[d]] /\ at[d] # graph.end
  BY DronesAre DEF Flying
<1>2. path[d][Len(path[d])] = graph.end /\ Len(path[d]) \in Nat
  BY <1>1 DEF Routes, Loopless, Walk, Last
<1> QED
  BY <1>1, <1>2

-----------------------------------------------------------------------------
(* What is approved in a turn.                                             *)

Consider(d, before) ==
  IF d \in Movers /\ ZoneFree(d, before) /\ LinkFree(d, before) THEN before \cup {d} ELSE before

OneByOne(A) ==
  /\ A \in [0..Len(path) -> SUBSET Drones] /\ A[0] = {} /\ Approved = A[Len(path)]
  /\ \A d \in 1..Len(path) : A[d] = Consider(d, A[d - 1])

LEMMA ApprovedIs ==
    ASSUME Flying
    PROVE  \E A : OneByOne(A)
<1> DEFINE N == Len(path)
           S == SUBSET Drones
           h == [d \in 1..N |-> [before \in S |-> Consider(d, before)]]
           A == CHOOSE A : A = [d \in 0..N |->
                  IF d = 0 THEN {}
                  ELSE LET before == A[d - 1]
                       IN  IF d \in Movers /\ ZoneFree(d, before) /\ LinkFree(d, before)
                           THEN before \cup {d} ELSE before]
<1>1. Approved = A[N]
  BY DEF Approved
<1>2. N \in Nat /\ {} \in S /\ Drones = 1..N
  BY DronesAre
<1>3. \A d \in 1..N : \A before \in S : Consider(d, before) \in S
  BY <1>2 DEF Consider
<1>4. h \in [1..N -> [S -> S]] /\ \A d \in 1..N : \A before \in S : h[d][before] = Consider(d, before)
  BY <1>3
<1> HIDE DEF h, S, N
<1>5. PICK f : Iterates(f, N, {}, h, S)
  BY <1>2, <1>4, IteratesExists
<1>6. f = [d \in 0..N |-> IF d = 0 THEN {} ELSE Consider(d, f[d - 1])]
  <2>1. \A d \in 0..N : d # 0 => d \in 1..N /\ d - 1 \in 0..N
    BY <1>2
  <2> QED
    BY <1>4, <1>5, <2>1 DEF Iterates
<1>7. f = [d \in 0..N |->
             IF d = 0 THEN {}
             ELSE LET before == f[d - 1]
                  IN  IF d \in Movers /\ ZoneFree(d, before) /\ LinkFree(d, before)
                      THEN before \cup {d} ELSE before]
  BY <1>6, Zenon DEF Consider
<1>8. A = [d \in 0..N |-> IF d = 0 THEN {} ELSE Consider(d, A[d - 1])]
  BY <1>7, Zenon DEF Consider
<1> HIDE DEF A
<1>9. A = [d \in 0..N |-> A[d]] /\ A[0] = {} /\ \A d \in 1..N : A[d] = Consider(d, A[d - 1])
  <2> DEFINE u(d) == IF d = 0 THEN {} ELSE Consider(d, A[d - 1])
  <2>1. A = [d \in 0..N |-> u(d)]
    BY <1>8
  <2> HIDE DEF u
  <2>2. A = [d \in 0..N |-> A[d]] /\ \A d \in 0..N : A[d] = u(d)
    BY <2>1
  <2>3. 0 \in 0..N /\ \A d \in 1..N : d \in 0..N /\ d # 0
    BY <1>2
  <2> QED
    BY <2>2, <2>3, Zenon DEF u
<1>10. Iterates(A, N, {}, h, S)
  <2>1. \A d \in 1..N : A[d - 1] \in S => A[d] = h[d][A[d - 1]]
    BY <1>4, <1>9
  <2> QED
    BY <2>1, <1>2, <1>4, <1>9, IteratesIs
<1>11. A \in [0..N -> S]
  BY <1>10 DEF Iterates
<1> QED
  BY <1>1, <1>9, <1>11 DEF N, S, OneByOne

(* Only drones that intend to move do, and no more on a connection than it holds. *)
LEMMA ApprovedOk ==
    ASSUME MapInv, stage = "flight", Flying
    PROVE  /\ Approved \subseteq Movers
           /\ \A l \in DOMAIN graph.link : Cardinality({d \in Approved : Link(d) = l}) <= graph.link[l]
<1> PICK A : OneByOne(A)
  BY ApprovedIs
<1> DEFINE N == Len(path)
           On(set, l) == {d \in set : Link(d) = l}
<1>1. /\ A \in [0..N -> SUBSET Drones] /\ A[0] = {} /\ Approved = A[N]
      /\ \A d \in 1..N : A[d] = Consider(d, A[d - 1])
  BY DEF OneByOne
<1>2. N \in Nat /\ IsFiniteSet(Drones)
  BY DronesAre
<1>3. \A l \in DOMAIN graph.link : graph.link[l] \in Nat
  BY DEF MapInv, IsMap
<1> HIDE DEF N
<1> DEFINE Ok(set) == set \subseteq Movers /\ \A l \in DOMAIN graph.link : Cardinality(On(set, l)) <= graph.link[l]
           T == {k \in Nat : k <= N => Ok(A[k])}
<1>4. 0 \in T
  <2>1. \A l \in DOMAIN graph.link : On(A[0], l) = {}
    BY <1>1
  <2> HIDE DEF On
  <2>2. \A l \in DOMAIN graph.link : Cardinality(On(A[0], l)) <= graph.link[l]
    BY <1>3, <2>1, FS_EmptySet
  <2> QED
    BY <1>1, <2>2
<1>5. ASSUME NEW k \in T PROVE k + 1 \in T
  <2> SUFFICES ASSUME k + 1 <= N PROVE Ok(A[k + 1])
    BY <1>5
  <2>1. k \in Nat /\ k <= N /\ k + 1 \in 1..N /\ (k + 1) - 1 = k /\ k \in 0..N
    BY <1>2
  <2> DEFINE d == k + 1
             set == A[k]
  <2>2. Ok(set) /\ A[d] = Consider(d, set) /\ set \in SUBSET Drones
    BY <1>1, <2>1
  <2> HIDE DEF T, d, set
  <2>3. CASE ~(d \in Movers /\ ZoneFree(d, set) /\ LinkFree(d, set))
    BY <2>2, <2>3 DEF Consider, d
  <2>4. CASE d \in Movers /\ ZoneFree(d, set) /\ LinkFree(d, set)
    <3>1. A[d] = set \cup {d} /\ A[d] \subseteq Movers
      BY <2>2, <2>4 DEF Consider
    <3>2. ASSUME NEW l \in DOMAIN graph.link PROVE Cardinality(On(A[d], l)) <= graph.link[l]
      <4>1. IsFiniteSet(On(set, l)) /\ Cardinality(On(set, l)) \in Nat
        <5>1. On(set, l) \in SUBSET Drones
          BY <2>2
        <5> HIDE DEF On
        <5> QED
          BY <1>2, <5>1, FS_Subset, FS_CardinalityType
      <4>2. CASE Link(d) = l
        <5>1. On(A[d], l) = On(set, l) \cup {d} /\ Cardinality(On(set, l)) < graph.link[l]
          BY <2>4, <3>1, <4>2 DEF LinkFree
        <5> HIDE DEF On
        <5>2. Cardinality(On(set, l) \cup {d}) = IF d \in On(set, l) THEN Cardinality(On(set, l))
                                                ELSE Cardinality(On(set, l)) + 1
          BY <4>1, FS_AddElement
        <5>3. Cardinality(On(set, l) \cup {d}) <= graph.link[l]
          BY <1>3, <4>1, <5>1, <5>2
        <5> QED
          BY <5>1, <5>3
      <4>3. CASE Link(d) # l
        <5>1. On(A[d], l) = On(set, l)
          BY <3>1, <4>3
        <5> QED
          BY <2>2, <5>1
      <4> QED
        BY <4>2, <4>3
    <3> QED
      BY <3>1, <3>2 DEF d
  <2> QED
    BY <2>3, <2>4
<1>6. T \in SUBSET Nat
  OBVIOUS
<1> HIDE DEF T
<1>7. N \in T
  BY <1>2, <1>4, <1>5, <1>6, NatSteps
<1> QED
  BY <1>1, <1>2, <1>7 DEF T

(* When nobody is held by a restricted zone, whoever is not delivered intends to
   move; of these the first is approved, since all who stand in its way leave. *)
LEMMA SomebodyMoves ==
    ASSUME MapInv, stage = "flight", Flying, ~AllDelivered, ~Waiting
    PROVE  Approved # {}
<1> PICK A : OneByOne(A)
  BY ApprovedIs
<1> DEFINE N == Len(path)
<1>1. /\ A \in [0..N -> SUBSET Drones] /\ A[0] = {} /\ Approved = A[N]
      /\ \A d \in 1..N : A[d] = Consider(d, A[d - 1])
  BY DEF OneByOne
<1>2. N \in Nat /\ Drones = 1..N
  BY DronesAre
<1> HIDE DEF N
<1>3. \A d \in Drones : ~delivered[d] <=> d \in Movers
  <2> TAKE d \in Drones
  <2>1. ASSUME ~delivered[d] PROVE d \in Movers
    <3>1. idx[d] < Len(path[d])
      BY <2>1, NotThere
    <3>2. Link(d) \in DOMAIN graph.link /\ Accessible(graph, Target(d))
      BY <3>1, AheadIs
    <3>3. transit[d] \in {0, 1} /\ ~(transit[d] > 0)
      BY <2>1, DronesAre DEF Flying, Waiting
    <3>4. transit[d] = 0
      BY <3>3
    <3> QED
      BY <2>1, <3>1, <3>2, <3>4 DEF Movers
  <2> QED
    BY <2>1 DEF Movers
<1>4. PICK m \in Movers : \A d \in Movers : m <= d
  <2>1. Movers \in SUBSET Nat
    BY <1>2 DEF Movers
  <2>2. Movers # {}
    BY <1>3 DEF AllDelivered
  <2> QED
    BY <2>1, <2>2, NatMin
<1>5. m \in 1..N /\ m \in Drones
  BY <1>2, <1>4 DEF Movers
<1> DEFINE T == {k \in Nat : k < m => A[k] = {}}
<1>6. 0 \in T
  BY <1>1
<1>7. ASSUME NEW k \in T PROVE k + 1 \in T
  <2> SUFFICES ASSUME k + 1 < m PROVE A[k + 1] = {}
    BY <1>7
  <2>1. k \in Nat /\ k < m /\ k + 1 \in 1..N /\ (k + 1) - 1 = k
    BY <1>2, <1>5
  <2>2. ~(m <= k + 1)
    BY <1>5, <2>1
  <2>3. k + 1 \notin Movers
    BY <1>4, <2>2
  <2>4. A[k + 1] = Consider(k + 1, A[k]) /\ A[k] = {}
    BY <1>1, <2>1
  <2> QED
    BY <2>3, <2>4 DEF Consider
<1>8. T \in SUBSET Nat
  OBVIOUS
<1> HIDE DEF T
<1>9. m - 1 \in T
  <2>1. m - 1 \in Nat
    BY <1>5
  <2> QED
    BY <1>6, <1>7, <1>8, <2>1, NatSteps
<1>10. A[m - 1] = {}
  BY <1>5, <1>9 DEF T
<1>11. ~delivered[m] /\ idx[m] < Len(path[m])
  BY <1>4 DEF Movers
<1>12. Target(m) \in DOMAIN graph.zone /\ Link(m) \in DOMAIN graph.link
  BY <1>5, <1>11, AheadIs
<1>13. ZoneFree(m, {})
  <2> DEFINE z == Target(m)
  <2>1. CASE z = graph.end
    BY <2>1 DEF ZoneFree
  <2>2. CASE z # graph.end
    <3>1. \A d \in Drones : at[d] = z => d \in Movers
      <4> TAKE d \in Drones
      <4>1. delivered[d] <=> at[d] = graph.end
        BY DronesAre DEF Flying
      <4> QED
        BY <1>3, <2>2, <4>1
    <3>2. InState(z) = {d \in Movers : at[d] = z}
      BY <3>1 DEF InState, Movers
    <3>3. Leaving(z) = Cardinality(InState(z))
      BY <3>2 DEF Leaving
    <3>4. occ[z] = Cardinality(InState(z))
      BY <1>12 DEF Flying
    <3>5. graph.zone[z].cap \in Nat \ {0}
      BY <1>12 DEF MapInv, IsMap, ZoneData
    <3>6. Cardinality(InState(z)) \in Nat
      <4>1. InState(z) \in SUBSET Drones
        BY DEF InState
      <4> QED
        BY <4>1, DronesAre, FS_Subset, FS_CardinalityType
    <3>7. Room(z) = graph.zone[z].cap - occ[z] + Leaving(z)
      BY DEF Room
    <3>8. Room(z) > 0
      BY <3>3, <3>4, <3>5, <3>6, <3>7
    <3>9. {e \in {} : Target(e) = z} = {}
      OBVIOUS
    <3>10. Cardinality({e \in {} : Target(e) = z}) = 0
      BY <3>9, FS_EmptySet
    <3> QED
      BY <3>8, <3>10 DEF ZoneFree
  <2> QED
    BY <2>1, <2>2
<1>14. LinkFree(m, {})
  <2>1. graph.link[Link(m)] \in Nat \ {0}
    BY <1>12 DEF MapInv, IsMap
  <2>2. {e \in {} : Link(e) = Link(m)} = {}
    OBVIOUS
  <2>3. Cardinality({e \in {} : Link(e) = Link(m)}) = 0
    BY <2>2, FS_EmptySet
  <2> QED
    BY <2>1, <2>3 DEF LinkFree
<1>15. m \in A[m]
  BY <1>1, <1>4, <1>5, <1>10, <1>13, <1>14 DEF Consider
<1> DEFINE U == {k \in Nat : k <= N - m => m \in A[m + k]}
<1>16. 0 \in U
  BY <1>5, <1>15
<1>17. ASSUME NEW k \in U PROVE k + 1 \in U
  <2> SUFFICES ASSUME k + 1 <= N - m PROVE m \in A[m + (k + 1)]
    BY <1>17
  <2>1. /\ k \in Nat /\ k <= N - m /\ m + (k + 1) \in 1..N /\ (m + (k + 1)) - 1 = m + k
    BY <1>2, <1>5
  <2>2. m \in A[m + k] /\ A[m + (k + 1)] = Consider(m + (k + 1), A[m + k])
    BY <1>1, <2>1
  <2> QED
    BY <2>2 DEF Consider
<1>18. U \in SUBSET Nat
  OBVIOUS
<1> HIDE DEF U
<1>19. N - m \in U /\ N - m \in Nat /\ m + (N - m) = N
  <2>1. N - m \in Nat /\ m + (N - m) = N
    BY <1>2, <1>5
  <2> QED
    BY <1>16, <1>17, <1>18, <2>1, NatSteps
<1>20. m \in A[N]
  <2>1. N - m <= N - m
    BY <1>19
  <2> QED
    BY <1>19, <2>1 DEF U
<1> QED
  BY <1>1, <1>20

(* Who leaves a zone is taken off its counter, who comes is added to it. *)
LEMMA CountIs ==
    ASSUME NEW S, IsFiniteSet(S), NEW L, L \subseteq S, NEW C, IsFiniteSet(C), C \cap (S \ L) = {}
    PROVE  Cardinality((S \ L) \cup C) = Cardinality(S) - Cardinality(L) + Cardinality(C)
<1>1. S \cap L = L /\ (S \ L) \cap C = {}
  OBVIOUS
<1>2. IsFiniteSet(S \ L) /\ Cardinality(S \ L) = Cardinality(S) - Cardinality(S \cap L)
  BY FS_Difference
<1>3. Cardinality((S \ L) \cup C) = Cardinality(S \ L) + Cardinality(C) - Cardinality((S \ L) \cap C)
  BY <1>2, FS_Union
<1>4. Cardinality((S \ L) \cap C) = 0
  BY <1>1, FS_EmptySet
<1>5. Cardinality(S \ L) = Cardinality(S) - Cardinality(L)
  BY <1>1, <1>2
<1>6. Cardinality(S) \in Nat /\ Cardinality(S \ L) \in Nat /\ Cardinality(C) \in Nat
  BY <1>2, FS_CardinalityType
<1> QED
  BY <1>3, <1>4, <1>5, <1>6

-----------------------------------------------------------------------------
(* The steps of the flight.                                                *)

LEMMA TakeOffFlies ==
    ASSUME MapInv, MapInv', TakeOff, turn = 0
    PROVE  Flying'
<1> DEFINE N == graph.drones
           found == FindKShortestPaths(graph, N)
           to(d) == IF found = <<>> THEN <<graph.start>> ELSE found[((d - 1) % Len(found)) + 1]
<1>1. /\ IsMap(graph) /\ HasRoute(graph) /\ graph' = graph /\ turn' = 0
      /\ path' = [d \in 1..N |-> to(d)]
      /\ at' = [d \in 1..N |-> graph.start] /\ idx' = [d \in 1..N |-> 1]
      /\ transit' = [d \in 1..N |-> 0] /\ delivered' = [d \in 1..N |-> FALSE]
      /\ occ' = [z \in DOMAIN graph.zone |-> IF z = graph.start THEN N ELSE 0]
      /\ usage' = [l \in DOMAIN graph.link |-> 0]
  BY DEF TakeOff, MapInv
<1>2. N \in Nat \ {0} /\ graph.start \in DOMAIN graph.zone /\ graph.start # graph.end
  BY <1>1 DEF HasRoute, Complete, IsMap
<1>3. found \in Seq(Routes(graph)) /\ found # <<>>
  <2>1. Ranked(graph, N, found)
    BY <1>1, <1>2, FindKIs
  <2> QED
    BY <2>1 DEF Ranked
<1> HIDE DEF found, N
<1>4. ASSUME NEW d \in 1..N PROVE to(d) \in Routes(graph)
  <2>1. d - 1 \in Nat /\ Len(found) \in Nat /\ Len(found) > 0
    BY <1>2, <1>3
  <2>2. \A x, n \in Nat : n > 0 => (x % n) + 1 \in 1..n
    OBVIOUS
  <2>3. ((d - 1) % Len(found)) + 1 \in 1..Len(found)
    BY <2>1, <2>2
  <2> QED
    BY <1>3, <2>3
<1>5. \A p \in Routes(graph) : p[1] = graph.start /\ 1 \in 1..Len(p)
  BY DEF Routes, Loopless, Walk
<1>6. path' \in [1..N -> Routes(graph)]
  BY <1>1, <1>4
<1>7. Drones' = 1..N /\ IsFiniteSet(1..N) /\ Cardinality(1..N) = N
  <2>1. Drones' = DOMAIN path'
    BY DEF Drones
  <2> QED
    BY <1>1, <1>2, <2>1, Upto
<1>8. ASSUME NEW d \in 1..N
      PROVE  /\ idx'[d] \in 1..Len(path'[d]) /\ at'[d] = path'[d][idx'[d]]
             /\ delivered'[d] <=> at'[d] = graph.end
  <2>1. path'[d] \in Routes(graph) /\ idx'[d] = 1 /\ at'[d] = graph.start
    BY <1>1, <1>6
  <2>2. ~delivered'[d]
    BY <1>1
  <2> QED
    BY <1>2, <1>5, <2>1, <2>2
<1>9. occ' = [z \in DOMAIN graph.zone |-> Cardinality(InState(z)')]
  <2>1. ASSUME NEW z \in DOMAIN graph.zone PROVE Cardinality(InState(z)') = IF z = graph.start THEN N ELSE 0
    <3>1. InState(z)' = {d \in 1..N : at'[d] = z}
      BY <1>7 DEF InState
    <3>2. CASE z = graph.start
      <4>1. InState(z)' = 1..N
        BY <1>1, <3>1, <3>2
      <4> QED
        BY <1>7, <3>2, <4>1
    <3>3. CASE z # graph.start
      <4>1. InState(z)' = {}
        BY <1>1, <3>1, <3>3
      <4> QED
        BY <3>3, <4>1, FS_EmptySet
    <3> QED
      BY <3>2, <3>3
  <2> QED
    BY <1>1, <2>1
<1>10. /\ usage' \in [DOMAIN graph.link -> Nat] /\ LinkCapacityRespected'
       /\ \A l \in DOMAIN graph.link : usage'[l] <= Cardinality(Drones')
  <2>1. \A l \in DOMAIN graph.link : usage'[l] = 0 /\ graph.link[l] \in Nat
    BY <1>1 DEF IsMap
  <2>2. usage' \in [DOMAIN graph.link -> Nat] /\ DOMAIN usage' = DOMAIN graph.link
    BY <1>1
  <2>3. LinkCapacityRespected'
    BY <1>1, <2>1, <2>2 DEF LinkCapacityRespected
  <2> QED
    BY <1>2, <1>7, <2>1, <2>2, <2>3
<1>11. Done' = {}
  <2>1. ASSUME NEW h \in Done' PROVE FALSE
    <3>1. h \in Hops' /\ h[2] < idx'[h[1]]
      BY <2>1 DEF Done
    <3>2. PICK d \in 1..N : h \in {d} \X (1..Len(path'[d]) - 1)
      BY <1>7, <3>1 DEF Hops
    <3>3. h[1] = d /\ h[2] \in 1..Len(path'[d]) - 1 /\ idx'[d] = 1
      BY <1>1, <3>2
    <3>4. path'[d] \in Routes(graph)
      BY <1>6
    <3>5. Len(path'[d]) \in Nat
      BY <3>4 DEF Routes, Loopless, Walk
    <3> QED
      BY <3>1, <3>3, <3>5
  <2> QED
    BY <2>1
<1>12. Cardinality(Done') = 0
  BY <1>11, FS_EmptySet
<1>13. ~Waiting'
  <2>1. \A d \in 1..N : ~(transit'[d] > 0)
    BY <1>1
  <2> QED
    BY <1>7, <2>1 DEF Waiting
<1>14. /\ idx' \in [1..N -> Nat] /\ at' \in [1..N -> DOMAIN graph.zone]
       /\ transit' \in [1..N -> {0, 1}] /\ delivered' \in [1..N -> BOOLEAN]
  <2>1. idx' \in [1..N -> Nat] /\ transit' \in [1..N -> {0, 1}]
    BY <1>1
  <2>2. at' \in [1..N -> DOMAIN graph.zone]
    BY <1>1, <1>2
  <2>3. delivered' \in [1..N -> BOOLEAN]
    BY <1>1
  <2> QED
    BY <2>1, <2>2, <2>3
<1>15. turn' \in 0..MaxTurns /\ turn' <= 2 * Cardinality(Done')
  BY <1>1, <1>12, ConstantsAssumption
<1>16. graph'.drones = N /\ graph' = graph
  BY <1>1 DEF N
<1> QED
  BY <1>2, <1>6, <1>8, <1>9, <1>10, <1>13, <1>14, <1>15, <1>16 DEF Flying

(* A turn moves exactly the drones approved. *)
LEMMA TurnFlies ==
    ASSUME MapInv, Flying, Turn
    PROVE  Flying'
<1> DEFINE N == graph.drones
           moves == Approved
<1>1. /\ stage = "flight" /\ ~AllDelivered /\ turn < MaxTurns /\ turn' = turn + 1
      /\ graph' = graph /\ path' = path
      /\ at' = [d \in Drones |-> IF d \in moves THEN Target(d) ELSE at[d]]
      /\ idx' = [d \in Drones |-> IF d \in moves THEN idx[d] + 1 ELSE idx[d]]
      /\ transit' = [d \in Drones |-> InTransit(d, moves)]
      /\ delivered' = [d \in Drones |-> delivered[d] \/ (d \in moves /\ Target(d) = graph.end)]
      /\ occ' = [z \in DOMAIN occ |-> Occupancy(z, moves)]
      /\ usage' = [l \in DOMAIN usage |-> Cardinality({d \in moves : Link(d) = l})]
  BY DEF Turn
<1>2. /\ Drones = 1..N /\ N \in Nat /\ IsFiniteSet(Drones) /\ Cardinality(Drones) = N
      /\ Drones' = 1..N
  <2>1. Drones' = DOMAIN path' /\ Drones = DOMAIN path
    BY DEF Drones
  <2> QED
    BY <1>1, <2>1, DronesAre
<1>3. /\ moves \subseteq Movers
      /\ \A l \in DOMAIN graph.link : Cardinality({d \in moves : Link(d) = l}) <= graph.link[l]
  BY <1>1, ApprovedOk
<1>4. ~AllDelivered /\ ~Waiting => moves # {}
  BY <1>1, SomebodyMoves
<1> HIDE DEF moves, N
<1>5. \A d \in moves : d \in Drones /\ ~delivered[d] /\ idx[d] < Len(path[d])
  BY <1>3 DEF Movers
<1>6. \A d \in moves : Target(d) \in DOMAIN graph.zone /\ idx[d] + 1 \in 1..Len(path[d])
  BY <1>1, <1>5, AheadIs
<1>7. /\ N \in Nat \ {0} /\ path \in [1..N -> Routes(graph)]
      /\ idx \in [1..N -> Nat] /\ at \in [1..N -> DOMAIN graph.zone]
      /\ transit \in [1..N -> {0, 1}] /\ delivered \in [1..N -> BOOLEAN]
      /\ \A d \in 1..N : /\ idx[d] \in 1..Len(path[d]) /\ at[d] = path[d][idx[d]]
                         /\ delivered[d] <=> at[d] = graph.end
      /\ occ = [z \in DOMAIN graph.zone |-> Cardinality(InState(z))]
      /\ usage \in [DOMAIN graph.link -> Nat]
      /\ turn \in 0..MaxTurns /\ turn <= 2 * Cardinality(Done)
      /\ Waiting => turn + 1 <= 2 * Cardinality(Done)
  BY DEF Flying, N
<1>8. /\ idx' \in [1..N -> Nat] /\ at' \in [1..N -> DOMAIN graph.zone]
  <2>1. \A d \in 1..N : (IF d \in moves THEN idx[d] + 1 ELSE idx[d]) \in Nat
    BY <1>7
  <2>2. \A d \in 1..N : (IF d \in moves THEN Target(d) ELSE at[d]) \in DOMAIN graph.zone
    BY <1>6, <1>7
  <2> QED
    BY <1>1, <1>2, <2>1, <2>2
<1>9. transit' \in [1..N -> {0, 1}] /\ delivered' \in [1..N -> BOOLEAN]
  <2>1. \A d \in 1..N : InTransit(d, moves) \in {0, 1}
    BY <1>7 DEF InTransit
  <2>2. transit' \in [1..N -> {0, 1}]
    BY <1>1, <1>2, <2>1
  <2>3. delivered' \in [1..N -> BOOLEAN]
    BY <1>1, <1>2
  <2> QED
    BY <2>2, <2>3
<1>10. ASSUME NEW d \in 1..N
       PROVE  /\ idx'[d] \in 1..Len(path[d]) /\ at'[d] = path[d][idx'[d]]
              /\ delivered'[d] <=> at'[d] = graph.end
  <2>1. /\ at'[d] = IF d \in moves THEN Target(d) ELSE at[d]
        /\ idx'[d] = IF d \in moves THEN idx[d] + 1 ELSE idx[d]
        /\ delivered'[d] <=> delivered[d] \/ (d \in moves /\ Target(d) = graph.end)
    BY <1>1, <1>2
  <2>2. CASE d \in moves
    <3>1. idx'[d] \in 1..Len(path[d]) /\ at'[d] = path[d][idx'[d]]
      BY <1>6, <2>1, <2>2 DEF Target
    <3>2. delivered'[d] <=> at'[d] = graph.end
      BY <1>5, <2>1, <2>2
    <3> QED
      BY <3>1, <3>2
  <2>3. CASE d \notin moves
    <3>1. idx'[d] = idx[d] /\ at'[d] = at[d] /\ (delivered'[d] <=> delivered[d])
      BY <2>1, <2>3
    <3>2. /\ idx[d] \in 1..Len(path[d]) /\ at[d] = path[d][idx[d]]
          /\ delivered[d] <=> at[d] = graph.end
      BY <1>7
    <3> QED
      BY <3>1, <3>2
  <2> QED
    BY <2>2, <2>3
<1>11. occ' = [z \in DOMAIN graph.zone |-> Cardinality(InState(z)')]
  <2>1. ASSUME NEW z \in DOMAIN graph.zone PROVE Occupancy(z, moves) = Cardinality(InState(z)')
    <3> DEFINE S == InState(z)
               L == {d \in moves : at[d] = z}
               C == {d \in moves : Target(d) = z}
    <3>1. InState(z)' = {d \in Drones : at'[d] = z}
      BY <1>2 DEF InState
    <3>2. InState(z)' = (S \ L) \cup C
      BY <1>1, <1>5, <3>1 DEF InState
    <3>3. L \subseteq S /\ C \cap (S \ L) = {} /\ S \in SUBSET Drones /\ C \in SUBSET Drones
      BY <1>5 DEF InState
    <3>4. Occupancy(z, moves) = Cardinality(S) - Cardinality(L) + Cardinality(C)
      BY <1>7 DEF Occupancy
    <3> HIDE DEF S, L, C
    <3>5. IsFiniteSet(S) /\ IsFiniteSet(C)
      BY <1>2, <3>3, FS_Subset
    <3> QED
      BY <3>2, <3>3, <3>4, <3>5, CountIs
  <2>2. DOMAIN occ = DOMAIN graph.zone
    BY <1>7
  <2> QED
    BY <1>1, <2>1, <2>2
<1>12. /\ usage' \in [DOMAIN graph.link -> Nat] /\ LinkCapacityRespected'
       /\ \A l \in DOMAIN graph.link : usage'[l] <= N
  <2>1. ASSUME NEW l \in DOMAIN graph.link
        PROVE  /\ Cardinality({d \in moves : Link(d) = l}) \in Nat
               /\ Cardinality({d \in moves : Link(d) = l}) <= N
    <3> DEFINE O == {d \in moves : Link(d) = l}
    <3>1. O \in SUBSET Drones
      BY <1>5
    <3> HIDE DEF O
    <3>2. Cardinality(O) \in Nat /\ Cardinality(O) <= N
      BY <1>2, <3>1, FS_Subset, FS_CardinalityType
    <3> QED
      BY <3>2 DEF O
  <2>2. DOMAIN usage = DOMAIN graph.link
    BY <1>7
  <2>3. usage' \in [DOMAIN graph.link -> Nat] /\ \A l \in DOMAIN graph.link :
          usage'[l] = Cardinality({d \in moves : Link(d) = l})
    BY <1>1, <2>1, <2>2
  <2>4. LinkCapacityRespected'
    BY <1>1, <1>3, <2>2, <2>3 DEF LinkCapacityRespected
  <2> QED
    BY <2>1, <2>3, <2>4
<1>13. turn' \in 0..MaxTurns
  BY <1>1, <1>7, ConstantsAssumption
<1>14. turn' <= 2 * Cardinality(Done') /\ (Waiting' => turn' + 1 <= 2 * Cardinality(Done'))
  <2>1. Hops' = Hops
    BY <1>1, <1>2 DEF Hops
  <2>2. Done' = {h \in Hops : h[2] < idx'[h[1]]}
    BY <2>1 DEF Done
  <2>3. \A h \in Hops : h[1] \in Drones /\ h[2] \in Nat
    <3> TAKE h \in Hops
    <3>1. PICK d \in Drones : h \in {d} \X (1..Len(path[d]) - 1)
      BY DEF Hops
    <3> QED
      BY <3>1
  <2>4. \A d \in Drones : idx[d] \in Nat /\ idx'[d] \in Nat /\ idx[d] <= idx'[d]
    BY <1>1, <1>2, <1>7
  <2>5. Done \subseteq Done'
    <3> SUFFICES ASSUME NEW h \in Done PROVE h \in Done'
      OBVIOUS
    <3>1. h \in Hops /\ h[2] < idx[h[1]]
      BY DEF Done
    <3>2. h[2] < idx'[h[1]]
      BY <2>3, <2>4, <3>1
    <3> QED
      BY <2>2, <3>1, <3>2
  <2>6. IsFiniteSet(Hops) /\ IsFiniteSet(Done) /\ Cardinality(Done) \in Nat
    BY HopsFinite, DoneFinite
  <2>7. IsFiniteSet(Done') /\ Cardinality(Done') \in Nat /\ Cardinality(Done) <= Cardinality(Done')
    <3>1. Done' \in SUBSET Hops
      BY <2>2
    <3>2. IsFiniteSet(Done')
      BY <2>6, <3>1, FS_Subset
    <3>3. Done \in SUBSET Done'
      BY <2>5
    <3> QED
      BY <3>2, <3>3, FS_Subset, FS_CardinalityType
  <2>8. ASSUME NEW d \in moves PROVE Cardinality(Done) + 1 <= Cardinality(Done')
    <3> DEFINE h == <<d, idx[d]>>
    <3>1. d \in Drones /\ idx[d] \in 1..Len(path[d]) - 1 /\ idx'[d] = idx[d] + 1 /\ idx[d] \in Nat
      <4>1. path[d] \in Routes(graph)
        BY <1>2, <1>5, <1>7
      <4>2. Len(path[d]) \in Nat
        BY <4>1 DEF Routes, Loopless, Walk
      <4> QED
        BY <1>1, <1>2, <1>5, <1>7, <4>2
    <3>2. h \in Hops
      <4>1. h \in {d} \X (1..Len(path[d]) - 1)
        BY <3>1
      <4> QED
        BY <3>1, <4>1 DEF Hops
    <3>3. h[1] = d /\ h[2] = idx[d]
      OBVIOUS
    <3> HIDE DEF h
    <3>4. h \in Done' /\ h \notin Done
      BY <2>2, <3>1, <3>2, <3>3 DEF Done
    <3>5. Done \cup {h} \in SUBSET Done'
      BY <2>5, <3>4
    <3>6. Cardinality(Done \cup {h}) = Cardinality(Done) + 1
      BY <2>6, <3>4, FS_AddElement
    <3>7. Cardinality(Done \cup {h}) <= Cardinality(Done')
      BY <2>7, <3>5, FS_Subset
    <3> QED
      BY <3>6, <3>7
  <2>9. CASE moves # {}
    <3>1. Cardinality(Done) + 1 <= Cardinality(Done')
      BY <2>8, <2>9
    <3> QED
      BY <1>1, <1>7, <2>6, <2>7, <3>1
  <2>10. CASE moves = {}
    <3>1. turn + 1 <= 2 * Cardinality(Done)
      BY <1>1, <1>4, <1>7, <2>10
    <3>2. ~Waiting'
      <4> SUFFICES ASSUME NEW d \in Drones, ~delivered'[d], transit'[d] > 0 PROVE FALSE
        BY <1>2 DEF Waiting
      <4>1. ~delivered[d] /\ transit'[d] = InTransit(d, moves) /\ transit[d] \in {0, 1}
        BY <1>1, <1>2, <1>7
      <4>2. transit'[d] = 0
        BY <2>10, <4>1 DEF InTransit
      <4> QED
        BY <4>2
    <3> QED
      BY <1>1, <1>7, <2>6, <2>7, <3>1, <3>2
  <2> QED
    BY <2>9, <2>10
<1>15. graph' = graph /\ graph'.drones = N /\ path' = path
  BY <1>1 DEF N
<1> QED
  BY <1>2, <1>7, <1>8, <1>9, <1>10, <1>11, <1>12, <1>13, <1>14, <1>15 DEF Flying

LEMMA FlightInit == Init => FlightInv
<1> SUFFICES ASSUME Init PROVE FlightInv
  OBVIOUS
<1>1. MapInv
  BY MapInit
<1>2. stage # "flight" /\ Waits
  BY DEF Init, InitMap, Waits
<1> QED
  BY <1>1, <1>2 DEF FlightInv

LEMMA FlightStep == FlightInv /\ [Next]_vars => FlightInv'
<1> SUFFICES ASSUME FlightInv, [Next]_vars PROVE FlightInv'
  OBVIOUS
<1>1. MapInv /\ MapInv'
  BY MapStep DEF FlightInv
<1>2. CASE Read
  <2>1. stage # "flight" /\ stage' # "flight" /\ UNCHANGED flight
    BY <1>2 DEF Read, EndOfFile, ReadLine
  <2>2. Waits'
    BY <2>1 DEF FlightInv, Waits, flight
  <2> QED
    BY <1>1, <2>1, <2>2 DEF FlightInv
<1>3. CASE TakeOff
  <2>1. stage = "routes" /\ stage' = "flight"
    BY <1>3 DEF TakeOff
  <2>2. turn = 0
    BY <2>1 DEF FlightInv, Waits
  <2>3. Flying'
    BY <1>1, <1>3, <2>2, TakeOffFlies
  <2> QED
    BY <1>1, <2>1, <2>3 DEF FlightInv
<1>4. CASE Turn
  <2>1. stage = "flight" /\ stage' = "flight"
    BY <1>4 DEF Turn
  <2>2. Flying'
    BY <1>1, <1>4, <2>1, TurnFlies DEF FlightInv
  <2> QED
    BY <1>1, <2>1, <2>2 DEF FlightInv
<1>5. CASE UNCHANGED vars
  <2>1. UNCHANGED <<stage, graph>> /\ UNCHANGED flight
    BY <1>5 DEF vars
  <2>2. Flying => Flying'
    BY <2>1 DEF Flying, flight, InState, Drones, Done, Hops, Waiting, LinkCapacityRespected
  <2>3. Waits => Waits'
    BY <2>1 DEF Waits, flight
  <2> QED
    BY <1>1, <2>1, <2>2, <2>3 DEF FlightInv
<1>6. Finished => UNCHANGED vars
  BY DEF Finished
<1> QED
  BY <1>2, <1>3, <1>4, <1>5, <1>6 DEF Next

(* In every state of every flight, whatever the map, the number of drones and
   the order in which moves are approved: a drone is where its path says, the
   counters of the zones agree with the positions, no connection carries more
   than it may, and of two turns one brings somebody a hop further, so that
   opposite drones never hold each other up (Simulator._execute_turn). *)
THEOREM FlightIsSound == Spec => []FlightSound
<1>1. FlightInv => FlightSound
  <2> SUFFICES ASSUME FlightInv PROVE FlightSound
    OBVIOUS
  <2>1. MapInv /\ stage \in {"map", "routes", "flight", "refused"} /\ IsMap(graph)
    BY DEF FlightInv, MapInv
  <2>2. CASE stage = "flight"
    <3>1. Flying
      BY <2>2 DEF FlightInv
    <3>2. Drones = 1..graph.drones /\ Len(path) = graph.drones /\ Cardinality(Drones) = graph.drones
      BY <3>1, DronesAre
    <3>3. ASSUME NEW d \in Drones
          PROVE  /\ path[d] \in Seq(Zones) /\ idx[d] \in DOMAIN path[d] /\ at[d] = path[d][idx[d]]
                 /\ transit[d] \in {0, 1} /\ (delivered[d] <=> at[d] = graph.end)
      <4>1. path[d] \in Routes(graph)
        BY <3>1, <3>2 DEF Flying
      <4>2. path[d] \in Seq(DOMAIN graph.zone) /\ path[d] \in Seq(Zones)
        BY <2>1, <4>1 DEF Routes, Loopless, Walk, IsMap
      <4>3. idx[d] \in 1..Len(path[d]) /\ at[d] = path[d][idx[d]] /\ transit[d] \in {0, 1}
        BY <3>1, <3>2 DEF Flying
      <4>4. delivered[d] <=> at[d] = graph.end
        BY <3>1, <3>2 DEF Flying
      <4>5. DOMAIN path[d] = 1..Len(path[d])
        BY <4>2
      <4> QED
        BY <4>2, <4>3, <4>4, <4>5
    <3>4. ASSUME NEW z \in DOMAIN occ
          PROVE  /\ occ[z] = Cardinality({d \in Drones : at[d] = z}) /\ occ[z] \in 0..Len(path)
      <4>1. occ[z] = Cardinality(InState(z))
        BY <3>1 DEF Flying
      <4>2. InState(z) \in SUBSET Drones
        BY DEF InState
      <4>3. IsFiniteSet(Drones)
        BY <3>1, DronesAre
      <4>4. Cardinality(InState(z)) \in Nat /\ Cardinality(InState(z)) <= Cardinality(Drones)
        BY <4>2, <4>3, FS_Subset, FS_CardinalityType
      <4>5. graph.drones \in Nat
        BY <3>1 DEF Flying
      <4> QED
        BY <3>2, <4>1, <4>4, <4>5 DEF InState
    <3>5. \A l \in DOMAIN usage : usage[l] \in 0..Len(path)
      BY <3>1, <3>2 DEF Flying
    <3>6. turn \in 0..MaxTurns /\ LinkCapacityRespected
      BY <3>1 DEF Flying
    <3>7. WithinBound
      <4>1. turn \in Nat /\ turn <= 2 * Cardinality(Done)
        BY <3>1 DEF Flying
      <4>2. Cardinality(Done) \in Nat /\ Cardinality(Hops) \in Nat /\ Cardinality(Done) <= Cardinality(Hops)
        BY <3>1, DoneFinite
      <4> QED
        BY <4>1, <4>2 DEF WithinBound
    <3>8. TypeOK
      BY <2>1, <3>3, <3>4, <3>5, <3>6 DEF TypeOK
    <3>9. CountersExact
      BY <3>4 DEF CountersExact
    <3> QED
      BY <3>6, <3>7, <3>8, <3>9 DEF FlightSound
  <2>3. CASE stage # "flight"
    <3>1. Drones = {} /\ DOMAIN occ = {} /\ DOMAIN usage = {} /\ turn = 0
      BY <2>3 DEF FlightInv, Waits, Drones
    <3>2. Hops = {}
      BY <3>1 DEF Hops
    <3>3. Cardinality(Hops) = 0
      BY <3>2, FS_EmptySet
    <3> QED
      BY <2>1, <3>1, <3>3, ConstantsAssumption
         DEF FlightSound, TypeOK, CountersExact, LinkCapacityRespected, WithinBound
  <2> QED
    BY <2>2, <2>3
<1> QED
  BY FlightInit, FlightStep, <1>1, PTL DEF Spec

-----------------------------------------------------------------------------
(* The routes.                                                             *)

RoutesInv == MapInv /\ (stage = "flight" => Ranked(graph, graph.drones, routes))

LEMMA RoutesStep == RoutesInv /\ [Next]_vars => RoutesInv'
<1> SUFFICES ASSUME RoutesInv, [Next]_vars PROVE RoutesInv'
  OBVIOUS
<1>1. MapInv /\ MapInv'
  BY MapStep DEF RoutesInv
<1>2. CASE Read
  <2>1. stage' # "flight"
    BY <1>2 DEF Read, EndOfFile, ReadLine
  <2> QED
    BY <1>1, <2>1 DEF RoutesInv
<1>3. CASE TakeOff
  <2>1. stage = "routes" /\ graph' = graph /\ routes' = FindKShortestPaths(graph, graph.drones)
    BY <1>3 DEF TakeOff
  <2>2. IsMap(graph) /\ HasRoute(graph)
    BY <1>1, <2>1 DEF MapInv
  <2>3. graph.drones \in Nat \ {0}
    BY <2>2 DEF HasRoute, Complete, IsMap
  <2>4. Ranked(graph, graph.drones, FindKShortestPaths(graph, graph.drones))
    BY <2>2, <2>3, FindKIs
  <2> QED
    BY <1>1, <2>1, <2>4 DEF RoutesInv
<1>4. CASE Turn
  <2>1. stage = "flight" /\ UNCHANGED <<graph, routes>>
    BY <1>4 DEF Turn
  <2> QED
    BY <1>1, <2>1 DEF RoutesInv
<1>5. CASE UNCHANGED vars
  <2>1. UNCHANGED <<stage, graph, routes>>
    BY <1>5 DEF vars, flight
  <2> QED
    BY <1>1, <2>1 DEF RoutesInv
<1>6. Finished => UNCHANGED vars
  BY DEF Finished
<1> QED
  BY <1>2, <1>3, <1>4, <1>5, <1>6 DEF Next

(* On every map, and for any number of drones, find_k_shortest_paths finds
   distinct loopless paths, as many as it is asked for or all there are; and if
   the distance never overestimates a cost, none that it leaves out is cheaper. *)
THEOREM RoutesAreBest == Spec => []RoutesBest
<1>1. Init => RoutesInv
  BY MapInit DEF Init, InitMap, RoutesInv
<1>2. RoutesInv => RoutesBest
  <2> SUFFICES ASSUME RoutesInv, stage = "flight"
               PROVE  /\ IsInjective(routes) /\ ToSet(routes) \subseteq SimplePaths(graph)
                      /\ \/ Len(routes) = graph.drones
                         \/ Len(routes) < graph.drones /\ ToSet(routes) = SimplePaths(graph)
                      /\ Admissible(graph) =>
                           /\ \A i \in 2..Len(routes) : PathCost(graph, routes[i - 1]) <= PathCost(graph, routes[i])
                           /\ \A p \in SimplePaths(graph) \ ToSet(routes) :
                                 PathCost(graph, Last(routes)) <= PathCost(graph, p)
    BY DEF RoutesBest
  <2>1. Ranked(graph, graph.drones, routes) /\ IsMap(graph) /\ Complete(graph)
    BY DEF RoutesInv, MapInv, HasRoute
  <2>2. Routes(graph) = SimplePaths(graph)
    BY <2>1, RoutesAreSimplePaths
  <2>3. ToSet(routes) \subseteq Routes(graph)
    BY <2>1 DEF Ranked, ToSet
  <2> QED
    BY <2>1, <2>2, <2>3 DEF Ranked, Ordered
<1> QED
  BY RoutesStep, <1>1, <1>2, PTL DEF Spec
=============================================================================

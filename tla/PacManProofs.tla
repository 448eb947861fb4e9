---------------------------- MODULE PacManProofs ----------------------------
(***************************************************************************)
(* Theorems about Pac-Man, for corridors of every width, any number of     *)
(* levels, lives and dots, all durations and tables of every length.       *)
(***************************************************************************)
EXTENDS PacMan, FiniteSetTheorems, WellFoundedInduction, TLAPS

-----------------------------------------------------------------------------
(* Sorting.  Every list has an order: a shortest one without would have a  *)
(* least element, and an order of the others.                              *)

LEMMA NatMin ==
    ASSUME NEW T \in SUBSET Nat, T # {}
    PROVE  \E m \in T : \A k \in T : m <= k
<1> DEFINE R == OpToRel(<, Nat)
<1>1. IsWellFoundedOn(R, Nat)
  BY NatLessThanWellFounded
<1>2. \A k, m \in Nat : k < m => <<k, m>> \in R
  BY DEF OpToRel
<1> HIDE DEF R
<1>3. PICK m \in T : \A k \in T : ~ (<<k, m>> \in R)
  BY <1>1, WFMin
<1>4. ASSUME NEW k \in T PROVE m <= k
  <2>1. ~ (k < m) /\ k \in Nat /\ m \in Nat
    BY <1>2, <1>3
  <2> QED
    BY <2>1
<1> QED
  BY <1>4

Arranges(f, n, s) ==
    /\ f \in [1..n -> 1..n]
    /\ \A i, j \in 1..n : f[i] = f[j] => i = j
    /\ \A v \in 1..n : \E i \in 1..n : f[i] = v
    /\ \A i, j \in 1..n : i < j => s[f[i]] >= s[f[j]]

\* The least element last, before it the others in their order.
LEMMA OneMore ==
    ASSUME NEW m \in Nat \ {0}, NEW s \in [1..m -> Nat],
           \A t \in [1..(m - 1) -> Nat] : \E g : Arranges(g, m - 1, t)
    PROVE  \E f : Arranges(f, m, s)
<1> DEFINE V == {s[i] : i \in 1..m}
<1>1. PICK k \in 1..m : \A i \in 1..m : s[k] <= s[i]
  <2>1. V \in SUBSET Nat /\ V # {}
    <3>1. m \in 1..m
      OBVIOUS
    <3> QED
      BY <3>1
  <2>2. PICK v \in V : \A w \in V : v <= w
    <3> HIDE DEF V
    <3> QED
      BY <2>1, NatMin
  <2> QED
    BY <2>2
<1> DEFINE h == [i \in 1..(m - 1) |-> IF i = k THEN m ELSE i]
           t == [i \in 1..(m - 1) |-> s[h[i]]]
<1>2. /\ \A i \in 1..(m - 1) : h[i] \in 1..m /\ h[i] # k /\ t[i] = s[h[i]]
      /\ \A i, j \in 1..(m - 1) : h[i] = h[j] => i = j
      /\ \A v \in 1..m : v # k => \E i \in 1..(m - 1) : h[i] = v
  <2>1. \A i \in 1..(m - 1) : i \in 1..m /\ i # m
    OBVIOUS
  <2>2. ASSUME NEW v \in 1..m, v # k
        PROVE  \E i \in 1..(m - 1) : h[i] = v
    <3>1. CASE v = m
      <4>1. k \in 1..(m - 1) /\ h[k] = v
        BY <2>2, <3>1
      <4> QED
        BY <4>1
    <3>2. CASE v # m
      <4>1. v \in 1..(m - 1) /\ h[v] = v
        BY <2>2, <3>2
      <4> QED
        BY <4>1
    <3> QED
      BY <3>1, <3>2
  <2> QED
    BY <2>1, <2>2
<1>3. t \in [1..(m - 1) -> Nat]
  BY <1>2
<1>4. PICK g : Arranges(g, m - 1, t)
  BY <1>3
<1> HIDE DEF h, t
<1> DEFINE f == [i \in 1..m |-> IF i = m THEN k ELSE h[g[i]]]
<1>5. \A i \in 1..m : i # m => i \in 1..(m - 1) /\ g[i] \in 1..(m - 1)
  <2>1. g \in [1..(m - 1) -> 1..(m - 1)]
    BY <1>4 DEF Arranges
  <2>2. \A i \in 1..m : i # m => i \in 1..(m - 1)
    OBVIOUS
  <2> QED
    BY <2>1, <2>2
<1>6. f \in [1..m -> 1..m] /\ \A i \in 1..m : f[i] = k <=> i = m
  BY <1>2, <1>5
<1>7. \A i, j \in 1..m : f[i] = f[j] => i = j
  BY <1>2, <1>4, <1>5, <1>6 DEF Arranges
<1>8. \A v \in 1..m : \E i \in 1..m : f[i] = v
  <2> SUFFICES ASSUME NEW v \in 1..m, v # k PROVE \E i \in 1..m : f[i] = v
    BY <1>6
  <2>1. PICK j \in 1..(m - 1) : h[j] = v
    BY <1>2
  <2>2. PICK i \in 1..(m - 1) : g[i] = j
    BY <1>4 DEF Arranges
  <2>3. i \in 1..m /\ i # m
    OBVIOUS
  <2> QED
    BY <2>1, <2>2, <2>3
<1>9. ASSUME NEW i \in 1..m, NEW j \in 1..m, i < j
      PROVE  s[f[i]] >= s[f[j]]
  <2>1. i # m /\ i \in 1..(m - 1) /\ g[i] \in 1..(m - 1) /\ f[i] = h[g[i]]
    BY <1>5, <1>9
  <2>2. CASE j = m
    BY <1>1, <1>2, <2>1, <2>2
  <2>3. CASE j # m
    <3>1. j \in 1..(m - 1) /\ g[j] \in 1..(m - 1) /\ f[j] = h[g[j]]
      BY <1>5, <2>3
    <3>2. t[g[i]] >= t[g[j]]
      BY <1>4, <1>9, <2>1, <3>1 DEF Arranges
    <3> QED
      BY <1>2, <2>1, <3>1, <3>2
  <2> QED
    BY <2>2, <2>3
<1> QED
  BY <1>6, <1>7, <1>8, <1>9 DEF Arranges

LEMMA OrderExists ==
    ASSUME NEW n \in Nat, NEW s \in [1..n -> Nat]
    PROVE  \E f : Arranges(f, n, s)
<1> DEFINE Bad == {m \in Nat : \E t \in [1..m -> Nat] : ~\E f : Arranges(f, m, t)}
<1> SUFFICES ASSUME n \in Bad PROVE FALSE
  OBVIOUS
<1>1. PICK m \in Bad : \A k \in Bad : m <= k
  <2> Bad \in SUBSET Nat /\ Bad # {}
    OBVIOUS
  <2> HIDE DEF Bad
  <2> QED
    BY NatMin
<1>2. PICK t \in [1..m -> Nat] : ~\E f : Arranges(f, m, t)
  OBVIOUS
<1>3. m # 0
  <2> SUFFICES ASSUME m = 0 PROVE FALSE
    OBVIOUS
  <2>1. 1..m = {}
    OBVIOUS
  <2>2. Arranges([i \in {} |-> i], m, t)
    BY <2>1 DEF Arranges
  <2> QED
    BY <1>2, <2>2
<1>4. m - 1 \in Nat /\ m - 1 \notin Bad
  <2>1. m \in Nat /\ m - 1 \in Nat /\ ~(m <= m - 1)
    BY <1>3
  <2> HIDE DEF Bad
  <2> QED
    BY <1>1, <2>1
<1>5. \A u \in [1..(m - 1) -> Nat] : \E g : Arranges(g, m - 1, u)
  BY <1>4
<1> QED
  BY <1>2, <1>3, <1>5, OneMore

\* A table after sorting: the same scores, the best first.
LEMMA SortedIs ==
    ASSUME NEW S \in SUBSET Nat, NEW list \in Seq(S)
    PROVE  /\ Sorted(list) \in Seq(S) /\ Len(Sorted(list)) = Len(list)
           /\ \A i \in 1..Len(list) : Sorted(list)[1] >= list[i]
<1> DEFINE n == Len(list)
           Good(f) == \A i, j \in 1..n : i < j => list[f[i]] >= list[f[j]]
           B == Bijection(1..n, 1..n)
           order == CHOOSE f \in B : Good(f)
<1>0. n \in Nat /\ DOMAIN list = 1..n /\ list \in [1..n -> S] /\ list \in [1..n -> Nat]
  <2>1. n \in Nat /\ DOMAIN list = 1..n
    OBVIOUS
  <2>2. list \in [1..n -> S]
    OBVIOUS
  <2> QED
    BY <2>1, <2>2
<1>1. PICK f : Arranges(f, n, list)
  BY <1>0, OrderExists
<1>2. f \in B /\ Good(f)
  BY <1>1 DEF Arranges, Bijection, Injection, Surjection, IsInjective
<1>3. order \in B /\ Good(order)
  BY <1>2
<1>4. Sorted(list) = [i \in 1..n |-> list[order[i]]]
  BY <1>0 DEF Sorted, Orders
<1>5. order \in [1..n -> 1..n] /\ \A v \in 1..n : \E i \in 1..n : order[i] = v
  BY <1>3 DEF Bijection, Injection, Surjection
<1> HIDE DEF order
<1>6. Sorted(list) \in Seq(S) /\ Len(Sorted(list)) = n
  BY <1>0, <1>4, <1>5
<1>7. ASSUME NEW i \in 1..n PROVE Sorted(list)[1] >= list[i]
  <2>1. PICK j \in 1..n : order[j] = i
    BY <1>5
  <2>2. 1 \in 1..n /\ order[1] \in 1..n
    <3>1. 1 \in 1..n
      BY <1>0
    <3> QED
      BY <1>5, <3>1
  <2>3. list[order[1]] >= list[order[j]]
    <3>1. CASE j = 1
      <4>1. list[order[1]] \in Nat
        BY <1>0, <2>2
      <4> QED
        BY <3>1, <4>1
    <3>2. CASE j # 1
      BY <1>3, <2>2, <3>2
    <3> QED
      BY <3>1, <3>2
  <2> QED
    BY <1>4, <2>1, <2>2, <2>3
<1> QED
  BY <1>6, <1>7

-----------------------------------------------------------------------------
(* Constants.                                                              *)

LEMMA Limits ==
    /\ Width \in Nat /\ Width >= 4
    /\ Pacgum \in Nat \ {0} /\ Lives \in Nat \ {0} /\ Levels \in Nat \ {0}
    /\ MaxTime \in Nat \ {0} /\ EdibleDuration \in Nat \ {0}
    /\ RespawnDelay \in Nat \ {0} /\ SlowInterval \in Nat \ {0}
    /\ BaseInterval \in Nat \ {0} /\ MaxEntries \in Nat \ {0}
    /\ MaxLives \in Nat /\ Lives <= MaxLives /\ MaxScore \in Nat
BY PacManAssumption

LEMMA Places ==
    /\ Cells \subseteq Nat /\ Ends \subseteq Cells /\ Center \in Cells
    /\ IsFiniteSet(DotCells) /\ DotCount \in Nat
<1>1. Width \in Nat /\ Width >= 4
  BY Limits
<1>2. Width \div 2 \in Nat /\ Width \div 2 < Width
  BY <1>1
<1>3. Cells \subseteq Nat /\ Ends \subseteq Cells /\ Center \in Cells
  BY <1>1, <1>2 DEF Cells, Ends, Center
<1>4. IsFiniteSet(DotCells)
  <2>1. IsFiniteSet(Cells) /\ DotCells \subseteq Cells
    BY <1>1, FS_Interval DEF Cells, DotCells
  <2> QED
    BY <2>1, FS_Subset
<1>5. DotCount \in Nat
  BY <1>4, Limits, FS_CardinalityType DEF DotCount
<1> QED
  BY <1>3, <1>4, <1>5

-----------------------------------------------------------------------------
(* Ghosts keep their type.                                                 *)

States == {"CHASING", "EDIBLE", "RESPAWNING", "FROZEN"}
Moves  == 0..(SlowInterval - 1)

LEMMA GhostSet ==
    ASSUME NEW g \in GhostType
    PROVE  /\ \A c \in Cells : [g EXCEPT !.at = c] \in GhostType
           /\ \A x \in States : [g EXCEPT !.st = x] \in GhostType
           /\ \A n \in 0..EdibleDuration : [g EXCEPT !.edible = n] \in GhostType
           /\ \A n \in 0..RespawnDelay : [g EXCEPT !.respawn = n] \in GhostType
           /\ \A n \in Moves : [g EXCEPT !.moved = n] \in GhostType
           /\ \A b \in BOOLEAN : [g EXCEPT !.slow = b] \in GhostType
<1> USE DEF GhostType, States, Moves
<1>1. \A c \in Cells : [g EXCEPT !.at = c] \in GhostType
  OBVIOUS
<1>2. \A x \in States : [g EXCEPT !.st = x] \in GhostType
  OBVIOUS
<1>3. \A n \in 0..EdibleDuration : [g EXCEPT !.edible = n] \in GhostType
  OBVIOUS
<1>4. \A n \in 0..RespawnDelay : [g EXCEPT !.respawn = n] \in GhostType
  OBVIOUS
<1>5. \A n \in Moves : [g EXCEPT !.moved = n] \in GhostType
  OBVIOUS
<1>6. \A b \in BOOLEAN : [g EXCEPT !.slow = b] \in GhostType
  OBVIOUS
<1> QED
  BY <1>1, <1>2, <1>3, <1>4, <1>5, <1>6

LEMMA GhostFields ==
    ASSUME NEW g \in GhostType
    PROVE  /\ g.home \in Ends /\ g.at \in Cells /\ g.st \in States
           /\ g.edible \in 0..EdibleDuration /\ g.respawn \in 0..RespawnDelay
           /\ g.moved \in Moves /\ g.slow \in BOOLEAN
BY DEF GhostType, States, Moves

\* One ghost treated by a super dot, a bite, a key or its own clock.
LEMMA GhostTreated ==
    ASSUME NEW g \in GhostType
    PROVE  /\ MakeEdible(g) \in GhostType /\ Eat(g) \in GhostType
           /\ Freeze(g) \in GhostType /\ Unfreeze(g) \in GhostType
           /\ Calmed(g) \in GhostType
<1>1. 0 \in 0..EdibleDuration /\ EdibleDuration \in 0..EdibleDuration /\ RespawnDelay \in 0..RespawnDelay
  BY Limits
<1>2. {"CHASING", "EDIBLE", "RESPAWNING", "FROZEN"} \subseteq States
  BY DEF States
<1>3. MakeEdible(g) \in GhostType
  <2> DEFINE a == [g EXCEPT !.st = "EDIBLE"]
             b == [a EXCEPT !.edible = EdibleDuration]
             c == [b EXCEPT !.slow = TRUE]
  <2>1. a \in GhostType
    BY <1>2, GhostSet
  <2>2. b \in GhostType
    <3> HIDE DEF a
    <3> QED
      BY <1>1, <2>1, GhostSet
  <2>3. c \in GhostType
    <3> HIDE DEF b
    <3> QED
      BY <2>2, GhostSet
  <2>4. [g EXCEPT !.st = "EDIBLE", !.edible = EdibleDuration, !.slow = TRUE] = c
    BY DEF GhostType
  <2> HIDE DEF c
  <2> QED
    BY <2>3, <2>4 DEF MakeEdible
<1>4. Eat(g) \in GhostType
  <2> DEFINE a == [g EXCEPT !.st = "RESPAWNING"]
             b == [a EXCEPT !.respawn = RespawnDelay]
             c == [b EXCEPT !.edible = 0]
  <2>1. a \in GhostType
    BY <1>2, GhostSet
  <2>2. b \in GhostType
    <3> HIDE DEF a
    <3> QED
      BY <1>1, <2>1, GhostSet
  <2>3. c \in GhostType
    <3> HIDE DEF b
    <3> QED
      BY <1>1, <2>2, GhostSet
  <2>4. Eat(g) = c
    BY DEF GhostType, Eat
  <2> HIDE DEF c
  <2> QED
    BY <2>3, <2>4
<1>5. Freeze(g) \in GhostType /\ Unfreeze(g) \in GhostType
  BY <1>2, GhostSet DEF Freeze, Unfreeze
<1>6. Calmed(g) \in GhostType
  <2> DEFINE a == [g EXCEPT !.st = "CHASING"]
             b == [a EXCEPT !.slow = FALSE]
  <2>1. a \in GhostType
    BY <1>2, GhostSet
  <2>2. b \in GhostType
    <3> HIDE DEF a
    <3> QED
      BY <2>1, GhostSet
  <2>3. Calmed(g) = b
    BY DEF GhostType, Calmed
  <2> HIDE DEF b
  <2> QED
    BY <2>2, <2>3
<1> QED
  BY <1>3, <1>4, <1>5, <1>6

\* A ghost moves to a cell of the corridor, or waits for its turn.
LEMMA GhostRoams ==
    ASSUME NEW g \in GhostType, NEW p \in Cells, NEW r \in Roamed(g, p)
    PROVE  r \in GhostType
<1>1. g.moved \in Moves /\ 0 \in Moves
  BY GhostFields, Limits DEF Moves
<1>2. CASE g.slow /\ g.moved + 1 < SlowInterval
  <2>1. g.moved + 1 \in Moves
    BY <1>1, <1>2, Limits DEF Moves
  <2>2. r = [g EXCEPT !.moved = g.moved + 1]
    BY <1>2 DEF Roamed, GhostType
  <2> QED
    BY <2>1, <2>2, GhostSet
<1>3. CASE ~(g.slow /\ g.moved + 1 < SlowInterval)
  <2>1. PICK c \in Steps(g, p) : r = [g EXCEPT !.moved = 0, !.at = c]
    BY <1>3 DEF Roamed
  <2>2. c \in Cells
    BY <2>1 DEF Steps, Beside
  <2> DEFINE a == [g EXCEPT !.moved = 0]
             b == [a EXCEPT !.at = c]
  <2>3. a \in GhostType
    BY <1>1, GhostSet
  <2>4. b \in GhostType
    <3> HIDE DEF a
    <3> QED
      BY <2>2, <2>3, GhostSet
  <2>5. r = b
    BY <2>1 DEF GhostType
  <2> HIDE DEF b
  <2> QED
    BY <2>4, <2>5
<1> QED
  BY <1>2, <1>3

LEMMA GhostUpdated ==
    ASSUME NEW g \in GhostType, NEW p \in Cells, NEW r \in GhostUpdate(g, p)
    PROVE  r \in GhostType
<1>0. /\ g.st \in States /\ g.edible \in 0..EdibleDuration /\ g.respawn \in 0..RespawnDelay
      /\ g.home \in Cells /\ Calmed(g) \in GhostType /\ 0 \in 0..EdibleDuration /\ 0 \in 0..RespawnDelay
  <2>1. g.st \in States /\ g.edible \in 0..EdibleDuration /\ g.respawn \in 0..RespawnDelay /\ g.home \in Ends
    BY GhostFields
  <2>2. Calmed(g) \in GhostType
    BY GhostTreated
  <2>3. 0 \in 0..EdibleDuration /\ 0 \in 0..RespawnDelay
    BY Limits
  <2> QED
    BY <2>1, <2>2, <2>3, Places
<1>1. CASE g.st = "FROZEN"
  BY <1>1 DEF GhostUpdate
<1>2. CASE g.st = "RESPAWNING"
  <2>1. r = IF g.respawn > 1 THEN [g EXCEPT !.respawn = g.respawn - 1]
            ELSE [Calmed(g) EXCEPT !.respawn = 0, !.at = g.home]
    BY <1>2 DEF GhostUpdate, GhostType
  <2>2. CASE g.respawn > 1
    <3>1. g.respawn - 1 \in 0..RespawnDelay
      BY <1>0, <2>2, Limits
    <3> QED
      BY <2>1, <2>2, <3>1, GhostSet
  <2>3. CASE ~(g.respawn > 1)
    <3> DEFINE a == Calmed(g)
               b == [a EXCEPT !.respawn = 0]
               c == [b EXCEPT !.at = g.home]
    <3> HIDE DEF a
    <3>1. a \in GhostType
      BY <1>0 DEF a
    <3>2. b \in GhostType
      BY <1>0, <3>1, GhostSet
    <3>3. c \in GhostType
      <4> HIDE DEF b
      <4> QED
        BY <1>0, <3>2, GhostSet
    <3>4. [a EXCEPT !.respawn = 0, !.at = g.home] = c
      BY <3>1 DEF GhostType
    <3>5. r = c
      BY <2>1, <2>3, <3>4 DEF a
    <3> HIDE DEF c
    <3> QED
      BY <3>3, <3>5
  <2> QED
    BY <2>2, <2>3
<1>3. CASE g.st = "EDIBLE"
  <2>1. PICK h : /\ h = IF g.edible > 1 THEN [g EXCEPT !.edible = g.edible - 1]
                        ELSE [Calmed(g) EXCEPT !.edible = 0]
                 /\ r \in Roamed(h, p)
    BY <1>3 DEF GhostUpdate, GhostType
  <2>2. g.edible > 1 => g.edible - 1 \in 0..EdibleDuration
    BY <1>0, Limits
  <2>3. h \in GhostType
    BY <1>0, <2>1, <2>2, GhostSet
  <2> QED
    BY <2>1, <2>3, GhostRoams
<1>4. CASE g.st = "CHASING"
  <2>1. r \in Roamed(g, p)
    BY <1>4 DEF GhostUpdate
  <2> QED
    BY <2>1, GhostRoams
<1> QED
  BY <1>0, <1>1, <1>2, <1>3, <1>4 DEF States

-----------------------------------------------------------------------------
(* Levels, in the middle of a frame too: lives and time are not yet judged.*)

Frame == [at : Cells, dir : {-1, 1}, moved : 0..(BaseInterval - 1),
          lives : Int, score : 0..MaxScore, inv : BOOLEAN,
          fast : BOOLEAN, time : 0..MaxTime, won : BOOLEAN, lost : BOOLEAN,
          ghosts : [Ghosts -> GhostType], dots : SUBSET DotCells,
          supers : SUBSET Ends]

LEMMA FrameSet ==
    ASSUME NEW l \in Frame
    PROVE  /\ \A c \in Cells : [l EXCEPT !.at = c] \in Frame
           /\ \A d \in {-1, 1} : [l EXCEPT !.dir = d] \in Frame
           /\ \A n \in 0..(BaseInterval - 1) : [l EXCEPT !.moved = n] \in Frame
           /\ \A n \in Int : [l EXCEPT !.lives = n] \in Frame
           /\ \A n \in 0..MaxScore : [l EXCEPT !.score = n] \in Frame
           /\ \A n \in 0..MaxTime : [l EXCEPT !.time = n] \in Frame
           /\ \A b \in BOOLEAN : [l EXCEPT !.won = b] \in Frame
           /\ \A b \in BOOLEAN : [l EXCEPT !.lost = b] \in Frame
           /\ \A f \in [Ghosts -> GhostType] : [l EXCEPT !.ghosts = f] \in Frame
           /\ \A D \in SUBSET DotCells : [l EXCEPT !.dots = D] \in Frame
           /\ \A D \in SUBSET Ends : [l EXCEPT !.supers = D] \in Frame
<1> USE DEF Frame
<1>1. \A c \in Cells : [l EXCEPT !.at = c] \in Frame
  OBVIOUS
<1>2. \A d \in {-1, 1} : [l EXCEPT !.dir = d] \in Frame
  OBVIOUS
<1>3. \A n \in 0..(BaseInterval - 1) : [l EXCEPT !.moved = n] \in Frame
  OBVIOUS
<1>4. \A n \in Int : [l EXCEPT !.lives = n] \in Frame
  OBVIOUS
<1>5. \A n \in 0..MaxScore : [l EXCEPT !.score = n] \in Frame
  OBVIOUS
<1>6. \A n \in 0..MaxTime : [l EXCEPT !.time = n] \in Frame
  OBVIOUS
<1>7. \A b \in BOOLEAN : [l EXCEPT !.won = b] \in Frame
  OBVIOUS
<1>8. \A b \in BOOLEAN : [l EXCEPT !.lost = b] \in Frame
  OBVIOUS
<1>9. \A f \in [Ghosts -> GhostType] : [l EXCEPT !.ghosts = f] \in Frame
  OBVIOUS
<1>10. \A D \in SUBSET DotCells : [l EXCEPT !.dots = D] \in Frame
  OBVIOUS
<1>11. \A D \in SUBSET Ends : [l EXCEPT !.supers = D] \in Frame
  OBVIOUS
<1> HIDE DEF Frame
<1> QED
  BY <1>1, <1>2, <1>3, <1>4, <1>5, <1>6, <1>7, <1>8, <1>9, <1>10, <1>11

LEMMA FrameFields ==
    ASSUME NEW l \in Frame
    PROVE  /\ l.at \in Cells /\ l.dir \in {-1, 1} /\ l.moved \in 0..(BaseInterval - 1)
           /\ l.lives \in Int /\ l.score \in 0..MaxScore /\ l.inv \in BOOLEAN /\ l.fast \in BOOLEAN
           /\ l.time \in 0..MaxTime /\ l.won \in BOOLEAN /\ l.lost \in BOOLEAN
           /\ l.ghosts \in [Ghosts -> GhostType] /\ l.dots \in SUBSET DotCells
           /\ l.supers \in SUBSET Ends
BY DEF Frame

LEMMA LevelIsFrame ==
    /\ LevelType \subseteq Frame
    /\ \A l \in LevelType : l.lives >= -2 * Levels /\ l.lives <= MaxLives /\ l.time >= 1 /\ l.lost = FALSE
    /\ \A l \in Frame : (/\ l.lives >= -2 * Levels /\ l.lives <= MaxLives
                         /\ l.time >= 1 /\ l.lost = FALSE)
                           => l \in LevelType
<1>0. -2 * Levels \in Int
  BY Limits
<1>1. \A l \in LevelType : l.lives >= -2 * Levels /\ l.lives <= MaxLives /\ l.time >= 1 /\ l.lost = FALSE
  <2> TAKE l \in LevelType
  <2>1. l.lives \in (-2 * Levels)..MaxLives /\ l.time \in 1..MaxTime /\ l.lost \in {FALSE}
    BY DEF LevelType
  <2>2. l.lives >= -2 * Levels /\ l.lives <= MaxLives
    BY <1>0, <2>1, Limits
  <2>3. l.time >= 1
    BY <2>1, Limits
  <2>4. l.lost = FALSE
    BY <2>1
  <2> QED
    BY <2>2, <2>3, <2>4
<1>2. LevelType \subseteq Frame
  <2>1. (-2 * Levels)..MaxLives \subseteq Int /\ 1..MaxTime \subseteq 0..MaxTime
    BY <1>0, Limits
  <2> QED
    BY <2>1 DEF LevelType, Frame
<1>3. ASSUME NEW l \in Frame, l.lives >= -2 * Levels, l.lives <= MaxLives, l.time >= 1, l.lost = FALSE
      PROVE  l \in LevelType
  <2>1. l.lives \in (-2 * Levels)..MaxLives /\ l.time \in 1..MaxTime /\ l.lost \in {FALSE}
    <3>1. l.lives \in Int /\ l.time \in 0..MaxTime
      BY FrameFields
    <3>2. l.lives \in (-2 * Levels)..MaxLives
      BY <1>0, <1>3, <3>1, Limits
    <3>3. l.time \in 1..MaxTime
      BY <1>3, <3>1, Limits
    <3> QED
      BY <1>3, <3>2, <3>3
  <2> QED
    BY <2>1 DEF Frame, LevelType
<1> QED
  BY <1>1, <1>2, <1>3

\* What does not change when the player moves.
SameGoods(l, m) ==
    /\ m.lives = l.lives /\ m.score = l.score /\ m.time = l.time /\ m.won = l.won
    /\ m.lost = l.lost /\ m.ghosts = l.ghosts /\ m.dots = l.dots /\ m.supers = l.supers

LEMMA PlayerMoves ==
    ASSUME NEW l \in Frame, NEW want \in {-1, 0, 1}
    PROVE  PlayerMoved(l, want) \in Frame /\ SameGoods(l, PlayerMoved(l, want))
<1> DEFINE open(d) == d # 0 /\ l.at + d \in Cells
           step(d) == [l EXCEPT !.moved = 0, !.at = @ + d, !.dir = d]
           waits == ~l.fast /\ l.moved + 1 < BaseInterval
<1>1. 0 \in 0..(BaseInterval - 1) /\ l.moved \in 0..(BaseInterval - 1) /\ l.at \in Cells /\ l.dir \in {-1, 1}
  BY FrameFields, Limits
<1>2. ASSUME NEW d \in {-1, 1}, open(d)
      PROVE  step(d) \in Frame /\ SameGoods(l, step(d))
  <2> DEFINE a == [l EXCEPT !.moved = 0]
             b == [a EXCEPT !.at = l.at + d]
             c == [b EXCEPT !.dir = d]
  <2>1. a \in Frame
    BY <1>1, FrameSet
  <2>2. b \in Frame
    <3> HIDE DEF a
    <3> QED
      BY <1>2, <2>1, FrameSet
  <2>3. c \in Frame
    <3> HIDE DEF b
    <3> QED
      BY <2>2, FrameSet
  <2>4. step(d) = c
    BY DEF Frame
  <2>5. SameGoods(l, step(d))
    BY DEF Frame, SameGoods
  <2> HIDE DEF c
  <2> QED
    BY <2>3, <2>4, <2>5
<1>3. CASE waits
  <2>1. l.moved + 1 \in 0..(BaseInterval - 1)
    BY <1>1, <1>3, Limits
  <2>2. PlayerMoved(l, want) = [l EXCEPT !.moved = l.moved + 1]
    BY <1>3 DEF PlayerMoved, Frame
  <2>3. SameGoods(l, [l EXCEPT !.moved = l.moved + 1])
    BY DEF SameGoods, Frame
  <2> QED
    BY <2>1, <2>2, <2>3, FrameSet
<1>4. CASE ~waits /\ open(want)
  <2>1. PlayerMoved(l, want) = step(want)
    BY <1>4 DEF PlayerMoved
  <2>2. want \in {-1, 1}
    BY <1>4
  <2> HIDE DEF step, open
  <2> QED
    BY <1>2, <1>4, <2>1, <2>2
<1>5. CASE ~waits /\ ~open(want) /\ open(l.dir)
  <2>1. PlayerMoved(l, want) = step(l.dir)
    BY <1>5 DEF PlayerMoved
  <2> HIDE DEF step, open
  <2> QED
    BY <1>1, <1>2, <1>5, <2>1
<1>6. CASE ~waits /\ ~open(want) /\ ~open(l.dir)
  <2>1. PlayerMoved(l, want) = [l EXCEPT !.moved = 0]
    BY <1>6 DEF PlayerMoved
  <2>2. SameGoods(l, [l EXCEPT !.moved = 0])
    BY DEF SameGoods, Frame
  <2> QED
    BY <1>1, <2>1, <2>2, FrameSet
<1> QED
  BY <1>3, <1>4, <1>5, <1>6

\* Scores are compared up to the bound.
Cap(n) == IF n > MaxScore THEN MaxScore ELSE n

LEMMA PlusIs ==
    ASSUME NEW a \in 0..MaxScore, NEW n \in Nat
    PROVE  /\ Plus(a, n) \in 0..MaxScore /\ Plus(a, n) >= a
           /\ \A m, k \in Int : a >= Cap(m) /\ k <= m + n => Plus(a, n) >= Cap(k)
BY Limits DEF Plus, Cap

\* A cell is eaten: a dot in it counts.
LEMMA EatsDots ==
    ASSUME NEW l \in Frame
    PROVE  LET m == DotsEaten(l) IN
           /\ m \in Frame
           /\ m.lives = l.lives /\ m.time = l.time /\ m.won = l.won /\ m.lost = l.lost
           /\ \A n \in Int : l.score >= Cap(n)
                 => m.score >= Cap(n + (Cardinality(l.dots) - Cardinality(m.dots)))
<1> DEFINE super == l.at \in l.supers
           point == IF l.at \in l.dots \cup l.supers THEN 1 ELSE 0
           fed   == IF super THEN [g \in Ghosts |-> MakeEdible(l.ghosts[g])] ELSE l.ghosts
           a == [l EXCEPT !.dots = l.dots \ {l.at}]
           b == [a EXCEPT !.supers = l.supers \ {l.at}]
           c == [b EXCEPT !.score = Plus(l.score, point)]
           d == [c EXCEPT !.ghosts = fed]
<1>0. /\ l.dots \in SUBSET DotCells /\ l.supers \in SUBSET Ends /\ l.score \in 0..MaxScore
      /\ l.ghosts \in [Ghosts -> GhostType]
  BY FrameFields
<1>1. point \in Nat /\ fed \in [Ghosts -> GhostType]
  BY <1>0, GhostTreated
<1>2. DotsEaten(l) = d
  BY DEF DotsEaten, Frame
<1>3. /\ d.lives = l.lives /\ d.time = l.time /\ d.won = l.won /\ d.lost = l.lost
      /\ d.score = Plus(l.score, point) /\ d.dots = l.dots \ {l.at}
  BY DEF Frame
<1>4. d \in Frame
  <2>1. a \in Frame
    BY <1>0, FrameSet
  <2>2. b \in Frame
    <3> HIDE DEF a
    <3> QED
      BY <1>0, <2>1, FrameSet
  <2>3. c \in Frame
    <3>1. Plus(l.score, point) \in 0..MaxScore
      BY <1>0, <1>1, PlusIs
    <3> HIDE DEF b, point
    <3> QED
      BY <3>1, <2>2, FrameSet
  <2> HIDE DEF c, fed
  <2> QED
    BY <1>1, <2>3, FrameSet
<1>5. ASSUME NEW n \in Int, l.score >= Cap(n)
      PROVE  Plus(l.score, point) >= Cap(n + (Cardinality(l.dots) - Cardinality(l.dots \ {l.at})))
  <2>1. IsFiniteSet(l.dots) /\ Cardinality(l.dots) \in Nat
    BY <1>0, Places, FS_Subset, FS_CardinalityType
  <2>2. CASE l.at \in l.dots
    <3>1. Cardinality(l.dots \ {l.at}) = Cardinality(l.dots) - 1 /\ point = 1
      BY <2>1, <2>2, FS_RemoveElement
    <3>2. n + (Cardinality(l.dots) - Cardinality(l.dots \ {l.at})) = n + 1
      BY <2>1, <3>1
    <3>3. Plus(l.score, 1) >= Cap(n + 1)
      BY <1>0, <1>5, PlusIs
    <3> QED
      BY <3>1, <3>2, <3>3
  <2>3. CASE l.at \notin l.dots
    <3>1. l.dots \ {l.at} = l.dots
      BY <2>3
    <3>2. n + (Cardinality(l.dots) - Cardinality(l.dots \ {l.at})) = n
      BY <2>1, <3>1
    <3> HIDE DEF point
    <3>3. Plus(l.score, point) >= Cap(n)
      BY <1>0, <1>1, <1>5, PlusIs
    <3> QED
      BY <3>2, <3>3
  <2> QED
    BY <2>2, <2>3
<1> HIDE DEF d
<1> QED
  BY <1>2, <1>3, <1>4, <1>5

LEMMA TwoGhosts == IsFiniteSet(Ghosts) /\ Cardinality(Ghosts) = 2
<1>1. \A a, b \in Int : a <= b => IsFiniteSet(a..b) /\ Cardinality(a..b) = b - a + 1
  BY FS_Interval
<1>2. 1 \in Int /\ 2 \in Int /\ 1 <= 2 /\ 2 - 1 + 1 = 2
  OBVIOUS
<1>3. IsFiniteSet(1..2) /\ Cardinality(1..2) = 2 - 1 + 1
  BY <1>1, <1>2, Zenon
<1> QED
  BY <1>2, <1>3, Zenon DEF Ghosts

\* The ghosts are met: two lives at most are lost, and who goes on has one.
LEMMA MeetsGhosts ==
    ASSUME NEW l \in Frame
    PROVE  LET m == GhostsMet(l) IN
           /\ m \in Frame
           /\ m.time = l.time /\ m.won = l.won /\ m.dots = l.dots /\ m.score >= l.score
           /\ m.lives >= l.lives - 2 /\ m.lives <= l.lives
           /\ ~m.lost => m.lives = l.lives \/ m.lives >= 1
<1> DEFINE here  == {g \in Ghosts : l.ghosts[g].at = l.at}
           eaten == {g \in here : l.ghosts[g].st = "EDIBLE"}
           bites == {g \in here : l.ghosts[g].st = "CHASING"}
           hits  == IF l.inv THEN 0 ELSE Cardinality(bites)
           left  == l.lives - hits
           again == hits > 0 /\ left > 0
           sent  == [g \in Ghosts |-> IF g \in eaten THEN Eat(l.ghosts[g]) ELSE l.ghosts[g]]
           score == Plus(l.score, Cardinality(eaten))
           lost  == hits > 0 /\ left <= 0
           where == IF again THEN Center ELSE l.at
           dir   == IF again THEN -1 ELSE l.dir
           moved == IF again THEN 0 ELSE l.moved
           a == [l EXCEPT !.ghosts = sent]
           b == [a EXCEPT !.score = score]
           c == [b EXCEPT !.lives = left]
           d == [c EXCEPT !.lost = lost]
           e == [d EXCEPT !.at = where]
           f == [e EXCEPT !.dir = dir]
           m == [f EXCEPT !.moved = moved]
<1>0. /\ l.at \in Cells /\ l.dir \in {-1, 1} /\ l.moved \in 0..(BaseInterval - 1) /\ l.lives \in Int
      /\ l.score \in 0..MaxScore /\ l.ghosts \in [Ghosts -> GhostType]
  BY FrameFields
<1>1. /\ Cardinality(eaten) \in Nat /\ Cardinality(bites) \in 0..2
  <2>1. IsFiniteSet(Ghosts) /\ Cardinality(Ghosts) = 2
    BY TwoGhosts
  <2>2. eaten \in SUBSET Ghosts /\ bites \in SUBSET Ghosts
    OBVIOUS
  <2> HIDE DEF eaten, bites
  <2>3. IsFiniteSet(eaten) /\ IsFiniteSet(bites) /\ Cardinality(bites) <= 2
    BY <2>1, <2>2, FS_Subset
  <2> QED
    BY <2>3, FS_CardinalityType
<1>2. hits \in 0..2 /\ left \in Int /\ left >= l.lives - 2 /\ left <= l.lives
  <2> HIDE DEF bites
  <2> QED
    BY <1>0, <1>1
<1>3. /\ sent \in [Ghosts -> GhostType] /\ score \in 0..MaxScore /\ score >= l.score
      /\ lost \in BOOLEAN /\ where \in Cells /\ dir \in {-1, 1} /\ moved \in 0..(BaseInterval - 1)
  <2>1. sent \in [Ghosts -> GhostType]
    BY <1>0, GhostTreated
  <2>2. score \in 0..MaxScore /\ score >= l.score
    <3> HIDE DEF eaten
    <3> QED
      BY <1>0, <1>1, PlusIs
  <2>3. 0 \in 0..(BaseInterval - 1)
    BY Limits
  <2> HIDE DEF hits, left, sent, score
  <2> QED
    BY <1>0, <2>1, <2>2, <2>3, Places
<1>4. ~lost => left = l.lives \/ left >= 1
  <2> HIDE DEF hits
  <2> QED
    BY <1>0, <1>2
<1>5. GhostsMet(l) = m
  <2> HIDE DEF eaten, hits
  <2>1. GhostsMet(l) = [l EXCEPT !.ghosts = sent, !.score = score, !.lives = left, !.lost = lost,
                                 !.at = where, !.dir = dir, !.moved = moved]
    BY DEF GhostsMet, eaten, hits, Frame
  <2> HIDE DEF sent, score, left, lost, where, dir, moved
  <2> QED
    BY <2>1 DEF Frame
<1> HIDE DEF sent, score, left, lost, where, dir, moved
<1>6. /\ m.time = l.time /\ m.won = l.won /\ m.dots = l.dots /\ m.score = score
      /\ m.lives = left /\ m.lost = lost
  BY DEF Frame
<1>7. m \in Frame
  <2>1. a \in Frame
    BY <1>3, FrameSet
  <2>2. b \in Frame
    <3> HIDE DEF a
    <3> QED
      BY <1>3, <2>1, FrameSet
  <2>3. c \in Frame
    <3> HIDE DEF b
    <3> QED
      BY <1>2, <2>2, FrameSet
  <2>4. d \in Frame
    <3> HIDE DEF c
    <3> QED
      BY <1>3, <2>3, FrameSet
  <2>5. e \in Frame
    <3> HIDE DEF d
    <3> QED
      BY <1>3, <2>4, FrameSet
  <2>6. f \in Frame
    <3> HIDE DEF e
    <3> QED
      BY <1>3, <2>5, FrameSet
  <2> HIDE DEF f
  <2> QED
    BY <1>3, <2>6, FrameSet
<1> HIDE DEF m
<1> QED
  BY <1>2, <1>3, <1>4, <1>5, <1>6, <1>7

\* What a frame makes of a level that is neither won nor lost.
Outcome(l, m) ==
    /\ m \in Frame
    /\ m.lives >= l.lives - 2 /\ m.lives <= l.lives
    /\ ~m.lost => m.time >= 1 /\ (m.lives = l.lives \/ m.lives >= 1)
    /\ \A n \in Int : l.score >= Cap(n)
          => m.score >= Cap(n + (Cardinality(l.dots) - Cardinality(m.dots)))
    /\ m.won => m.dots = {}

LEMMA DotsCounted ==
    ASSUME NEW l \in Frame
    PROVE  Cardinality(l.dots) \in Nat
BY FrameFields, Places, FS_Subset, FS_CardinalityType

LEMMA FrameOutcome ==
    ASSUME NEW l \in LevelType, ~l.won, NEW m \in Updated(l)
    PROVE  Outcome(l, m)
<1>1. l \in Frame /\ ~l.lost /\ l.time \in 1..MaxTime
  <2>1. l \in Frame /\ l.lost = FALSE /\ l.time >= 1
    BY LevelIsFrame
  <2> QED
    BY <2>1, FrameFields, Limits
<1>2. CASE l.time = 1
  <2>1. m = [l EXCEPT !.time = 0, !.lost = TRUE]
    BY <1>1, <1>2 DEF Updated
  <2> DEFINE a == [l EXCEPT !.time = 0]
             b == [a EXCEPT !.lost = TRUE]
  <2>2. a \in Frame
    <3>1. 0 \in 0..MaxTime
      BY Limits
    <3> QED
      BY <1>1, <3>1, FrameSet
  <2>3. b \in Frame
    <3> HIDE DEF a
    <3> QED
      BY <2>2, FrameSet
  <2>4. m = b
    BY <1>1, <2>1 DEF Frame
  <2>5. m.lives = l.lives /\ m.lost = TRUE /\ m.score = l.score /\ m.dots = l.dots /\ m.won = l.won
    BY <1>1, <2>1 DEF Frame
  <2>6. m \in Frame
    <3> HIDE DEF b
    <3> QED
      BY <2>3, <2>4
  <2>7. \A n \in Int : n + (Cardinality(l.dots) - Cardinality(m.dots)) = n
    BY <1>1, <2>5, DotsCounted
  <2>8. l.lives \in Int
    BY <1>1, FrameFields
  <2> HIDE DEF a, b
  <2> QED
    BY <2>5, <2>6, <2>7, <2>8 DEF Outcome
<1>3. CASE l.time # 1
  <2> DEFINE l0 == [l EXCEPT !.time = l.time - 1]
  <2>1. l0 = [l EXCEPT !.time = @ - 1]
    BY <1>1 DEF Frame
  <2>2. PICK want \in {-1, 0, 1} :
           \E x \in GhostUpdate(PlayerMoved(l0, want).ghosts[1], PlayerMoved(l0, want).at),
              y \in GhostUpdate(PlayerMoved(l0, want).ghosts[2], PlayerMoved(l0, want).at) :
              m = WinChecked(GhostsMet(DotsEaten([PlayerMoved(l0, want) EXCEPT !.ghosts = <<x, y>>])))
    <3> HIDE DEF l0
    <3> DEFINE Reached == {GhostsMoved(PlayerMoved(l0, want)) : want \in {-1, 0, 1}}
    <3>1. Updated(l) = {WinChecked(GhostsMet(DotsEaten(q))) : q \in UNION Reached}
      BY <1>1, <1>3, <2>1 DEF Updated
    <3>2. PICK q \in UNION Reached : m = WinChecked(GhostsMet(DotsEaten(q)))
      BY <3>1
    <3>3. PICK want \in {-1, 0, 1} : q \in GhostsMoved(PlayerMoved(l0, want))
      BY <3>2
    <3> QED
      BY <3>2, <3>3 DEF GhostsMoved
  <2> DEFINE p == PlayerMoved(l0, want)
  <2>3. PICK x \in GhostUpdate(p.ghosts[1], p.at), y \in GhostUpdate(p.ghosts[2], p.at) :
           m = WinChecked(GhostsMet(DotsEaten([p EXCEPT !.ghosts = <<x, y>>])))
    BY <2>2
  <2>4. /\ l0 \in Frame /\ l0.lives = l.lives /\ l0.time >= 1 /\ l0.won = l.won /\ l0.lost = l.lost
        /\ l0.score = l.score /\ l0.dots = l.dots
    <3>1. l.time - 1 \in 0..MaxTime /\ l.time - 1 >= 1
      BY <1>1, <1>3, Limits
    <3>2. l0 \in Frame
      BY <1>1, <3>1, FrameSet
    <3> QED
      BY <1>1, <3>1, <3>2 DEF Frame
  <2>5. p \in Frame /\ SameGoods(l0, p)
    <3> HIDE DEF l0
    <3> QED
      BY <2>4, PlayerMoves
  <2> HIDE DEF l0, p
  <2> DEFINE p1 == [p EXCEPT !.ghosts = <<x, y>>]
             p2 == DotsEaten(p1)
             p3 == GhostsMet(p2)
  <2>6. <<x, y>> \in [Ghosts -> GhostType]
    <3>1. p.at \in Cells /\ p.ghosts[1] \in GhostType /\ p.ghosts[2] \in GhostType
      BY <2>5, FrameFields DEF Ghosts
    <3>2. x \in GhostType /\ y \in GhostType
      BY <3>1, GhostUpdated
    <3> QED
      BY <3>2 DEF Ghosts
  <2>7. /\ p1 \in Frame /\ p1.lives = l.lives /\ p1.time >= 1 /\ p1.won = l.won
        /\ p1.score = l.score /\ p1.dots = l.dots
    <3>1. p1 \in Frame
      BY <2>5, <2>6, FrameSet
    <3>2. /\ p1.lives = p.lives /\ p1.time = p.time /\ p1.won = p.won
          /\ p1.score = p.score /\ p1.dots = p.dots
      BY <2>5 DEF Frame
    <3> HIDE DEF p1
    <3> QED
      BY <2>4, <2>5, <3>1, <3>2 DEF SameGoods
  <2> HIDE DEF p1
  <2>8. /\ p2 \in Frame /\ p2.lives = l.lives /\ p2.time >= 1 /\ p2.won = l.won
        /\ \A n \in Int : l.score >= Cap(n)
              => p2.score >= Cap(n + (Cardinality(l.dots) - Cardinality(p2.dots)))
    BY <2>7, EatsDots
  <2> HIDE DEF p2
  <2>9. /\ p3 \in Frame /\ p3.time = p2.time /\ p3.won = l.won /\ p3.dots = p2.dots
        /\ p3.score >= p2.score /\ p3.lives >= l.lives - 2 /\ p3.lives <= l.lives
        /\ ~p3.lost => p3.lives = l.lives \/ p3.lives >= 1
    BY <2>8, MeetsGhosts
  <2> HIDE DEF p3
  <2>10. m = [p3 EXCEPT !.won = p3.won \/ p3.dots = {}]
    <3>1. m = WinChecked(p3)
      BY <2>3 DEF p1, p2, p3
    <3> QED
      BY <2>9, <3>1 DEF WinChecked, Frame
  <2>11. m \in Frame
    BY <2>9, <2>10, FrameSet, FrameFields
  <2>12. /\ m.lives = p3.lives /\ m.time = p3.time /\ m.lost = p3.lost /\ m.score = p3.score
         /\ m.dots = p3.dots /\ (m.won <=> p3.won \/ p3.dots = {})
    BY <2>9, <2>10 DEF Frame
  <2>13. ASSUME NEW n \in Int, l.score >= Cap(n)
         PROVE  m.score >= Cap(n + (Cardinality(l.dots) - Cardinality(m.dots)))
    <3> DEFINE k == n + (Cardinality(l.dots) - Cardinality(m.dots))
    <3>1. p2.score >= Cap(k)
      BY <2>8, <2>9, <2>12, <2>13
    <3>2. k \in Int /\ p2.score \in Int /\ p3.score \in Int
      <4>1. Cardinality(l.dots) \in Nat /\ Cardinality(m.dots) \in Nat
        BY <1>1, <2>11, DotsCounted
      <4> QED
        BY <2>8, <2>9, <4>1, FrameFields
    <3> HIDE DEF k
    <3>3. Cap(k) \in Int
      BY <3>2, Limits DEF Cap
    <3>4. p3.score >= Cap(k)
      BY <2>9, <3>1, <3>2, <3>3
    <3> QED
      BY <2>12, <3>4 DEF k
  <2> QED
    BY <1>1, <2>7, <2>8, <2>9, <2>11, <2>12, <2>13 DEF Outcome
<1> QED
  BY <1>2, <1>3

-----------------------------------------------------------------------------
(* A new level.                                                            *)

LEMMA NewGhostTyped == NewGhost(1) \in GhostType /\ NewGhost(Width) \in GhostType
<1>1. /\ 1 \in Ends /\ Width \in Ends /\ 1 \in Cells /\ Width \in Cells
      /\ 0 \in 0..EdibleDuration /\ 0 \in 0..RespawnDelay /\ 0 \in 0..(SlowInterval - 1)
  BY Limits DEF Ends, Cells
<1> QED
  BY <1>1 DEF NewGhost, GhostType

Begun(l, lives, score) ==
    /\ l \in LevelType /\ l.lives = lives /\ l.score = score /\ l.won = FALSE
    /\ Cardinality(l.dots) = DotCount

LEMMA LevelBegins ==
    ASSUME NEW lives \in Int, lives >= -2 * Levels, lives <= MaxLives,
           NEW score \in 0..MaxScore, NEW l \in NewLevels(lives, score)
    PROVE  Begun(l, lives, score)
<1>1. PICK dots \in SUBSET DotCells :
         /\ Cardinality(dots) = DotCount
         /\ l = [at |-> Center, dir |-> -1, moved |-> 0, lives |-> lives, score |-> score,
                 inv |-> FALSE, fast |-> FALSE, time |-> MaxTime, won |-> FALSE, lost |-> FALSE,
                 ghosts |-> <<NewGhost(1), NewGhost(Width)>>, dots |-> dots, supers |-> Ends]
  BY DEF NewLevels
<1>2. <<NewGhost(1), NewGhost(Width)>> \in [Ghosts -> GhostType]
  BY NewGhostTyped DEF Ghosts
<1>3. 0 \in 0..(BaseInterval - 1) /\ MaxTime \in 0..MaxTime /\ MaxTime >= 1 /\ Center \in Cells
  BY Limits, Places
<1>4. l \in Frame
  BY <1>1, <1>2, <1>3 DEF Frame
<1>5. l.lives = lives /\ l.score = score /\ l.won = FALSE /\ l.dots = dots /\ l.time = MaxTime /\ l.lost = FALSE
  BY <1>1
<1> QED
  BY <1>1, <1>3, <1>4, <1>5, LevelIsFrame DEF Begun

-----------------------------------------------------------------------------
(* The invariant of a game.                                                *)

Screens == {"off", "MAIN_MENU", "PLAYING", "PAUSED", "HIGHSCORES",
            "INSTRUCTIONS", "NAME_ENTRY", "GAME_OVER", "VICTORY"}

Ranged ==
    /\ screen \in Screens /\ index \in 0..Levels /\ final \in 0..MaxScore
    /\ level = NoLevel \/ level \in LevelType
    /\ lifeless \in BOOLEAN /\ skipped \in BOOLEAN

\* Two lives are lost at most with every level that was won, none otherwise.
Alive ==
    /\ level \in LevelType /\ index < Levels
    /\ level.lives >= 1 - 2 * index
    /\ level.lives >= 1 \/ lifeless

\* What was eaten in the levels before and in this one.
Earned == index * DotCount + (DotCount - Cardinality(level.dots))

InPlay ==
    screen \in {"PLAYING", "PAUSED"} =>
        /\ Alive
        /\ ~skipped => ~level.won /\ level.score >= Cap(Earned)

Won == screen = "VICTORY" /\ ~skipped => final >= Cap(Levels * DotCount)

Played == Ranged /\ InPlay /\ Won

\* Menus, pauses and what follows a game.
LEMMA ScreensKeep ==
    ASSUME Played, Launch \/ Browse \/ Pause \/ Resume \/ Abandon \/ EndShown \/ EnterName
                   \/ Quit \/ Kill \/ UNCHANGED vars
    PROVE  Played'
<1> USE DEF Played, Ranged, InPlay, Won, Screens
<1>1. 0 \in 0..Levels /\ 0 \in 0..MaxScore
  BY Limits
<1>2. CASE Launch \/ Browse \/ EndShown \/ EnterName
  BY <1>2 DEF Launch, Browse, EndShown, EnterName, game, table
<1>3. CASE Pause \/ Resume \/ UNCHANGED vars
  BY <1>3 DEF Pause, Resume, game, table, vars, Alive, Earned
<1>4. CASE Abandon
  BY <1>4 DEF Abandon, game, table
<1>5. CASE Quit \/ Kill
  BY <1>1, <1>5 DEF Quit, Kill, Exits
<1> QED
  BY <1>2, <1>3, <1>4, <1>5

LEMMA Lowest ==
    ASSUME NEW i \in 0..(Levels - 1), NEW n \in Int, n >= 1 - 2 * i
    PROVE  i \in 0..Levels /\ i < Levels /\ n >= -2 * Levels
<1>1. Levels \in Nat /\ i \in Int /\ i >= 0 /\ i <= Levels - 1
  BY Limits
<1>2. i \in 0..Levels /\ i < Levels
  BY <1>1
<1>3. n >= 1 - 2 * i /\ 1 - 2 * i >= -2 * Levels
  BY <1>1
<1> QED
  BY <1>1, <1>2, <1>3

\* A level is loaded, or the generator fails.
LEMMA Loads ==
    ASSUME Ranged, NEW lives \in Int, lives >= 1 - 2 * index', lives <= MaxLives,
           NEW score \in 0..MaxScore, LoadLevel(lives, score),
           index' \in 0..(Levels - 1), final' \in 0..MaxScore, skipped' \in BOOLEAN,
           ~skipped' => score >= Cap(index' * DotCount)
    PROVE  Played'
<1>1. index' \in 0..Levels /\ index' < Levels /\ lives >= -2 * Levels
  BY Lowest
<1>2. CASE level' \in NewLevels(lives, score) /\ screen' = "PLAYING" /\ lifeless' = (lives <= 0)
  <2>1. /\ level' \in LevelType /\ level'.lives = lives /\ level'.score = score
        /\ level'.won = FALSE /\ Cardinality(level'.dots) = DotCount
    <3>1. ASSUME NEW l \in NewLevels(lives, score)
          PROVE  Begun(l, lives, score)
      BY <1>1, LevelBegins, Zenon
    <3>2. Begun(level', lives, score)
      BY <1>2, <3>1, Zenon
    <3> QED
      BY <3>2 DEF Begun
  <2>2. Earned' = index' * DotCount
    <3>1. index' * DotCount \in Int
      <4>1. index' \in Int
        BY <1>1, Limits
      <4> QED
        BY <4>1, Places
    <3>2. Earned' = index' * DotCount + (DotCount - DotCount)
      BY <2>1 DEF Earned
    <3> QED
      BY <3>1, <3>2, Places
  <2>3. Alive'
    <3>1. level'.lives >= 1 - 2 * index'
      BY <2>1
    <3>2. level'.lives >= 1 \/ lifeless'
      <4>1. lives >= 1 \/ lives <= 0
        OBVIOUS
      <4>2. CASE lives <= 0
        BY <1>2, <4>2, Zenon
      <4> QED
        BY <2>1, <4>1, <4>2
    <3> QED
      BY <1>1, <2>1, <3>1, <3>2 DEF Alive
  <2>4. ~skipped' => ~level'.won /\ level'.score >= Cap(Earned')
    BY <2>1, <2>2
  <2>5. Ranged'
    <3>1. screen' \in Screens
      BY <1>2 DEF Screens
    <3>2. lifeless' \in BOOLEAN
      BY <1>2
    <3> QED
      BY <1>1, <2>1, <3>1, <3>2 DEF Ranged
  <2>6. Won'
    BY <1>2 DEF Won
  <2> QED
    BY <2>3, <2>4, <2>5, <2>6 DEF Played, InPlay, Cap
<1>3. CASE screen' = "MAIN_MENU" /\ UNCHANGED <<level, lifeless>>
  <2>1. Ranged'
    BY <1>1, <1>3 DEF Ranged, Screens
  <2> QED
    BY <1>3, <2>1 DEF Played, InPlay, Won
<1> QED
  BY <1>2, <1>3 DEF LoadLevel

LEMMA Starts ==
    ASSUME Played, StartGame
    PROVE  Played'
<1>1. /\ index' = 0 /\ skipped' = FALSE /\ final' = 0 /\ LoadLevel(Lives, 0)
  BY DEF StartGame
<1>2. /\ Lives \in Int /\ Lives >= 1 - 2 * index' /\ Lives <= MaxLives /\ 0 \in 0..MaxScore
  <2>1. Lives \in Nat /\ Lives >= 1 /\ Lives <= MaxLives /\ 0 \in 0..MaxScore
    BY Limits
  <2> QED
    BY <1>1, <2>1
<1>3. index' \in 0..(Levels - 1) /\ final' \in 0..MaxScore /\ skipped' \in BOOLEAN
  <2>1. 0 \in 0..(Levels - 1) /\ 0 \in 0..MaxScore
    BY Limits
  <2> QED
    BY <1>1, <2>1
<1>4. 0 >= Cap(index' * DotCount)
  <2>1. index' * DotCount = 0
    BY <1>1, Places
  <2> QED
    BY <2>1, Limits DEF Cap
<1> QED
  BY <1>1, <1>2, <1>3, <1>4, Loads DEF Played

\* The cheat keys: nothing is eaten, and a win they give does not count.
LEMMA LevelSet ==
    ASSUME NEW l \in LevelType
    PROVE  /\ \A b \in BOOLEAN : [l EXCEPT !.inv = b] \in LevelType
           /\ \A b \in BOOLEAN : [l EXCEPT !.fast = b] \in LevelType
           /\ \A b \in BOOLEAN : [l EXCEPT !.won = b] \in LevelType
           /\ \A n \in (-2 * Levels)..MaxLives : [l EXCEPT !.lives = n] \in LevelType
           /\ \A f \in [Ghosts -> GhostType] : [l EXCEPT !.ghosts = f] \in LevelType
<1> USE DEF LevelType
<1>1. \A b \in BOOLEAN : [l EXCEPT !.inv = b] \in LevelType
  OBVIOUS
<1>2. \A b \in BOOLEAN : [l EXCEPT !.fast = b] \in LevelType
  OBVIOUS
<1>3. \A b \in BOOLEAN : [l EXCEPT !.won = b] \in LevelType
  OBVIOUS
<1>4. \A n \in (-2 * Levels)..MaxLives : [l EXCEPT !.lives = n] \in LevelType
  OBVIOUS
<1>5. \A f \in [Ghosts -> GhostType] : [l EXCEPT !.ghosts = f] \in LevelType
  OBVIOUS
<1> HIDE DEF LevelType
<1> QED
  BY <1>1, <1>2, <1>3, <1>4, <1>5

\* What a cheat may make of a level.
Cheated(l, m) == m \in LevelType /\ m.lives >= l.lives /\ m.dots = l.dots /\ m.score = l.score

LEMMA CheatsKeepGoods ==
    ASSUME NEW l \in LevelType
    PROVE  /\ Cheated(l, [l EXCEPT !.inv = ~l.inv]) /\ [l EXCEPT !.inv = ~l.inv].won = l.won
           /\ Cheated(l, [l EXCEPT !.fast = ~l.fast]) /\ [l EXCEPT !.fast = ~l.fast].won = l.won
           /\ Cheated(l, [l EXCEPT !.won = TRUE])
           /\ Cheated(l, FreezeToggled(l)) /\ FreezeToggled(l).won = l.won
           /\ l.lives < MaxLives =>
                 /\ Cheated(l, [l EXCEPT !.lives = l.lives + 1])
                 /\ [l EXCEPT !.lives = l.lives + 1].won = l.won
<1>0. l \in Frame /\ l.lives \in Int /\ l.lives >= l.lives /\ l.lives >= -2 * Levels
  <2>1. l \in Frame /\ l.lives >= -2 * Levels
    BY LevelIsFrame
  <2>2. l.lives \in Int
    BY <2>1, FrameFields
  <2> QED
    BY <2>1, <2>2
<1>1. Cheated(l, [l EXCEPT !.inv = ~l.inv]) /\ [l EXCEPT !.inv = ~l.inv].won = l.won
  <2> DEFINE m == [l EXCEPT !.inv = ~l.inv]
  <2>1. m \in LevelType
    BY <1>0, LevelSet, FrameFields
  <2>2. m.lives = l.lives /\ m.dots = l.dots /\ m.score = l.score /\ m.won = l.won
    BY DEF LevelType
  <2> HIDE DEF m
  <2>3. Cheated(l, m) /\ m.won = l.won
    BY <1>0, <2>1, <2>2 DEF Cheated
  <2> QED
    BY <2>3 DEF m
<1>2. Cheated(l, [l EXCEPT !.fast = ~l.fast]) /\ [l EXCEPT !.fast = ~l.fast].won = l.won
  <2> DEFINE m == [l EXCEPT !.fast = ~l.fast]
  <2>1. m \in LevelType
    BY <1>0, LevelSet, FrameFields
  <2>2. m.lives = l.lives /\ m.dots = l.dots /\ m.score = l.score /\ m.won = l.won
    BY DEF LevelType
  <2> HIDE DEF m
  <2>3. Cheated(l, m) /\ m.won = l.won
    BY <1>0, <2>1, <2>2 DEF Cheated
  <2> QED
    BY <2>3 DEF m
<1>3. Cheated(l, [l EXCEPT !.won = TRUE])
  <2> DEFINE m == [l EXCEPT !.won = TRUE]
  <2>1. m \in LevelType
    BY LevelSet
  <2>2. m.lives = l.lives /\ m.dots = l.dots /\ m.score = l.score
    BY DEF LevelType
  <2> HIDE DEF m
  <2>3. Cheated(l, m)
    BY <1>0, <2>1, <2>2 DEF Cheated
  <2> QED
    BY <2>3 DEF m
<1>4. Cheated(l, FreezeToggled(l)) /\ FreezeToggled(l).won = l.won
  <2> DEFINE all == \A g \in Ghosts : l.ghosts[g].st \in {"RESPAWNING", "FROZEN"}
             f == [g \in Ghosts |-> IF all THEN Unfreeze(l.ghosts[g]) ELSE Freeze(l.ghosts[g])]
             m == [l EXCEPT !.ghosts = f]
  <2>1. FreezeToggled(l) = m
    <3> HIDE DEF all
    <3> QED
      BY DEF FreezeToggled, LevelType, all
  <2>2. f \in [Ghosts -> GhostType]
    <3> HIDE DEF all
    <3> QED
      BY <1>0, FrameFields, GhostTreated
  <2> HIDE DEF f
  <2>3. m \in LevelType
    BY <2>2, LevelSet
  <2>4. m.lives = l.lives /\ m.dots = l.dots /\ m.score = l.score /\ m.won = l.won
    BY DEF LevelType
  <2> HIDE DEF m
  <2> QED
    BY <1>0, <2>1, <2>3, <2>4 DEF Cheated
<1>5. ASSUME l.lives < MaxLives
      PROVE  /\ Cheated(l, [l EXCEPT !.lives = l.lives + 1])
             /\ [l EXCEPT !.lives = l.lives + 1].won = l.won
  <2> DEFINE n == l.lives + 1
             m == [l EXCEPT !.lives = n]
  <2>1. n \in (-2 * Levels)..MaxLives /\ n >= l.lives
    BY <1>0, <1>5, Limits
  <2> HIDE DEF n
  <2>2. m \in LevelType
    BY <2>1, LevelSet
  <2>3. m.lives = n /\ m.dots = l.dots /\ m.score = l.score /\ m.won = l.won
    BY DEF LevelType
  <2> HIDE DEF m
  <2>4. Cheated(l, m) /\ m.won = l.won
    BY <2>1, <2>2, <2>3 DEF Cheated
  <2> QED
    BY <2>4 DEF m, n
<1> QED
  BY <1>1, <1>2, <1>3, <1>4, <1>5

LEMMA CheatKeeps ==
    ASSUME Played, Cheat
    PROVE  Played'
<1>0. /\ Alive /\ level \in LevelType /\ level.lives \in Int /\ index \in 0..Levels
      /\ Ranged /\ Won
      /\ ~skipped => ~level.won /\ level.score >= Cap(Earned)
  <2>1. /\ Alive /\ Ranged /\ Won
        /\ ~skipped => ~level.won /\ level.score >= Cap(Earned)
    BY DEF Played, InPlay, Cheat
  <2>2. level \in LevelType /\ index \in 0..Levels
    BY <2>1 DEF Alive, Ranged
  <2>3. level.lives \in Int
    BY <2>2, LevelIsFrame, FrameFields
  <2> QED
    BY <2>1, <2>2, <2>3
<1>1. screen = "PLAYING" /\ UNCHANGED <<screen, index, final, lifeless>>
  BY DEF Cheat
<1>2. /\ Cheated(level, level')
      /\ skipped' \in BOOLEAN
      /\ ~skipped' => ~skipped /\ level'.won = level.won
  <2>1. CASE level' = [level EXCEPT !.won = TRUE] /\ skipped' = TRUE
    BY <1>0, <2>1, CheatsKeepGoods
  <2>2. CASE UNCHANGED skipped /\ Cheated(level, level') /\ level'.won = level.won
    BY <1>0, <2>2 DEF Ranged
  <2>3. [level EXCEPT !.inv = ~@] = [level EXCEPT !.inv = ~level.inv]
    BY <1>0 DEF LevelType
  <2>4. [level EXCEPT !.fast = ~@] = [level EXCEPT !.fast = ~level.fast]
    BY <1>0 DEF LevelType
  <2>5. [level EXCEPT !.lives = @ + 1] = [level EXCEPT !.lives = level.lives + 1]
    BY <1>0 DEF LevelType
  <2>6. CASE UNCHANGED skipped /\ level' = [level EXCEPT !.inv = ~level.inv]
    BY <1>0, <2>2, <2>6, CheatsKeepGoods
  <2>7. CASE UNCHANGED skipped /\ level' = [level EXCEPT !.fast = ~level.fast]
    BY <1>0, <2>2, <2>7, CheatsKeepGoods
  <2>8. CASE UNCHANGED skipped /\ level.lives < MaxLives /\ level' = [level EXCEPT !.lives = level.lives + 1]
    BY <1>0, <2>2, <2>8, CheatsKeepGoods
  <2>9. CASE UNCHANGED skipped /\ level' = FreezeToggled(level)
    BY <1>0, <2>2, <2>9, CheatsKeepGoods
  <2> QED
    BY <2>1, <2>3, <2>4, <2>5, <2>6, <2>7, <2>8, <2>9 DEF Cheat
<1>3. level' \in LevelType /\ level'.lives >= level.lives /\ level'.dots = level.dots /\ level'.score = level.score
  BY <1>2 DEF Cheated
<1>4. level'.lives \in Int
  BY <1>3, LevelIsFrame, FrameFields
<1>5. Alive'
  <2>1. level'.lives >= 1 - 2 * index'
    BY <1>0, <1>1, <1>3, <1>4, Limits DEF Alive
  <2>2. level'.lives >= 1 \/ lifeless'
    BY <1>0, <1>1, <1>3, <1>4 DEF Alive
  <2> QED
    BY <1>0, <1>1, <1>3, <2>1, <2>2 DEF Alive
<1>6. Earned' = Earned
  BY <1>1, <1>3 DEF Earned
<1>7. ~skipped' => ~level'.won /\ level'.score >= Cap(Earned')
  BY <1>0, <1>2, <1>3, <1>6
<1>8. Ranged'
  BY <1>0, <1>1, <1>2, <1>3 DEF Ranged
<1> QED
  BY <1>1, <1>5, <1>7, <1>8 DEF Played, InPlay, Won

\* The end of a level that is won: the next one, or the victory.
LEMMA Wins ==
    ASSUME Played, screen = "PLAYING", NEW l \in Frame, LevelWon(l), UNCHANGED skipped,
           l.lives >= level.lives - 2, l.lives <= level.lives,
           ~skipped => l.score >= Cap((index + 1) * DotCount)
    PROVE  Played'
<1>0. /\ Alive /\ index \in 0..Levels /\ index < Levels /\ final \in 0..MaxScore /\ lifeless \in BOOLEAN
      /\ skipped \in BOOLEAN /\ level.lives >= 1 - 2 * index /\ level \in LevelType /\ Ranged
  BY DEF Played, InPlay, Ranged, Alive
<1>1. /\ level.lives \in Int /\ level.lives <= MaxLives /\ l.lives \in Int /\ l.score \in 0..MaxScore
  <2>1. level \in Frame /\ level.lives <= MaxLives
    BY <1>0, LevelIsFrame
  <2> QED
    BY <2>1, FrameFields
<1>2. index' = index + 1 /\ index \in Int
  BY <1>0, Limits DEF LevelWon
<1>3. CASE index + 1 >= Levels
  <2>1. /\ final' = l.score /\ screen' = "VICTORY" /\ level' = NoLevel /\ UNCHANGED lifeless
    BY <1>3 DEF LevelWon
  <2>2. index + 1 = Levels /\ Levels \in 0..Levels
    BY <1>0, <1>3, Limits
  <2>3. Ranged'
    BY <1>0, <1>1, <1>2, <2>1, <2>2 DEF Ranged, Screens
  <2>4. Won'
    BY <2>1, <2>2 DEF Won, Cap
  <2> QED
    BY <2>1, <2>3, <2>4 DEF Played, InPlay
<1>4. CASE ~(index + 1 >= Levels)
  <2>1. LoadLevel(l.lives, l.score) /\ UNCHANGED final
    BY <1>4 DEF LevelWon
  <2>2. index' \in 0..(Levels - 1)
    BY <1>0, <1>2, <1>4, Limits
  <2>3. l.lives >= 1 - 2 * index' /\ l.lives <= MaxLives
    <3>1. l.lives >= 1 - 2 * (index + 1)
      BY <1>0, <1>1, <1>2
    <3>2. l.lives <= MaxLives
      BY <1>1, Limits
    <3> QED
      BY <1>2, <3>1, <3>2
  <2>4. ~skipped' => l.score >= Cap(index' * DotCount)
    BY <1>2
  <2> QED
    BY <1>0, <1>1, <2>1, <2>2, <2>3, <2>4, Loads
<1> QED
  BY <1>3, <1>4

LEMMA Distributes == \A i, d \in Int : (i + 1) * d = i * d + d
OBVIOUS

LEMMA TickKeeps ==
    ASSUME Played, Tick
    PROVE  Played'
<1>0. /\ screen = "PLAYING" /\ Ranged /\ Alive /\ level \in LevelType /\ index < Levels
      /\ ~skipped => ~level.won /\ level.score >= Cap(Earned)
      /\ level.lives >= 1 - 2 * index
      /\ level.lives >= 1 \/ lifeless
      /\ index \in 0..Levels /\ UNCHANGED skipped
  BY DEF Tick, Played, InPlay, Alive, Ranged
<1>1. PICK l \in Updated(level) :
         \/ l.won /\ LevelWon(l)
         \/ ~l.won /\ l.lost /\ LevelLost(l)
         \/ ~l.won /\ ~l.lost /\ level' = l /\ UNCHANGED <<screen, index, final, lifeless>>
  BY DEF Tick
<1>2. /\ level \in Frame /\ level.lives \in Int /\ level.lives <= MaxLives /\ level.lives >= -2 * Levels
      /\ index \in Int
  <2>1. level \in Frame /\ level.lives <= MaxLives /\ level.lives >= -2 * Levels
    BY <1>0, LevelIsFrame
  <2>2. level.lives \in Int
    BY <2>1, FrameFields
  <2> QED
    BY <1>0, <2>1, <2>2, Limits
<1>3. CASE level.won
  <2>1. l = level
    BY <1>1, <1>3 DEF Updated
  <2>2. l.lives >= level.lives - 2 /\ l.lives <= level.lives /\ l \in Frame
    BY <1>2, <2>1
  <2>3. LevelWon(l)
    BY <1>1, <1>3, <2>1
  <2>4. skipped
    BY <1>0, <1>3
  <2> QED
    BY <1>0, <2>2, <2>3, <2>4, Wins
<1>4. CASE ~level.won
  <2>1. Outcome(level, l)
    BY <1>0, <1>1, <1>4, FrameOutcome
  <2>2. /\ l \in Frame /\ l.lives >= level.lives - 2 /\ l.lives <= level.lives
        /\ ~l.lost => l.time >= 1 /\ (l.lives = level.lives \/ l.lives >= 1)
        /\ \A n \in Int : level.score >= Cap(n)
              => l.score >= Cap(n + (Cardinality(level.dots) - Cardinality(l.dots)))
        /\ l.won => l.dots = {}
    BY <2>1 DEF Outcome
  <2>3. Cardinality(level.dots) \in Nat /\ Cardinality(l.dots) \in Nat /\ DotCount \in Nat /\ index * DotCount \in Int
    <3>1. DotCount \in Nat
      BY Places
    <3> QED
      BY <1>2, <2>2, <3>1, DotsCounted
  <2>4. Earned \in Int
    BY <2>3 DEF Earned
  <2>5. ~skipped => l.score >= Cap(Earned + (Cardinality(level.dots) - Cardinality(l.dots)))
    BY <1>0, <2>2, <2>4
  <2>6. CASE l.won /\ LevelWon(l)
    <3>1. l.dots = {} /\ Cardinality(l.dots) = 0
      BY <2>2, <2>6, FS_EmptySet
    <3>2. Earned + (Cardinality(level.dots) - Cardinality(l.dots)) = index * DotCount + DotCount
      BY <2>3, <3>1 DEF Earned
    <3>3. (index + 1) * DotCount = index * DotCount + DotCount
      BY <1>2, <2>3, Distributes
    <3>4. ~skipped => l.score >= Cap((index + 1) * DotCount)
      BY <2>5, <3>2, <3>3
    <3> QED
      BY <1>0, <2>2, <2>6, <3>4, Wins
  <2>7. CASE ~l.won /\ l.lost /\ LevelLost(l)
    <3>1. final' = l.score /\ screen' = "GAME_OVER" /\ level' = NoLevel /\ UNCHANGED <<index, lifeless>>
      BY <2>7 DEF LevelLost
    <3>2. l.score \in 0..MaxScore
      BY <2>2, FrameFields
    <3>3. Ranged'
      BY <1>0, <3>1, <3>2 DEF Ranged, Screens
    <3> QED
      BY <3>1, <3>3 DEF Played, InPlay, Won
  <2>8. CASE ~l.won /\ ~l.lost /\ level' = l /\ UNCHANGED <<screen, index, final, lifeless>>
    <3>1. l.lives \in Int /\ l.lost \in BOOLEAN /\ l.time >= 1
      BY <2>2, <2>8, FrameFields
    <3>2. l.lives >= 1 - 2 * index
      <4>1. index >= 0 /\ index \in Int /\ level.lives >= 1 - 2 * index
        BY <1>0, <1>2, Limits
      <4>2. l.lives = level.lives \/ l.lives >= 1
        BY <2>2, <2>8
      <4> QED
        BY <3>1, <4>1, <4>2
    <3>3. l.lives >= -2 * Levels /\ l.lives <= MaxLives
      <4>1. l.lives >= -2 * Levels
        BY <1>2, <2>2, <2>8, <3>1, Limits
      <4>2. l.lives <= MaxLives
        BY <1>2, <2>2, <3>1, Limits
      <4> QED
        BY <4>1, <4>2
    <3>4. l \in LevelType
      BY <2>2, <2>8, <3>1, <3>3, LevelIsFrame
    <3>5. l.lives >= 1 \/ lifeless
      BY <1>0, <2>2, <2>8
    <3>6. Alive'
      BY <1>0, <2>8, <3>2, <3>4, <3>5 DEF Alive
    <3>7. Earned + (Cardinality(level.dots) - Cardinality(l.dots)) = index * DotCount + (DotCount - Cardinality(l.dots))
      BY <2>3 DEF Earned
    <3>8. Earned' = index * DotCount + (DotCount - Cardinality(l.dots))
      BY <2>8 DEF Earned
    <3>9. ~skipped' => ~level'.won /\ level'.score >= Cap(Earned')
      BY <1>0, <2>5, <2>8, <3>7, <3>8
    <3>10. Ranged'
      BY <1>0, <2>8, <3>4 DEF Ranged
    <3> QED
      BY <1>0, <2>8, <3>6, <3>9, <3>10 DEF Played, InPlay, Won
  <2> QED
    BY <1>1, <2>6, <2>7, <2>8
<1> QED
  BY <1>3, <1>4

-----------------------------------------------------------------------------
(* The table and its file.                                                 *)

Scores == 0..MaxScore

\* Whichever table is kept, it leads what is on disk.
Tables ==
    /\ entries \in Seq(Scores) /\ Len(entries) <= MaxEntries
    /\ file \in [ok : BOOLEAN, list : Seq(Scores)] /\ Len(file.list) <= MaxEntries
    /\ screen # "off" /\ file.list # <<>> => entries # <<>> /\ entries[1] >= file.list[1]

\* The best score of a list stays first when the list is sorted and cut.
LEMMA KeptIs ==
    ASSUME NEW list \in Seq(Scores)
    PROVE  /\ Kept(list) \in Seq(Scores) /\ Len(Kept(list)) <= MaxEntries
           /\ list # <<>> => Kept(list) # <<>> /\ Kept(list)[1] = list[1]
<1> DEFINE k == IF Len(list) < MaxEntries THEN Len(list) ELSE MaxEntries
<1>1. k \in Nat /\ k <= Len(list) /\ k <= MaxEntries /\ Len(list) \in Nat
  BY Limits
<1>2. Kept(list) = SubSeq(list, 1, k)
  BY DEF Kept
<1>3. list # <<>> => k >= 1 /\ Len(list) >= 1
  BY Limits
<1> HIDE DEF k
<1>4. SubSeq(list, 1, k) \in Seq(Scores) /\ Len(SubSeq(list, 1, k)) = k
  BY <1>1
<1>5. k >= 1 => SubSeq(list, 1, k)[1] = list[1]
  BY <1>1
<1> QED
  BY <1>1, <1>2, <1>3, <1>4, <1>5

LEMMA RankedIs ==
    ASSUME NEW list \in Seq(Scores)
    PROVE  /\ Kept(Sorted(list)) \in Seq(Scores) /\ Len(Kept(Sorted(list))) <= MaxEntries
           /\ \A i \in 1..Len(list) :
                Kept(Sorted(list)) # <<>> /\ Kept(Sorted(list))[1] >= list[i]
<1> DEFINE s == Sorted(list)
<1>1. Scores \in SUBSET Nat
  BY Limits DEF Scores
<1>2. s \in Seq(Scores) /\ Len(s) = Len(list) /\ \A i \in 1..Len(list) : s[1] >= list[i]
  BY <1>1, SortedIs
<1> HIDE DEF s
<1>3. \A i \in 1..Len(list) : s # <<>>
  BY <1>2
<1>4. Kept(s) \in Seq(Scores) /\ Len(Kept(s)) <= MaxEntries
  BY <1>2, KeptIs
<1>5. \A i \in 1..Len(list) : Kept(s) # <<>> /\ Kept(s)[1] >= list[i]
  BY <1>2, <1>3, KeptIs
<1>6. Kept(Sorted(list)) = Kept(s)
  BY DEF s
<1> QED
  BY <1>4, <1>5, <1>6

LEMMA AddedIs ==
    ASSUME NEW list \in Seq(Scores), NEW score \in Scores
    PROVE  /\ Added(list, score) \in Seq(Scores) /\ Len(Added(list, score)) <= MaxEntries
           /\ list # <<>> => Added(list, score) # <<>> /\ Added(list, score)[1] >= list[1]
<1> DEFINE more == Append(list, score)
<1>1. more \in Seq(Scores) /\ list # <<>> => 1 \in 1..Len(more) /\ more[1] = list[1]
  OBVIOUS
<1>2. more \in Seq(Scores)
  OBVIOUS
<1> HIDE DEF more
<1>3. /\ Kept(Sorted(more)) \in Seq(Scores) /\ Len(Kept(Sorted(more))) <= MaxEntries
      /\ \A i \in 1..Len(more) : Kept(Sorted(more)) # <<>> /\ Kept(Sorted(more))[1] >= more[i]
  BY <1>2, RankedIs
<1>4. Added(list, score) = Kept(Sorted(more))
  BY DEF Added, more
<1> QED
  BY <1>1, <1>2, <1>3, <1>4

\* What a save leaves: the new list, the old one, or nothing that can be read.
LEMMA SavesIs ==
    ASSUME Tables, NEW list \in Seq(Scores), Len(list) <= MaxEntries, file' \in Saves(list)
    PROVE  /\ file' \in [ok : BOOLEAN, list : Seq(Scores)] /\ Len(file'.list) <= MaxEntries
           /\ file'.list \in {list, file.list, <<>>}
<1>1. CASE file' = [ok |-> TRUE, list |-> list]
  BY <1>1
<1>2. CASE file' = file
  BY <1>2 DEF Tables
<1>3. CASE file' = Broken
  <2>1. <<>> \in Seq(Scores) /\ Len(<<>>) = 0 /\ 0 <= MaxEntries
    BY Limits
  <2>2. file'.ok = FALSE /\ file'.list = <<>> /\ file' = [ok |-> FALSE, list |-> <<>>]
    BY <1>3 DEF Broken
  <2> QED
    BY <2>1, <2>2
<1> QED
  BY <1>1, <1>2, <1>3 DEF Saves

\* A step that leaves a readable file readable leaves as good a score in it.
NoWorse ==
    file.ok /\ file'.ok /\ file.list # <<>> =>
        file'.list # <<>> /\ file'.list[1] >= file.list[1]

LEMMA SameFile ==
    ASSUME Tables, file' = file
    PROVE  NoWorse
<1>1. file.list # <<>> => file.list[1] \in Scores
  BY DEF Tables
<1>2. file.list # <<>> => file.list[1] >= file.list[1]
  BY <1>1, Limits DEF Scores
<1> QED
  BY <1>2 DEF NoWorse

LEMMA TablesKept ==
    ASSUME Tables, final \in Scores, [Next]_vars
    PROVE  Tables' /\ NoWorse
<1>1. CASE StartGame \/ Browse \/ Pause \/ Resume \/ Abandon \/ Cheat \/ Tick \/ EndShown
  <2>1. screen # "off" /\ UNCHANGED table
    BY <1>1 DEF StartGame, Browse, Pause, Resume, Abandon, Cheat, Tick, EndShown
  <2> QED
    BY <2>1, SameFile DEF Tables, table
<1>2. CASE UNCHANGED vars
  BY <1>2, SameFile DEF Tables, vars
<1>3. CASE Launch
  <2>1. entries' = Kept(Sorted(file.list)) /\ file' = file
    BY <1>3 DEF Launch
  <2>2. file.list \in Seq(Scores)
    BY DEF Tables
  <2>3. file.list # <<>> => 1 \in 1..Len(file.list)
    BY <2>2
  <2>4. /\ entries' \in Seq(Scores) /\ Len(entries') <= MaxEntries
        /\ file.list # <<>> => entries' # <<>> /\ entries'[1] >= file.list[1]
    BY <2>1, <2>2, <2>3, RankedIs
  <2> QED
    BY <2>1, <2>4, SameFile DEF Tables
<1>4. CASE EnterName
  <2>1. screen # "off" /\ entries' = Added(entries, final) /\ file' \in Saves(entries')
    BY <1>4 DEF EnterName
  <2>2. /\ entries' \in Seq(Scores) /\ Len(entries') <= MaxEntries
        /\ entries # <<>> => entries' # <<>> /\ entries'[1] >= entries[1]
    BY <2>1, AddedIs DEF Tables
  <2>3. /\ file' \in [ok : BOOLEAN, list : Seq(Scores)] /\ Len(file'.list) <= MaxEntries
        /\ file'.list \in {entries', file.list, <<>>}
    BY <2>1, <2>2, SavesIs
  <2>4. file.list # <<>> => entries' # <<>> /\ entries'[1] >= file.list[1]
    <3>1. ASSUME file.list # <<>> PROVE entries' # <<>> /\ entries'[1] >= file.list[1]
      <4>1. entries # <<>> /\ entries[1] >= file.list[1] /\ entries' # <<>> /\ entries'[1] >= entries[1]
        BY <2>1, <2>2, <3>1 DEF Tables
      <4>2. file.list[1] \in Scores /\ entries[1] \in Scores /\ entries'[1] \in Scores
        BY <2>2, <3>1, <4>1 DEF Tables
      <4> QED
        BY <4>1, <4>2, Limits DEF Scores
    <3> QED
      BY <3>1
  <2>5. entries' # <<>> => entries'[1] >= entries'[1]
    <3>1. entries' # <<>> => entries'[1] \in Scores
      BY <2>2
    <3> QED
      BY <3>1, Limits DEF Scores
  <2>6. Tables'
    BY <2>2, <2>3, <2>4, <2>5 DEF Tables
  <2>7. NoWorse
    <3>1. CASE file' = [ok |-> TRUE, list |-> entries']
      BY <2>4, <3>1 DEF NoWorse
    <3>2. CASE file' = Broken
      BY <3>2 DEF NoWorse, Broken
    <3> QED
      BY <2>1, <3>1, <3>2, SameFile DEF Saves
  <2> QED
    BY <2>6, <2>7
<1>5. CASE Quit \/ Kill
  <2>1. screen # "off" /\ screen' = "off" /\ entries' = <<>> /\ file' \in Saves(entries)
    BY <1>5 DEF Quit, Kill, Exits, Saves
  <2>2. /\ file' \in [ok : BOOLEAN, list : Seq(Scores)] /\ Len(file'.list) <= MaxEntries
    BY <2>1, SavesIs DEF Tables
  <2>3. Tables'
    <3>1. entries' \in Seq(Scores) /\ Len(entries') <= MaxEntries
      BY <2>1, Limits
    <3> QED
      BY <2>1, <2>2, <3>1 DEF Tables
  <2>4. NoWorse
    <3>1. CASE file' = [ok |-> TRUE, list |-> entries]
      BY <2>1, <3>1 DEF NoWorse, Tables
    <3>2. CASE file' = Broken
      BY <3>2 DEF NoWorse, Broken
    <3> QED
      BY <2>1, <3>1, <3>2, SameFile DEF Saves
  <2> QED
    BY <2>3, <2>4
<1> QED
  BY <1>1, <1>2, <1>3, <1>4, <1>5 DEF Next

-----------------------------------------------------------------------------
(* The theorems.                                                           *)

LEMMA Begins ==
    ASSUME Init
    PROVE  Played /\ Tables
<1>1. 0 \in 0..Levels /\ 0 \in 0..MaxScore /\ 0 <= MaxEntries
  BY Limits
<1>2. Played
  BY <1>1 DEF Init, Played, Ranged, InPlay, Won, Screens
<1>3. Tables
  <2>1. <<>> \in Seq(Scores) /\ Len(<<>>) = 0
    OBVIOUS
  <2>2. file \in [ok : BOOLEAN, list : Seq(Scores)] /\ file.list = <<>>
    <3>1. file = [ok |-> FALSE, list |-> <<>>] \/ file = [ok |-> TRUE, list |-> <<>>]
      BY DEF Init, Broken
    <3>2. CASE file = [ok |-> FALSE, list |-> <<>>]
      BY <2>1, <3>2
    <3>3. CASE file = [ok |-> TRUE, list |-> <<>>]
      BY <2>1, <3>3
    <3> QED
      BY <3>1, <3>2, <3>3
  <2> QED
    BY <1>1, <2>1, <2>2 DEF Init, Tables
<1> QED
  BY <1>2, <1>3

LEMMA GoesOn ==
    ASSUME Played, Tables, [Next]_vars
    PROVE  Played' /\ Tables' /\ NoWorse
<1>1. final \in Scores
  BY DEF Played, Ranged, Scores
<1>2. Tables' /\ NoWorse
  BY <1>1, TablesKept
<1>3. Played'
  BY ScreensKeep, Starts, CheatKeeps, TickKeeps DEF Next
<1> QED
  BY <1>2, <1>3

LEMMA PlayedIsFair ==
    ASSUME Played, Tables
    PROVE  GameFair
<1>1. TypeOK
  <2>1. ToSet(entries) \subseteq 0..MaxScore
    <3>1. \A i \in DOMAIN entries : entries[i] \in Scores
      BY DEF Tables
    <3>2. \A x \in ToSet(entries) : x \in Scores
      BY <3>1, Zenon DEF ToSet
    <3> QED
      BY <3>2 DEF Scores
  <2>2. file.ok \in BOOLEAN
    BY DEF Tables
  <2> QED
    BY <2>1, <2>2 DEF TypeOK, Played, Ranged, Screens, Tables
<1>2. NoPlayAfterDeath
  BY DEF NoPlayAfterDeath, Played, InPlay, Alive
<1>3. VictoryEarned
  BY DEF VictoryEarned, Played, Won, Cap
<1> QED
  BY <1>1, <1>2, <1>3 DEF GameFair

(* Whatever keys, cheats, bites, launches and kills follow each other, the *)
(* game goes by its rules: states and timers stay in their ranges, nobody  *)
(* plays on without a life, and a victory without the cheat key X has the  *)
(* score of every dot of every level (level.py:131-157, game.py:160-175).  *)
THEOREM GamePlayedFair == Spec => []GameFair
<1>1. Init => Played /\ Tables
  BY Begins
<1>2. Played /\ Tables /\ [Next]_vars => (Played /\ Tables)'
  BY GoesOn
<1>3. Played /\ Tables => GameFair
  BY PlayedIsFair
<1> QED
  BY <1>1, <1>2, <1>3, PTL DEF Spec

(* No launch, game, name, quit or kill replaces the best score on disk by  *)
(* a lower one while the file stays readable: the table in memory leads it *)
(* from the launch on (highscore.py:63, 71).                               *)
THEOREM BestKept == Spec => BestStays
<1>1. Init => Played /\ Tables
  BY Begins
<1>2. Played /\ Tables /\ [Next]_vars => (Played /\ Tables)' /\ NoWorse
  BY GoesOn
<1>3. NoWorse => [file.ok /\ file'.ok /\ file.list # <<>> =>
                    file'.list # <<>> /\ file'.list[1] >= file.list[1]]_vars
  BY DEF NoWorse
<1> QED
  BY <1>1, <1>2, <1>3, PTL DEF Spec, BestStays
=============================================================================

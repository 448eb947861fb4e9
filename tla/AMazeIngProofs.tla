-------------------------- MODULE AMazeIngProofs --------------------------
(***************************************************************************)
(* The two sides of every wall agree, on every grid, with every file and   *)
(* in all the mazes the viewers ask for; the directions written lead to    *)
(* the exit and nothing leads there sooner; every viewer shows one maze;   *)
(* and every maze is whole, a tree when it shall be perfect, and without   *)
(* an open square, whichever algorithm has carved it.                      *)
(*                                                                         *)
(* Walls are changed by remove_wall and set_wall, which keep the two sides *)
(* alike as long as the cell is one of the grid, by passages that open or  *)
(* close a set of walls, and by the borders, which open one side only: the *)
(* entry and the exit must have no neighbour there, which the checks of the*)
(* configuration file secure long before.                                  *)
(*                                                                         *)
(* The search is judged ring by ring: what waits in the queue is as far    *)
(* from the entry as its head or one step further, and who has left it has *)
(* left no neighbour behind.  The path is then read back along prev, each  *)
(* cell one step nearer than the one before.                               *)
(*                                                                         *)
(* A maze is judged by its walls and by counting them.  Two cells are      *)
(* linked when no set of cells without a way out parts them, which is what *)
(* the rounds of Reachable come to.  dfs and prims grow one linked part by *)
(* a cell and an open wall at a time; kruskals makes one set of two with   *)
(* each, and its roots tell the sets apart, whatever find has compressed.  *)
(* Who links n cells has opened n - 1 walls or more: in a perfect maze no  *)
(* wall can be spared, and so no square, where one could, is open; in the  *)
(* others a wall set in an open square leaves a way round it.              *)
(***************************************************************************)
EXTENDS AMazeView, FiniteSetTheorems, WellFoundedInduction, TLAPS

Walls == [Cells -> SUBSET Dirs]

ConfFits == {conf.entry, conf.exit} \subseteq {c \in Cells : OnBorder(c)}

Edges == {e \in Cells \X Dirs : Beyond(e[1], e[2]) \in Cells}

(* The walls that a carving still has in hand are walls between two cells. *)
IInv ==
    /\ walls \in Walls /\ Valid(walls)
    /\ stack \in Seq(Cells) /\ frontier \subseteq Edges /\ edges \subseteq Edges
    /\ phase \notin {"config", "failed"} \/ Shown => ConfFits

-----------------------------------------------------------------------------
(* Geometry.                                                               *)

LEMMA OppositeFacts ==
    \A d \in Dirs : Opposite[d] \in Dirs /\ Opposite[Opposite[d]] = d
  BY DEF Opposite, Dirs

(* From a cell and its neighbour, the same wall is seen in opposite        *)
(* directions, and different directions lead to different cells.           *)
LEMMA BeyondFacts ==
    ASSUME NEW c \in Cells, NEW d \in Dirs
    PROVE  /\ Beyond(c, d) # c
           /\ Beyond(Beyond(c, d), Opposite[d]) = c
           /\ \A e \in Dirs : Beyond(c, e) = Beyond(c, d) => e = d
<1>1. PICK x \in Int, y \in Int : c = <<x, y>>
  BY SizeAssumption DEF Cells
<1>2. /\ Beyond(c, "N") = <<x, y - 1>> /\ Beyond(c, "S") = <<x, y + 1>>
      /\ Beyond(c, "E") = <<x + 1, y>> /\ Beyond(c, "W") = <<x - 1, y>>
  BY <1>1 DEF Beyond
<1>3. /\ Beyond(<<x, y - 1>>, "S") = c /\ Beyond(<<x, y + 1>>, "N") = c
      /\ Beyond(<<x + 1, y>>, "W") = c /\ Beyond(<<x - 1, y>>, "E") = c
  BY <1>1 DEF Beyond
<1>4. /\ Opposite["N"] = "S" /\ Opposite["S"] = "N" /\ Opposite["E"] = "W" /\ Opposite["W"] = "E"
  BY DEF Opposite, Dirs
<1> QED
  BY <1>1, <1>2, <1>3, <1>4 DEF Dirs

(* What _open_border opens leads out of the grid.                          *)
LEMMA BorderLeadsOut ==
    ASSUME NEW c \in Cells, OnBorder(c)
    PROVE  Beyond(c, BorderDir(c)) \notin Cells
<1>1. PICK x \in 0..Width - 1, y \in 0..Height - 1 : c = <<x, y>>
  BY DEF Cells
<1>2. x \in {0, Width - 1} \/ y \in {0, Height - 1}
  BY <1>1 DEF OnBorder
<1> QED
  BY <1>1, <1>2, SizeAssumption DEF BorderDir, Beyond, Cells

-----------------------------------------------------------------------------
(* The operations on walls.                                                *)

(* remove_wall.                                                            *)
LEMMA RemoveWallAgrees ==
    ASSUME NEW w \in Walls, Valid(w), NEW c \in Cells, NEW d \in Dirs, Beyond(c, d) \in Cells
    PROVE  RemoveWall(w, c, d) \in Walls /\ Valid(RemoveWall(w, c, d))
<1> DEFINE v == RemoveWall(w, c, d)
           n == Beyond(c, d)
<1>1. \A x \in Cells, e \in Dirs :
         e \in v[x] <=> e \in w[x] /\ ~(x = c /\ e = d) /\ ~(x = n /\ e = Opposite[d])
  BY BeyondFacts DEF RemoveWall, Walls
<1>2. v \in Walls
  BY DEF RemoveWall, Walls
<1>3. ASSUME NEW x \in Cells, NEW e \in Dirs, Beyond(x, e) \in Cells
      PROVE  e \in v[x] <=> Opposite[e] \in v[Beyond(x, e)]
  <2> DEFINE y == Beyond(x, e)
  <2>1. Beyond(y, Opposite[e]) = x /\ Beyond(n, Opposite[d]) = c
    BY <1>3, BeyondFacts
  <2>2. x = c /\ e = d <=> y = n /\ Opposite[e] = Opposite[d]
    BY <2>1, OppositeFacts
  <2>3. x = n /\ e = Opposite[d] <=> y = c /\ Opposite[e] = d
    BY <2>1, OppositeFacts
  <2>4. e \in w[x] <=> Opposite[e] \in w[y]
    BY <1>3 DEF Valid
  <2> HIDE DEF v, n
  <2> QED
    BY <1>1, <1>3, <2>2, <2>3, <2>4, OppositeFacts
<1> QED
  BY <1>2, <1>3 DEF Valid

(* set_wall.                                                               *)
LEMMA SetWallAgrees ==
    ASSUME NEW w \in Walls, Valid(w), NEW c \in Cells, NEW d \in Dirs, Beyond(c, d) \in Cells
    PROVE  SetWall(w, c, d) \in Walls /\ Valid(SetWall(w, c, d))
<1> DEFINE v == SetWall(w, c, d)
           n == Beyond(c, d)
<1>1. \A x \in Cells, e \in Dirs :
         e \in v[x] <=> e \in w[x] \/ (x = c /\ e = d) \/ (x = n /\ e = Opposite[d])
  BY BeyondFacts DEF SetWall, Walls
<1>2. v \in Walls
  BY OppositeFacts DEF SetWall, Walls
<1>3. ASSUME NEW x \in Cells, NEW e \in Dirs, Beyond(x, e) \in Cells
      PROVE  e \in v[x] <=> Opposite[e] \in v[Beyond(x, e)]
  <2> DEFINE y == Beyond(x, e)
  <2>1. Beyond(y, Opposite[e]) = x /\ Beyond(n, Opposite[d]) = c
    BY <1>3, BeyondFacts
  <2>2. x = c /\ e = d <=> y = n /\ Opposite[e] = Opposite[d]
    BY <2>1, OppositeFacts
  <2>3. x = n /\ e = Opposite[d] <=> y = c /\ Opposite[e] = d
    BY <2>1, OppositeFacts
  <2>4. e \in w[x] <=> Opposite[e] \in w[y]
    BY <1>3 DEF Valid
  <2> HIDE DEF v, n
  <2> QED
    BY <1>1, <1>3, <2>2, <2>3, <2>4, OppositeFacts
<1> QED
  BY <1>2, <1>3 DEF Valid

(* The passes that open or close a set of walls.                           *)
LEMMA PassAgrees ==
    ASSUME NEW w \in Walls, Valid(w), NEW set
    PROVE  /\ Opened(w, set) \in Walls /\ Valid(Opened(w, set))
           /\ Closed(w, set) \in Walls /\ Valid(Closed(w, set))
<1>1. Opened(w, set) \in Walls /\ Closed(w, set) \in Walls
  BY DEF Opened, Closed, Walls
<1>2. ASSUME NEW x \in Cells, NEW e \in Dirs, Beyond(x, e) \in Cells
      PROVE  /\ e \in Opened(w, set)[x] <=> Opposite[e] \in Opened(w, set)[Beyond(x, e)]
             /\ e \in Closed(w, set)[x] <=> Opposite[e] \in Closed(w, set)[Beyond(x, e)]
  <2> DEFINE y == Beyond(x, e)
             f == Opposite[e]
  <2>1. Beyond(y, f) = x /\ Opposite[f] = e /\ f \in Dirs
    BY BeyondFacts, OppositeFacts
  <2>2. e \in w[x] <=> f \in w[y]
    BY <1>2 DEF Valid
  <2>3. /\ e \in Opened(w, set)[x] <=> e \in w[x] /\ <<x, e>> \notin set /\ <<y, f>> \notin set
        /\ e \in Closed(w, set)[x] <=> e \in w[x] \/ <<x, e>> \in set \/ <<y, f>> \in set
    BY DEF Opened, Closed
  <2>4. /\ f \in Opened(w, set)[y] <=>
              f \in w[y] /\ <<y, f>> \notin set /\ <<Beyond(y, f), Opposite[f]>> \notin set
        /\ f \in Closed(w, set)[y] <=>
              f \in w[y] \/ <<y, f>> \in set \/ <<Beyond(y, f), Opposite[f]>> \in set
    BY <1>2, <2>1 DEF Opened, Closed
  <2> HIDE DEF y, f
  <2> QED
    BY <2>1, <2>2, <2>3, <2>4 DEF y, f
<1> QED
  BY <1>1, <1>2 DEF Valid

(* _open_border, at the entry and the exit.                                *)
LEMMA BordersAgree ==
    ASSUME NEW w \in Walls, Valid(w),
           NEW a \in Cells, NEW b \in Cells, OnBorder(a), OnBorder(b),
           NEW v, v = [w EXCEPT ![a] = @ \ {BorderDir(a)}, ![b] = @ \ {BorderDir(b)}]
    PROVE  v \in Walls /\ Valid(v)
<1>1. v \in Walls
  BY DEF Walls
<1>2. ASSUME NEW x \in Cells, NEW e \in Dirs, Beyond(x, e) \in Cells
      PROVE  e \in v[x] <=> e \in w[x]
  <2>1. ~(x = a /\ e = BorderDir(a)) /\ ~(x = b /\ e = BorderDir(b))
    BY <1>2, BorderLeadsOut
  <2> QED
    BY <2>1 DEF Walls
<1>3. ASSUME NEW x \in Cells, NEW e \in Dirs, Beyond(x, e) \in Cells
      PROVE  e \in v[x] <=> Opposite[e] \in v[Beyond(x, e)]
  <2>1. Beyond(Beyond(x, e), Opposite[e]) \in Cells /\ Opposite[e] \in Dirs
    BY BeyondFacts, OppositeFacts
  <2> QED
    BY <1>2, <1>3, <2>1 DEF Valid
<1> QED
  BY <1>1, <1>3 DEF Valid

(* A square row by row first exists: the smallest column of the smallest   *)
(* row.                                                                    *)
LEMMA FirstIsOne ==
    ASSUME NEW set \in SUBSET Cells, set # {}
    PROVE  First(set) \in set
<1> DEFINE Below == OpToRel(<, Nat)
           rows  == {c[2] : c \in set}
<1>0. \A a, b \in Nat : ~(<<a, b>> \in Below) => b <= a
  BY DEF OpToRel
<1>1. \A c \in Cells : c[1] \in Nat /\ c[2] \in Nat
  BY SizeAssumption DEF Cells
<1>2. IsWellFoundedOn(Below, Nat)
  BY NatLessThanWellFounded
<1>3. PICK y \in rows : \A z \in rows : ~(<<z, y>> \in Below)
  <2>1. rows \subseteq Nat /\ rows # {}
    BY <1>1
  <2> HIDE DEF rows, Below
  <2> QED
    BY <1>2, <2>1, WFMin
<1> DEFINE cols == {c[1] : c \in {k \in set : k[2] = y}}
<1>4. PICK x \in cols : \A z \in cols : ~(<<z, x>> \in Below)
  <2>1. cols \subseteq Nat /\ cols # {}
    BY <1>1
  <2> HIDE DEF cols, Below
  <2> QED
    BY <1>2, <2>1, WFMin
<1>5. PICK c \in set : c[1] = x /\ c[2] = y
  OBVIOUS
<1>6. \A z \in rows : y <= z
  <2>1. rows \subseteq Nat
    BY <1>1
  <2> HIDE DEF rows, Below
  <2> QED
    BY <1>0, <1>3, <2>1
<1>7. \A z \in cols : x <= z
  <2>1. cols \subseteq Nat
    BY <1>1
  <2> HIDE DEF cols, Below
  <2> QED
    BY <1>0, <1>4, <2>1
<1>8. \A o \in set : c[2] < o[2] \/ (c[2] = o[2] /\ c[1] <= o[1])
  <2> TAKE o \in set
  <2>1. y <= o[2] /\ o[2] \in Nat /\ y \in Nat
    BY <1>1, <1>6
  <2>2. o[2] = y => x <= o[1]
    BY <1>7
  <2> QED
    BY <1>5, <2>1, <2>2
<1> QED
  BY <1>5, <1>8 DEF First

-----------------------------------------------------------------------------
(* The invariant.                                                          *)

LEMMA AllWallsAgree ==
    LET w == [c \in Cells |-> Dirs] IN w \in Walls /\ Valid(w)
  BY OppositeFacts DEF Walls, Valid

LEMMA IInvInit == ViewInit => IInv
<1> SUFFICES ASSUME ViewInit PROVE IInv
  OBVIOUS
<1>1. walls \in Walls /\ Valid(walls)
  BY AllWallsAgree DEF ViewInit, Init
<1>2. stack \in Seq(Cells) /\ frontier \subseteq Edges /\ edges \subseteq Edges
  BY DEF ViewInit, Init
<1>3. phase = "config" /\ ~Shown
  BY DEF ViewInit, Init, ConfigInit, Shown
<1> QED
  BY <1>1, <1>2, <1>3 DEF IInv

LEMMA InnerWallsAreEdges == InnerWalls \subseteq Edges
  BY DEF InnerWalls, Edges, Plain, Dirs

LEMMA FrontierOfEdges ==
    ASSUME NEW c \in Cells, NEW seen
    PROVE  FrontierOf(c, seen) \subseteq Edges
  BY DEF FrontierOf, Edges, Plain

(* The checks of the configuration file.                                   *)
LEMMA ParseKeeps == IInv /\ Parse /\ UNCHANGED <<view, tried>> => IInv'
<1> SUFFICES ASSUME IInv, Parse, UNCHANGED <<view, tried>> PROVE IInv'
  OBVIOUS
<1>1. UNCHANGED <<walls, stack, frontier, edges>>
  BY DEF Parse, carver
<1>2. phase \notin {"config", "failed"} \/ Shown => ConfFits
  BY DEF IInv
<1>3. (phase \notin {"config", "failed"} \/ Shown => ConfFits)'
  <2>1. CASE ReadLine \/ Reject
    <3>1. UNCHANGED <<conf, view>> /\ phase' \in {"config", "failed"}
      BY <2>1 DEF ReadLine, Reject
    <3> QED
      BY <1>2, <3>1 DEF ConfFits, Shown
  <2>2. CASE Build
    <3>1. /\ conf'.entry = raw["ENTRY"].pair /\ conf'.exit = raw["EXIT"].pair
          /\ CoordOk(raw["ENTRY"]) /\ CoordOk(raw["EXIT"])
      BY <2>2 DEF Build, MazeConfig, ConfigOk
    <3> QED
      BY <3>1 DEF CoordOk, ConfFits
  <2> QED
    BY <2>1, <2>2 DEF Parse, Configure
<1> QED
  BY <1>1, <1>3 DEF IInv, Valid

(* The actions of the generator.                                           *)
LEMMA GeneratorKeeps == IInv /\ Next /\ UNCHANGED <<view, tried>> => IInv'
<1> SUFFICES ASSUME IInv, Next, UNCHANGED <<view, tried>> PROVE IInv'
  OBVIOUS
<1>1. CASE Parse
  BY <1>1, ParseKeeps
<1>2. ASSUME ~Parse PROVE conf' = conf /\ phase \notin {"config", "failed"}
  BY <1>2 DEF Next, Begin, CarveDfs, CarvePrims, CarveKruskals, CarveEnds, AddExtra, Fix3x3,
              EnsureTree, OpenBorders, Search, Write, Export, input
<1>3. ASSUME ~Parse PROVE (phase \notin {"config", "failed"} \/ Shown => ConfFits)'
  BY <1>2, <1>3 DEF IInv, ConfFits, Shown
<1>4. CASE Begin
  <2>1. UNCHANGED walls
    BY <1>4 DEF Begin
  <2>2. stack' \in Seq(Cells) /\ frontier' \subseteq Edges /\ edges' \subseteq Edges
    <3>1. ASSUME NEW start \in Plain, stack' = <<start>>, UNCHANGED <<frontier, edges>>
          PROVE  stack' \in Seq(Cells) /\ frontier' \subseteq Edges /\ edges' \subseteq Edges
      BY <3>1 DEF IInv, Plain
    <3>2. ASSUME NEW start \in Plain, frontier' = FrontierOf(start, world.pattern),
                 UNCHANGED <<stack, edges>>
          PROVE  stack' \in Seq(Cells) /\ frontier' \subseteq Edges /\ edges' \subseteq Edges
      BY <3>2, FrontierOfEdges DEF IInv, Plain
    <3>3. ASSUME edges' = InnerWalls \/ UNCHANGED edges, UNCHANGED <<stack, frontier>>
          PROVE  stack' \in Seq(Cells) /\ frontier' \subseteq Edges /\ edges' \subseteq Edges
      BY <3>3, InnerWallsAreEdges DEF IInv
    <3> QED
      BY <1>4, <3>1, <3>2, <3>3 DEF Begin, carver
  <2>3. ~Parse
    BY <1>4 DEF Begin, Parse, Configure, ReadLine, Build, Reject
  <2> QED
    BY <1>3, <2>1, <2>2, <2>3 DEF IInv, Valid
<1>5. CASE CarveDfs
  <2> DEFINE top == stack[Len(stack)]
  <2>1. top \in Cells /\ UNCHANGED <<frontier, edges>>
    BY <1>5 DEF CarveDfs, IInv
  <2>2. ~Parse
    BY <1>5 DEF CarveDfs, Parse, Configure, ReadLine, Build, Reject
  <2>3. ASSUME NEW d \in Dirs, Beyond(top, d) \in Cells,
               walls' = RemoveWall(walls, top, d), stack' = Append(stack, Beyond(top, d))
        PROVE  IInv'
    <3>1. walls' \in Walls /\ Valid(walls')
      BY <2>1, <2>3, RemoveWallAgrees DEF IInv
    <3>2. stack' \in Seq(Cells)
      BY <2>3 DEF IInv
    <3> QED
      BY <1>3, <2>1, <2>2, <3>1, <3>2 DEF IInv, Valid
  <2>4. ASSUME stack' = SubSeq(stack, 1, Len(stack) - 1), UNCHANGED walls
        PROVE  IInv'
    <3>1. stack' \in Seq(Cells)
      BY <1>5, <2>4 DEF CarveDfs, IInv
    <3> QED
      BY <1>3, <2>1, <2>2, <2>4, <3>1 DEF IInv, Valid
  <2> QED
    BY <1>5, <2>3, <2>4 DEF CarveDfs
<1>6. CASE CarvePrims
  <2>1. PICK e \in frontier :
           IF Beyond(e[1], e[2]) \in visited
           THEN frontier' = frontier \ {e} /\ UNCHANGED walls
           ELSE /\ walls' = RemoveWall(walls, e[1], e[2])
                /\ frontier' = (frontier \ {e}) \cup FrontierOf(Beyond(e[1], e[2]), visited)
    BY <1>6 DEF CarvePrims
  <2>2. e[1] \in Cells /\ e[2] \in Dirs /\ Beyond(e[1], e[2]) \in Cells
    BY DEF IInv, Edges
  <2>3. UNCHANGED <<stack, edges>> /\ ~Parse
    BY <1>6 DEF CarvePrims, Parse, Configure, ReadLine, Build, Reject
  <2>4. walls' \in Walls /\ Valid(walls')
    BY <2>1, <2>2, RemoveWallAgrees DEF IInv
  <2>5. frontier' \subseteq Edges
    BY <2>1, <2>2, FrontierOfEdges DEF IInv
  <2> QED
    BY <1>3, <2>3, <2>4, <2>5 DEF IInv, Valid
<1>7. CASE CarveKruskals
  <2>1. PICK e \in edges : edges' = edges \ {e}
                          /\ (UNCHANGED walls \/ walls' = RemoveWall(walls, e[1], e[2]))
    BY <1>7 DEF CarveKruskals
  <2>2. e[1] \in Cells /\ e[2] \in Dirs /\ Beyond(e[1], e[2]) \in Cells
    BY DEF IInv, Edges
  <2>3. UNCHANGED <<stack, frontier>> /\ ~Parse
    BY <1>7 DEF CarveKruskals, Parse, Configure, ReadLine, Build, Reject
  <2>4. walls' \in Walls /\ Valid(walls')
    BY <2>1, <2>2, RemoveWallAgrees DEF IInv, Valid
  <2> QED
    BY <1>3, <2>1, <2>3, <2>4 DEF IInv, Valid
<1>8. CASE CarveEnds
  <2>1. PICK seen \in Seen :
           IF Bridges(seen) # {}
           THEN \E e \in Bridges(seen) :
                  walls' = RemoveWall(walls, e[1], e[2]) /\ stack' = <<e[1]>>
           ELSE UNCHANGED <<walls, stack>>
    BY <1>8 DEF CarveEnds
  <2>2. UNCHANGED <<frontier, edges>> /\ ~Parse
    BY <1>8 DEF CarveEnds, Parse, Configure, ReadLine, Build, Reject
  <2>3. ASSUME NEW e \in Bridges(seen)
        PROVE  e[1] \in Cells /\ e[2] \in Dirs /\ Beyond(e[1], e[2]) \in Cells
    BY DEF Bridges, Plain
  <2>4. walls' \in Walls /\ Valid(walls')
    BY <2>1, <2>3, RemoveWallAgrees DEF IInv, Valid
  <2>5. stack' \in Seq(Cells)
    <3>1. UNCHANGED stack \/ \E c \in Cells : stack' = <<c>>
      BY <2>1, <2>3
    <3>2. \A c \in Cells : <<c>> \in Seq(Cells)
      OBVIOUS
    <3>3. stack \in Seq(Cells)
      BY DEF IInv
    <3> QED
      BY <3>1, <3>2, <3>3
  <2> QED
    BY <1>3, <2>2, <2>4, <2>5 DEF IInv, Valid
<1>9. ASSUME AddExtra \/ Fix3x3 \/ EnsureTree \/ OpenBorders
      PROVE  IInv'
  <2>1. UNCHANGED <<stack, frontier, edges>> /\ ~Parse
    BY <1>9 DEF AddExtra, Fix3x3, EnsureTree, OpenBorders, carver,
                Parse, Configure, ReadLine, Build, Reject
  <2>2. walls' \in Walls /\ Valid(walls')
    <3>1. CASE AddExtra
      <4>1. \E set : walls' = Opened(walls, set)
        BY <3>1 DEF AddExtra
      <4> QED
        BY <4>1, PassAgrees DEF IInv
    <3>2. CASE EnsureTree
      <4>1. UNCHANGED walls \/ \E set : walls' = Closed(walls, set)
        BY <3>2 DEF EnsureTree
      <4> QED
        BY <4>1, PassAgrees DEF IInv, Valid
    <3>3. CASE Fix3x3
      <4> DEFINE wide == {c \in Squares : Open3x3(walls, c)}
      <4>1. CASE wide = {}
        BY <3>3, <4>1 DEF Fix3x3, IInv, Valid
      <4>2. CASE wide # {}
        <5> DEFINE f == First(wide)
                   m == <<f[1] + 1, f[2] + 1>>
        <5>1. walls' = SetWall(walls, m, "S")
          BY <3>3, <4>2 DEF Fix3x3
        <5>2. f \in Squares
          <6>1. wide \in SUBSET Cells
            BY DEF Squares
          <6> QED
            BY <4>2, <6>1, FirstIsOne
        <5>3. m \in Cells /\ Beyond(m, "S") \in Cells
          BY <5>2, SizeAssumption DEF Squares, Cells, Beyond
        <5> HIDE DEF m
        <5> QED
          BY <5>1, <5>3, SetWallAgrees DEF IInv, Dirs
      <4> QED
        BY <4>1, <4>2
    <3>4. CASE OpenBorders
      <4>1. ConfFits
        BY <3>4 DEF OpenBorders, IInv
      <4>2. walls' = [walls EXCEPT ![conf.entry] = @ \ {BorderDir(conf.entry)},
                                   ![conf.exit]  = @ \ {BorderDir(conf.exit)}]
        BY <3>4 DEF OpenBorders
      <4> QED
        BY <4>1, <4>2, BordersAgree DEF IInv, ConfFits
    <3> QED
      BY <1>9, <3>1, <3>2, <3>3, <3>4
  <2> QED
    BY <1>3, <2>1, <2>2 DEF IInv, Valid
<1>10. ASSUME Search \/ Write \/ Export
       PROVE  IInv'
  <2>1. UNCHANGED <<walls, stack, frontier, edges>> /\ ~Parse
    BY <1>10 DEF Search, Write, Export, carver, Parse, Configure, ReadLine, Build, Reject
  <2> QED
    BY <1>3, <2>1 DEF IInv, Valid
<1> QED
  BY <1>1, <1>4, <1>5, <1>6, <1>7, <1>8, <1>9, <1>10 DEF Next

(* The actions of the viewers change no wall, but begin a maze anew.       *)
LEMMA ViewerKeeps == IInv /\ [ViewNext]_allVars => IInv'
<1> SUFFICES ASSUME IInv, [ViewNext]_allVars PROVE IInv'
  OBVIOUS
<1>1. CASE Generate
  BY <1>1, GeneratorKeeps DEF Generate
<1>2. CASE Regenerate
  <2>1. /\ walls' = [c \in Cells |-> Dirs] /\ Shown
        /\ UNCHANGED <<conf, stack, frontier, edges>>
    BY <1>2 DEF Regenerate, Looking, input, carver
  <2>2. ConfFits'
    BY <2>1 DEF IInv, ConfFits
  <2> QED
    BY <2>1, <2>2, AllWallsAgree DEF IInv, Valid
<1>3. CASE UNCHANGED allVars
  BY <1>3 DEF allVars, vars, input, carver, IInv, Valid, Shown, ConfFits
<1>4. ASSUME \/ PassOver \/ Open \/ Close \/ TogglePath \/ Replay \/ ToggleDucks
             \/ ToggleMoving \/ DucksMove \/ PlayPath \/ Regenerated
      PROVE  IInv'
  <2>1. /\ UNCHANGED <<conf, walls, stack, frontier, edges>>
        /\ phase \notin {"config", "failed"} \/ Shown
    BY <1>4 DEF PassOver, Open, Close, TogglePath, Replay, ToggleDucks, ToggleMoving, DucksMove,
                PlayPath, Regenerated, More, Looking, Still, maker, input, carver
  <2> QED
    BY <2>1 DEF IInv, Valid, ConfFits
<1> QED
  BY <1>1, <1>2, <1>3, <1>4 DEF ViewNext

(* On every grid, for every configuration file and every use of the        *)
(* viewers, no wall ever has two opinions: is_valid refuses no maze        *)
(* (generator.py:114).                                                     *)
THEOREM WallsAlwaysAgree == ViewSpec => []WallsAgree
<1>1. IInv => WallsAgree
  BY DEF IInv, WallsAgree
<1> QED
  BY <1>1, IInvInit, ViewerKeeps, PTL DEF ViewSpec

-----------------------------------------------------------------------------
(* Functions that are given step by step.                                  *)

LEMMA NatMin ==
    ASSUME NEW T \in SUBSET Nat, T # {}
    PROVE  \E m \in T : \A k \in T : m <= k
<1> DEFINE R == OpToRel(<, Nat)
<1>1. IsWellFoundedOn(R, Nat)
  BY NatLessThanWellFounded
<1>2. \A k, m \in Nat : k < m => <<k, m>> \in R
  BY DEF OpToRel
<1> HIDE DEF R
<1>3. PICK m \in T : \A k \in T : ~ (<<k, m>> \in R)
  BY <1>1, WFMin
<1>4. ASSUME NEW k \in T PROVE m <= k
  <2>1. ~ (k < m) /\ k \in Nat /\ m \in Nat
    BY <1>2, <1>3
  <2> QED
    BY <2>1
<1> QED
  BY <1>4

(* f begins at a and follows g for n steps.                                *)
Follows(f, n, a, g, S) ==
    /\ f \in [0..n -> S]
    /\ f[0] = a
    /\ \A k \in 0..n : k # 0 => f[k] = g[f[k - 1]]

LEMMA FollowsSame ==
    ASSUME NEW S, NEW a \in S, NEW g \in [S -> S], NEW m \in Nat, NEW n \in Nat,
           NEW e, NEW f, Follows(e, m, a, g, S), Follows(f, n, a, g, S)
    PROVE  \A k \in Nat : k <= m /\ k <= n => e[k] = f[k]
<1> DEFINE T == {k \in Nat : k <= m /\ k <= n /\ e[k] # f[k]}
<1> SUFFICES ASSUME T # {} PROVE FALSE
  OBVIOUS
<1>1. PICK k \in T : \A j \in T : k <= j
  <2>1. T \in SUBSET Nat
    OBVIOUS
  <2> HIDE DEF T
  <2> QED
    BY <2>1, NatMin
<1>2. k \in Nat /\ k <= m /\ k <= n /\ e[k] # f[k]
  OBVIOUS
<1>3. k # 0
  BY <1>2 DEF Follows
<1>4. k - 1 \in Nat /\ k - 1 <= m /\ k - 1 <= n /\ ~(k <= k - 1) /\ k \in 0..m /\ k \in 0..n
  BY <1>2, <1>3
<1>5. e[k - 1] = f[k - 1]
  BY <1>1, <1>4
<1>6. e[k] = g[e[k - 1]] /\ f[k] = g[f[k - 1]]
  BY <1>3, <1>4 DEF Follows
<1> QED
  BY <1>2, <1>5, <1>6

LEMMA FollowsExists ==
    ASSUME NEW S, NEW a \in S, NEW g \in [S -> S]
    PROVE  \A n \in Nat : \E f : Follows(f, n, a, g, S)
<1> DEFINE T == {n \in Nat : ~\E f : Follows(f, n, a, g, S)}
<1> SUFFICES ASSUME T # {} PROVE FALSE
  OBVIOUS
<1>1. PICK n \in T : \A j \in T : n <= j
  <2>1. T \in SUBSET Nat
    OBVIOUS
  <2> HIDE DEF T
  <2> QED
    BY <2>1, NatMin
<1>2. n \in Nat /\ ~\E f : Follows(f, n, a, g, S)
  OBVIOUS
<1>3. n # 0
  <2> SUFFICES ASSUME n = 0 PROVE FALSE
    OBVIOUS
  <2> DEFINE f == [k \in 0..0 |-> a]
  <2>1. \A k \in 0..0 : k = 0
    OBVIOUS
  <2>2. Follows(f, 0, a, g, S)
    BY <2>1 DEF Follows
  <2> HIDE DEF f
  <2> QED
    BY <1>2, <2>2
<1>4. n - 1 \in Nat /\ ~(n <= n - 1)
  BY <1>2, <1>3
<1>5. PICK f : Follows(f, n - 1, a, g, S)
  BY <1>1, <1>4
<1> DEFINE h == [k \in 0..n |-> IF k = n THEN g[f[n - 1]] ELSE f[k]]
<1>6. \A k \in 0..n : k = n \/ k \in 0..(n - 1)
  BY <1>2, <1>3
<1>7. f \in [0..(n - 1) -> S] /\ n - 1 \in 0..(n - 1) /\ 0 \in 0..n /\ n \in 0..n
  BY <1>4, <1>5 DEF Follows
<1>8. h \in [0..n -> S]
  BY <1>6, <1>7
<1>9. h[0] = a
  BY <1>3, <1>5, <1>7 DEF Follows
<1>10. ASSUME NEW k \in 0..n, k # 0 PROVE h[k] = g[h[k - 1]]
  <2>1. k - 1 \in 0..n /\ k - 1 # n
    BY <1>2, <1>10
  <2>2. h[k - 1] = f[k - 1]
    BY <2>1
  <2>3. CASE k = n
    BY <2>2, <2>3
  <2>4. CASE k # n
    <3>1. k \in 0..(n - 1)
      BY <1>6, <2>4
    <3>2. h[k] = f[k] /\ f[k] = g[f[k - 1]]
      BY <1>5, <1>10, <2>4, <3>1 DEF Follows
    <3> QED
      BY <2>2, <3>2
  <2> QED
    BY <2>3, <2>4
<1> HIDE DEF h
<1>11. Follows(h, n, a, g, S)
  BY <1>8, <1>9, <1>10 DEF Follows
<1> QED
  BY <1>2, <1>11

(* And for ever.                                                           *)
LEMMA FollowsAlways ==
    ASSUME NEW S, NEW a \in S, NEW g \in [S -> S]
    PROVE  \E f \in [Nat -> S] : f[0] = a /\ \A k \in Nat : k # 0 => f[k] = g[f[k - 1]]
<1> DEFINE to(n) == CHOOSE f : Follows(f, n, a, g, S)
<1>1. \A n \in Nat : Follows(to(n), n, a, g, S)
  BY FollowsExists
<1> DEFINE F == [n \in Nat |-> to(n)[n]]
<1> HIDE DEF to
<1>2. \A n \in Nat : F[n] = to(n)[n] /\ to(n)[n] \in S
  BY <1>1 DEF Follows
<1>3. F \in [Nat -> S]
  BY <1>2
<1>4. F[0] = a
  BY <1>1, <1>2 DEF Follows
<1>5. ASSUME NEW k \in Nat, k # 0 PROVE F[k] = g[F[k - 1]]
  <2>1. k - 1 \in Nat /\ k - 1 <= k /\ k - 1 <= k - 1 /\ k \in 0..k
    BY <1>5
  <2>2. to(k)[k] = g[to(k)[k - 1]]
    BY <1>1, <1>5, <2>1 DEF Follows
  <2>3. to(k)[k - 1] = to(k - 1)[k - 1]
    BY <1>1, <2>1, FollowsSame
  <2> QED
    BY <1>2, <2>1, <2>2, <2>3
<1> HIDE DEF F
<1> QED
  BY <1>3, <1>4, <1>5

-----------------------------------------------------------------------------
(* The breadth-first search.  d says how far a cell found is from the      *)
(* entry, along prev.                                                      *)

LEMMA CellsFinite == IsFiniteSet(Cells)
<1>1. IsFiniteSet(0..Width - 1) /\ IsFiniteSet(0..Height - 1)
  BY SizeAssumption, FS_Interval
<1> QED
  BY <1>1, FS_Product DEF Cells

(* The cells found are a tree, with the entry a for its root.              *)
Tree(w, a, p, d) ==
    /\ DOMAIN p \subseteq Cells
    /\ p \in [DOMAIN p -> DOMAIN p]
    /\ a \in DOMAIN p /\ p[a] = a
    /\ d \in [DOMAIN p -> Nat] /\ d[a] = 0
    /\ \A x \in DOMAIN p : d[x] < Cardinality(DOMAIN p)
    /\ \A x \in DOMAIN p : x # a => x \in Ways(w, p[x]) /\ d[x] = d[p[x]] + 1

(* The queue q goes from near to far, all that was found is next to it at  *)
(* most, and who has left it has all its neighbours found.                 *)
Rings(w, p, q, d) ==
    /\ q \in Seq(DOMAIN p)
    /\ \A i, j \in DOMAIN q : i <= j => d[q[i]] <= d[q[j]]
    /\ \A x \in DOMAIN p, i \in DOMAIN q : d[x] <= d[q[i]] + 1
    /\ \A x \in DOMAIN p :
         (\A i \in DOMAIN q : q[i] # x) =>
             \A y \in Ways(w, x) : y \in DOMAIN p /\ d[y] <= d[x] + 1

Searched == {"solve", "write", "export", "done"}

SearchInv ==
    phase \in Searched =>
        /\ \E d : Tree(walls, conf.entry, prev, d) /\ Rings(walls, prev, queue, d)
        /\ phase # "solve" => queue # <<>> /\ Head(queue) = conf.exit

Entries(s) == {s[i] : i \in DOMAIN s}

LEMMA EntriesJoined ==
    ASSUME NEW S, NEW s \in Seq(S), NEW t \in Seq(S)
    PROVE  s \o t \in Seq(S) /\ Entries(s \o t) = Entries(s) \cup Entries(t)
<1> DEFINE u == s \o t
           m == Len(s)
           n == Len(t)
<1>1. u \in Seq(S) /\ m \in Nat /\ n \in Nat /\ DOMAIN u = 1..(m + n)
      /\ DOMAIN s = 1..m /\ DOMAIN t = 1..n
  OBVIOUS
<1>2. \A i \in 1..m : u[i] = s[i]
  OBVIOUS
<1>3. \A i \in 1..n : u[m + i] = t[i]
  OBVIOUS
<1> HIDE DEF u, m, n
<1>4. ASSUME NEW y, y \in Entries(u) PROVE y \in Entries(s) \cup Entries(t)
  <2>1. PICK i \in 1..(m + n) : u[i] = y
    BY <1>1, <1>4 DEF Entries
  <2>2. CASE i \in 1..m
    BY <1>1, <1>2, <2>1, <2>2 DEF Entries
  <2>3. CASE i \notin 1..m
    <3>1. i - m \in 1..n /\ m + (i - m) = i
      BY <1>1, <2>1, <2>3
    <3>2. u[i] = t[i - m]
      BY <1>3, <3>1
    <3> QED
      BY <1>1, <2>1, <3>1, <3>2 DEF Entries
  <2> QED
    BY <2>2, <2>3
<1>5. \A i \in 1..m : i \in 1..(m + n)
  BY <1>1
<1>6. \A i \in 1..n : m + i \in 1..(m + n)
  BY <1>1
<1>7. Entries(s) \subseteq Entries(u)
  BY <1>1, <1>2, <1>5 DEF Entries
<1>8. Entries(t) \subseteq Entries(u)
  BY <1>1, <1>3, <1>6 DEF Entries
<1> QED
  BY <1>1, <1>4, <1>7, <1>8 DEF u

LEMMA OnwardIs ==
    ASSUME NEW c \in Cells
    PROVE  Onward(c) \in Seq(Cells) /\ Entries(Onward(c)) = Ways(walls, c) \ DOMAIN prev
<1> DEFINE by(d) == IF d \notin walls[c] /\ Beyond(c, d) \in Cells \ DOMAIN prev
                    THEN <<Beyond(c, d)>> ELSE <<>>
<1>1. \A d : by(d) \in Seq(Cells)
  OBVIOUS
<1>2. \A d : Entries(by(d)) = {y \in Cells \ DOMAIN prev : d \notin walls[c] /\ y = Beyond(c, d)}
  BY DEF Entries
<1>3. \A s, t \in Seq(Cells) : s \o t \in Seq(Cells) /\ Entries(s \o t) = Entries(s) \cup Entries(t)
  BY EntriesJoined
<1>4. Onward(c) = by("N") \o by("E") \o by("S") \o by("W")
  BY DEF Onward
<1>5. Ways(walls, c) \ DOMAIN prev =
         {y \in Cells \ DOMAIN prev : \E d \in {"N", "E", "S", "W"} : d \notin walls[c] /\ y = Beyond(c, d)}
  BY DEF Ways, Dirs
<1> HIDE DEF by
<1> DEFINE ne == by("N") \o by("E")
           nes == ne \o by("S")
<1>6. ne \in Seq(Cells) /\ Entries(ne) = Entries(by("N")) \cup Entries(by("E"))
  BY <1>1, <1>3, Zenon
<1>7. nes \in Seq(Cells) /\ Entries(nes) = Entries(ne) \cup Entries(by("S"))
  <2> HIDE DEF ne
  <2> QED
    BY <1>1, <1>3, <1>6, Zenon
<1>8. Onward(c) \in Seq(Cells) /\ Entries(Onward(c)) = Entries(nes) \cup Entries(by("W"))
  <2>1. Onward(c) = nes \o by("W")
    BY <1>4
  <2> HIDE DEF nes
  <2> QED
    BY <1>1, <1>3, <1>7, <2>1, Zenon
<1> HIDE DEF ne, nes
<1>9. Entries(Onward(c)) = Ways(walls, c) \ DOMAIN prev
  BY <1>2, <1>5, <1>6, <1>7, <1>8
<1> QED
  BY <1>8, <1>9

(* A turn of the loop: what the head of the queue leads on to is found.    *)
LEMMA RingGrows ==
    ASSUME NEW w, NEW a, NEW p, NEW q, NEW d, Tree(w, a, p, d), Rings(w, p, q, d), q # <<>>,
           NEW s \in Seq(Cells), Entries(s) = Ways(w, Head(q)) \ DOMAIN p,
           NEW p2,
           p2 = [x \in DOMAIN p \cup Entries(s) |-> IF x \in Entries(s) THEN Head(q) ELSE p[x]],
           NEW q2, q2 = Tail(q) \o s
    PROVE  \E e : Tree(w, a, p2, e) /\ Rings(w, p2, q2, e)
<1> DEFINE D == DOMAIN p
           new == Entries(s)
           h == Head(q)
           t == Tail(q)
           D2 == D \cup new
           e == [x \in D2 |-> IF x \in new THEN d[h] + 1 ELSE d[x]]
           n == Len(q)
           k == Len(s)
<1>1. /\ q \in Seq(D) /\ n \in Nat /\ n # 0 /\ DOMAIN q = 1..n /\ h = q[1] /\ h \in D
      /\ t \in Seq(D) /\ Len(t) = n - 1 /\ DOMAIN t = 1..(n - 1)
  BY DEF Rings
<1>2. \A i \in 1..(n - 1) : t[i] = q[i + 1] /\ i + 1 \in 1..n
  BY <1>1
<1>3. k \in Nat /\ DOMAIN s = 1..k /\ \A i \in 1..k : s[i] \in new
  BY DEF Entries
<1>4. new \subseteq Cells /\ new \cap D = {} /\ new \subseteq Ways(w, h)
  BY DEF Ways
<1>5. /\ DOMAIN q2 = 1..(n - 1 + k)
      /\ \A i \in 1..(n - 1) : q2[i] = t[i]
      /\ \A i \in 1..(n - 1 + k) : i \notin 1..(n - 1) => i - (n - 1) \in 1..k /\ q2[i] = s[i - (n - 1)]
  BY <1>1, <1>3
<1>6. q2 \in Seq(D2)
  <2>1. s \in Seq(new)
    BY <1>3
  <2>2. s \in Seq(D2) /\ t \in Seq(D2)
    <3>1. new \subseteq D2 /\ D \subseteq D2
      OBVIOUS
    <3> HIDE DEF D2, new, D, t
    <3> QED
      BY <1>1, <2>1, <3>1
  <2>3. q2 = t \o s
    OBVIOUS
  <2>4. \A u, v \in Seq(D2) : u \o v \in Seq(D2)
    <3> HIDE DEF D2
    <3> QED
      OBVIOUS
  <2> HIDE DEF D2, t
  <2> QED
    BY <2>2, <2>3, <2>4, Zenon
<1>7. DOMAIN p2 = D2 /\ \A x \in D2 : p2[x] = IF x \in new THEN h ELSE p[x]
  OBVIOUS
<1>8. /\ d \in [D -> Nat] /\ d[h] \in Nat
      /\ \A x \in new : e[x] = d[h] + 1
      /\ \A x \in D : e[x] = d[x] /\ d[x] \in Nat
  BY <1>1, <1>4 DEF Tree
<1>9. e \in [D2 -> Nat]
  BY <1>8
<1>10. Cardinality(D) \in Nat /\ Cardinality(D2) \in Nat /\ Cardinality(D) <= Cardinality(D2)
       /\ (new # {} => Cardinality(D) < Cardinality(D2))
  <2>1. D2 \subseteq Cells /\ IsFiniteSet(D2) /\ D \in SUBSET D2
    BY <1>4, CellsFinite, FS_Subset DEF Tree
  <2>2. new # {} => D # D2
    BY <1>4
  <2> HIDE DEF D, D2, new
  <2>3. Cardinality(D2) \in Nat /\ IsFiniteSet(D)
    BY <2>1, FS_CardinalityType, FS_Subset
  <2>4. Cardinality(D) \in Nat
    BY <2>3, FS_CardinalityType
  <2>5. Cardinality(D) <= Cardinality(D2) /\ (Cardinality(D2) = Cardinality(D) => D2 = D)
    BY <2>1, FS_Subset
  <2> QED
    BY <2>2, <2>3, <2>4, <2>5
<1>11. /\ \A i \in 1..n : d[q[i]] \in Nat /\ d[h] <= d[q[i]] /\ d[q[i]] <= d[h] + 1
       /\ \A x \in D : d[x] <= d[h] + 1
       /\ \A i, j \in 1..n : i <= j => d[q[i]] <= d[q[j]]
  <2>1. \A i \in 1..n : q[i] \in D
    BY <1>1
  <2>2. 1 \in 1..n /\ \A i \in 1..n : 1 <= i
    BY <1>1
  <2>3. \A i, j \in 1..n : i <= j => d[q[i]] <= d[q[j]]
    BY <1>1 DEF Rings
  <2>4. \A x \in D : d[x] <= d[h] + 1
    BY <1>1, <2>2 DEF Rings
  <2> HIDE DEF e, t, h, n, k, new, D2, D
  <2>5. \A i \in 1..n : d[h] <= d[q[i]]
    BY <1>1, <2>2, <2>3
  <2> QED
    BY <1>8, <2>1, <2>3, <2>4, <2>5
<1> HIDE DEF e, t, h, n, k, new, D2, D
<1>12. Tree(w, a, p2, e)
  <2>1. D2 \subseteq Cells
    BY <1>4 DEF D2, D, Tree
  <2>2. p2 \in [D2 -> D2]
    <3>1. \A x \in D2 : p2[x] \in D2
      BY <1>1, <1>7 DEF D2, D, Tree
    <3> QED
      BY <1>7, <3>1
  <2>3. a \in D /\ p[a] = a /\ d[a] = 0 /\ a \notin new
    BY <1>4 DEF Tree, D
  <2>4. a \in D2 /\ p2[a] = a /\ e[a] = 0
    BY <1>7, <1>8, <2>3 DEF D2
  <2>5. \A x \in D2 : e[x] < Cardinality(D2)
    <3>1. \A x \in D : d[x] < Cardinality(D)
      BY DEF Tree, D
    <3> QED
      BY <1>1, <1>8, <1>10, <3>1 DEF D2
  <2>6. ASSUME NEW x \in D2, x # a PROVE x \in Ways(w, p2[x]) /\ e[x] = e[p2[x]] + 1
    <3>1. CASE x \in new
      BY <1>1, <1>4, <1>7, <1>8, <3>1
    <3>2. CASE x \in D /\ x \notin new
      <4>1. x \in Ways(w, p[x]) /\ d[x] = d[p[x]] + 1 /\ p[x] \in D
        BY <2>6, <3>2 DEF Tree, D
      <4> QED
        BY <1>7, <1>8, <3>2, <4>1
    <3> QED
      BY <3>1, <3>2 DEF D2
  <2> QED
    BY <1>7, <1>9, <2>1, <2>2, <2>4, <2>5, <2>6 DEF Tree
<1>13. \A i \in DOMAIN q2 :
          \/ i \in 1..(n - 1) /\ i + 1 \in 1..n /\ q2[i] = q[i + 1] /\ e[q2[i]] = d[q[i + 1]]
          \/ i \notin 1..(n - 1) /\ q2[i] \in new /\ e[q2[i]] = d[h] + 1
  <2> SUFFICES ASSUME NEW i \in 1..(n - 1 + k)
               PROVE \/ i \in 1..(n - 1) /\ i + 1 \in 1..n /\ q2[i] = q[i + 1] /\ e[q2[i]] = d[q[i + 1]]
                     \/ i \notin 1..(n - 1) /\ q2[i] \in new /\ e[q2[i]] = d[h] + 1
    BY <1>5
  <2>1. CASE i \in 1..(n - 1)
    <3>1. q2[i] = q[i + 1] /\ i + 1 \in 1..n
      BY <1>2, <1>5, <2>1
    <3>2. q[i + 1] \in D
      BY <1>1, <3>1
    <3> QED
      BY <1>8, <2>1, <3>1, <3>2
  <2>2. CASE i \notin 1..(n - 1)
    BY <1>3, <1>5, <1>8, <2>2
  <2> QED
    BY <2>1, <2>2
<1>14. Rings(w, p2, q2, e)
  <2>1. ASSUME NEW i \in DOMAIN q2, NEW j \in DOMAIN q2, i <= j PROVE e[q2[i]] <= e[q2[j]]
    <3>1. i \in 1..(n - 1 + k) /\ j \in 1..(n - 1 + k)
      BY <1>5
    <3>2. i \notin 1..(n - 1) => j \notin 1..(n - 1)
      BY <1>1, <1>3, <2>1, <3>1
    <3>3. i + 1 <= j + 1
      BY <2>1, <3>1
    <3>4. d[h] + 1 \in Nat /\ d[h] + 1 <= d[h] + 1
      BY <1>8
    <3>5. CASE i \in 1..(n - 1) /\ j \in 1..(n - 1)
      <4>1. /\ i + 1 \in 1..n /\ e[q2[i]] = d[q[i + 1]]
            /\ j + 1 \in 1..n /\ e[q2[j]] = d[q[j + 1]]
        BY <1>13, <3>5
      <4> QED
        BY <1>11, <3>3, <4>1
    <3>6. CASE i \in 1..(n - 1) /\ j \notin 1..(n - 1)
      <4>1. i + 1 \in 1..n /\ e[q2[i]] = d[q[i + 1]] /\ e[q2[j]] = d[h] + 1
        BY <1>13, <3>6
      <4> QED
        BY <1>11, <4>1
    <3>7. CASE i \notin 1..(n - 1) /\ j \notin 1..(n - 1)
      <4>1. e[q2[i]] = d[h] + 1 /\ e[q2[j]] = d[h] + 1
        BY <1>13, <3>7
      <4> QED
        BY <3>4, <4>1
    <3> QED
      BY <3>2, <3>5, <3>6, <3>7
  <2>2. ASSUME NEW x \in D2, NEW i \in DOMAIN q2 PROVE e[x] <= e[q2[i]] + 1
    <3>1. e[x] \in Nat /\ e[x] <= d[h] + 1
      BY <1>8, <1>11 DEF D2
    <3>2. e[q2[i]] \in Nat /\ d[h] <= e[q2[i]]
      <4>1. CASE i \in 1..(n - 1)
        <5>1. i + 1 \in 1..n /\ e[q2[i]] = d[q[i + 1]]
          BY <1>13, <4>1
        <5> QED
          BY <1>11, <5>1
      <4>2. CASE i \notin 1..(n - 1)
        <5>1. e[q2[i]] = d[h] + 1
          BY <1>13, <4>2
        <5> QED
          BY <1>8, <5>1
      <4> QED
        BY <4>1, <4>2
    <3> QED
      BY <1>8, <3>1, <3>2, SMTT(30)
  <2>3. ASSUME NEW x \in D2, \A i \in DOMAIN q2 : q2[i] # x, NEW y \in Ways(w, x)
        PROVE  y \in D2 /\ e[y] <= e[x] + 1
    <3>1. x \notin new
      <4> SUFFICES ASSUME x \in new PROVE FALSE
        OBVIOUS
      <4>1. PICK i \in 1..k : s[i] = x
        BY <1>3 DEF new, Entries
      <4>2. n - 1 + i \in 1..(n - 1 + k) /\ n - 1 + i \notin 1..(n - 1) /\ (n - 1 + i) - (n - 1) = i
        BY <1>1, <1>3
      <4> QED
        BY <1>5, <2>3, <4>1, <4>2
    <3>2. x \in D /\ e[x] = d[x] /\ d[x] \in Nat
      BY <1>8, <3>1 DEF D2
    <3>3. CASE x = h
      <4>1. y \in D \/ y \in new
        BY <2>3, <3>3 DEF new, D, h
      <4>2. y \in D => e[y] = d[y] /\ d[y] <= d[h] + 1
        BY <1>8, <1>11
      <4> QED
        BY <1>8, <3>2, <3>3, <4>1, <4>2 DEF D2
    <3>4. CASE x # h
      <4>1. \A i \in DOMAIN q : q[i] # x
        <5> SUFFICES ASSUME NEW i \in 1..n, q[i] = x PROVE FALSE
          BY <1>1
        <5>1. i # 1
          BY <1>1, <3>4
        <5>2. i - 1 \in 1..(n - 1) /\ i - 1 \in 1..(n - 1 + k) /\ (i - 1) + 1 = i
          BY <1>1, <1>3, <5>1
        <5> QED
          BY <1>2, <1>5, <2>3, <5>2
      <4>2. y \in D /\ d[y] <= d[x] + 1
        BY <2>3, <3>2, <4>1 DEF Rings, D
      <4> QED
        BY <1>8, <3>2, <4>2 DEF D2
    <3> QED
      BY <3>3, <3>4
  <2> QED
    BY <1>6, <1>7, <2>1, <2>2, <2>3 DEF Rings
<1> QED
  BY <1>12, <1>14

-----------------------------------------------------------------------------
(* What can be reached in so many steps, and what the search found by then.*)

LEMMA NatSteps ==
    ASSUME NEW T \in SUBSET Nat, 0 \in T, \A k \in T : k + 1 \in T
    PROVE  T = Nat
<1> SUFFICES ASSUME Nat \ T # {} PROVE FALSE
  OBVIOUS
<1>1. PICK k \in Nat \ T : \A j \in Nat \ T : k <= j
  BY NatMin
<1>2. k - 1 \in Nat /\ ~(k <= k - 1) /\ (k - 1) + 1 = k
  BY <1>1
<1> QED
  BY <1>1, <1>2

LEMMA WithinIs ==
    ASSUME NEW w, NEW c \in Cells
    PROVE  LET N == Cardinality(Cells)
           IN  /\ N \in Nat /\ Within(w, c) \in [0..N -> SUBSET Cells]
               /\ Within(w, c)[0] = {c}
               /\ \A k \in 0..N : k # 0 =>
                    Within(w, c)[k] = UNION {{x} \cup Ways(w, x) : x \in Within(w, c)[k - 1]}
<1> DEFINE N == Cardinality(Cells)
           S == SUBSET Cells
           g == [set \in S |-> UNION {{x} \cup Ways(w, x) : x \in set}]
<1>1. N \in Nat
  BY CellsFinite, FS_CardinalityType
<1>2. g \in [S -> S]
  <2>1. \A x \in Cells : {x} \cup Ways(w, x) \subseteq Cells
    BY DEF Ways
  <2> QED
    BY <2>1
<1>3. \A set \in S : g[set] = UNION {{x} \cup Ways(w, x) : x \in set}
  OBVIOUS
<1>4. {c} \in S
  OBVIOUS
<1> HIDE DEF g, S, N
<1>5. PICK f : Follows(f, N, {c}, g, S)
  BY <1>1, <1>2, <1>4, FollowsExists
<1>6. \A k \in 0..N : k # 0 => f[k - 1] \in S
  <2>1. \A k \in 0..N : k # 0 => k - 1 \in 0..N
    BY <1>1
  <2> QED
    BY <1>5, <2>1 DEF Follows
<1>7. f = [k \in 0..N |-> IF k = 0 THEN {c} ELSE UNION {{x} \cup Ways(w, x) : x \in f[k - 1]}]
  BY <1>3, <1>5, <1>6 DEF Follows
<1> DEFINE near == CHOOSE near : near = [k \in 0..N |->
                     IF k = 0 THEN {c} ELSE UNION {{x} \cup Ways(w, x) : x \in near[k - 1]}]
<1>8. near = [k \in 0..N |->
                IF k = 0 THEN {c} ELSE UNION {{x} \cup Ways(w, x) : x \in near[k - 1]}]
  BY <1>7
<1>9. Within(w, c) = near
  BY DEF Within, N
<1> HIDE DEF near
<1>10. near[0] = {c} /\ \A k \in 0..N : k # 0 =>
          near[k] = UNION {{x} \cup Ways(w, x) : x \in near[k - 1]}
  <2> DEFINE u(k) == IF k = 0 THEN {c} ELSE UNION {{x} \cup Ways(w, x) : x \in near[k - 1]}
  <2>1. near = [k \in 0..N |-> u(k)]
    BY <1>8
  <2> HIDE DEF u
  <2>2. \A k \in 0..N : near[k] = u(k)
    BY <2>1
  <2>3. 0 \in 0..N
    BY <1>1
  <2> QED
    BY <2>2, <2>3, Zenon DEF u
<1>11. near \in [0..N -> S]
  <2> DEFINE T == {k \in Nat : k <= N => near[k] \in S}
  <2>1. 0 \in T
    BY <1>4, <1>10
  <2>2. ASSUME NEW k \in T PROVE k + 1 \in T
    <3>1. CASE ~(k + 1 <= N)
      BY <3>1
    <3>2. CASE k + 1 <= N
      <4>1. k <= N /\ k + 1 \in 0..N /\ k + 1 # 0 /\ (k + 1) - 1 = k
        BY <1>1, <3>2
      <4>2. near[k] \in S
        BY <4>1
      <4>3. near[k + 1] = g[near[k]]
        BY <1>3, <1>10, <4>1, <4>2
      <4> QED
        BY <1>2, <4>2, <4>3
    <3> QED
      BY <3>1, <3>2
  <2>3. T \in SUBSET Nat
    OBVIOUS
  <2> HIDE DEF T
  <2>4. T = Nat
    BY <2>1, <2>2, <2>3, NatSteps
  <2>5. \A k \in 0..N : near[k] \in S
    BY <1>1, <2>4 DEF T
  <2> QED
    BY <1>8, <2>5
<1> QED
  BY <1>1, <1>9, <1>10, <1>11 DEF N, S

(* No cell is nearer to the entry than the search found it: what is still  *)
(* to come in the queue is as far as its head, and who has left it left no *)
(* neighbour out.                                                          *)
LEMMA SearchIsNearest ==
    ASSUME NEW w, NEW a, NEW p, NEW q, NEW d, Tree(w, a, p, d), Rings(w, p, q, d), q # <<>>
    PROVE  \A k \in 0..Cardinality(Cells) : k < d[Head(q)] => Head(q) \notin Within(w, a)[k]
<1> DEFINE N == Cardinality(Cells)
           h == Head(q)
           near == Within(w, a)
<1>1. a \in Cells /\ a \in DOMAIN p /\ d[a] = 0 /\ d \in [DOMAIN p -> Nat]
  BY DEF Tree
<1>2. N \in Nat /\ near[0] = {a} /\ near \in [0..N -> SUBSET Cells] /\ \A k \in 0..N : k # 0 =>
          near[k] = UNION {{x} \cup Ways(w, x) : x \in near[k - 1]}
  BY <1>1, WithinIs, SMTT(30)
<1>3. /\ h \in DOMAIN p
      /\ \A i \in DOMAIN q : d[h] <= d[q[i]]
  <2>1. q \in Seq(DOMAIN p) /\ h = q[1] /\ 1 \in DOMAIN q /\ h \in DOMAIN p
        /\ \A i \in DOMAIN q : 1 <= i
    BY DEF Rings
  <2> QED
    BY <2>1 DEF Rings
<1> HIDE DEF N, near, h
<1>4. ASSUME NEW x \in DOMAIN p, d[x] < d[h], NEW y \in Ways(w, x)
      PROVE  y \in DOMAIN p /\ d[y] <= d[x] + 1
  <2>1. \A i \in DOMAIN q : q[i] # x
    BY <1>1, <1>3, <1>4
  <2> QED
    BY <1>4, <2>1 DEF Rings
<1> DEFINE T == {k \in Nat : k <= N /\ k <= d[h] =>
                   \A x \in near[k] : x \in DOMAIN p /\ d[x] <= k}
<1>5. 0 \in T
  BY <1>1, <1>2
<1>6. ASSUME NEW k \in T PROVE k + 1 \in T
  <2> SUFFICES ASSUME k + 1 <= N, k + 1 <= d[h], NEW y \in near[k + 1]
               PROVE  y \in DOMAIN p /\ d[y] <= k + 1
    OBVIOUS
  <2>1. d[h] \in Nat /\ k \in Nat
    BY <1>1, <1>3
  <2>2. k <= N /\ k <= d[h] /\ k < d[h] /\ k + 1 \in 0..N /\ k + 1 # 0 /\ (k + 1) - 1 = k
    BY <1>2, <2>1
  <2>3. near[k + 1] = UNION {{x} \cup Ways(w, x) : x \in near[k]}
    BY <1>2, <2>2
  <2>4. PICK x \in near[k] : y \in {x} \cup Ways(w, x)
    BY <2>3
  <2>5. x \in DOMAIN p /\ d[x] <= k /\ d[x] \in Nat
    BY <1>1, <2>2
  <2>6. CASE y = x
    BY <2>1, <2>5, <2>6
  <2>7. CASE y \in Ways(w, x)
    <3>1. d[x] < d[h]
      BY <2>1, <2>2, <2>5
    <3>2. y \in DOMAIN p /\ d[y] <= d[x] + 1 /\ d[y] \in Nat
      BY <1>1, <1>4, <2>5, <2>7, <3>1
    <3> QED
      BY <2>1, <2>5, <3>2
  <2> QED
    BY <2>4, <2>6, <2>7
<1>7. T = Nat
  <2>1. T \in SUBSET Nat
    OBVIOUS
  <2> HIDE DEF T
  <2> QED
    BY <1>5, <1>6, <2>1, NatSteps
<1>8. ASSUME NEW k \in 0..N, k < d[h], h \in near[k] PROVE FALSE
  <2>1. d[h] \in Nat /\ k \in Nat /\ k <= N /\ k <= d[h]
    BY <1>1, <1>2, <1>3, <1>8
  <2>2. d[h] <= k
    BY <1>7, <1>8, <2>1
  <2> QED
    BY <1>8, <2>1, <2>2
<1> QED
  BY <1>8 DEF N, near, h

-----------------------------------------------------------------------------
(* The way back, the directions and their trail.                           *)

LEMMA WayBackIs ==
    ASSUME prev \in [DOMAIN prev -> DOMAIN prev], conf.exit \in DOMAIN prev
    PROVE  /\ WayBack \in [Nat -> DOMAIN prev] /\ WayBack[0] = conf.exit
           /\ \A k \in Nat : k # 0 => WayBack[k] = prev[WayBack[k - 1]]
<1>1. PICK f \in [Nat -> DOMAIN prev] :
         f[0] = conf.exit /\ \A k \in Nat : k # 0 => f[k] = prev[f[k - 1]]
  BY FollowsAlways
<1>2. f = [k \in Nat |-> IF k = 0 THEN conf.exit ELSE prev[f[k - 1]]]
  BY <1>1
<1> DEFINE b == CHOOSE b : b = [k \in Nat |-> IF k = 0 THEN conf.exit ELSE prev[b[k - 1]]]
<1>3. b = [k \in Nat |-> IF k = 0 THEN conf.exit ELSE prev[b[k - 1]]]
  BY <1>2
<1>4. WayBack = b
  BY DEF WayBack
<1> HIDE DEF b
<1>5. b[0] = conf.exit /\ \A k \in Nat : k # 0 => b[k] = prev[b[k - 1]]
  <2> DEFINE u(k) == IF k = 0 THEN conf.exit ELSE prev[b[k - 1]]
  <2>1. b = [k \in Nat |-> u(k)]
    BY <1>3
  <2> HIDE DEF u
  <2>2. 0 \in Nat /\ \A k \in Nat : b[k] = u(k)
    BY <2>1
  <2> QED
    BY <2>2, Zenon DEF u
<1>6. b \in [Nat -> DOMAIN prev]
  <2> DEFINE T == {k \in Nat : b[k] \in DOMAIN prev}
  <2>1. 0 \in T
    BY <1>5
  <2>2. ASSUME NEW k \in T PROVE k + 1 \in T
    <3>1. k + 1 \in Nat /\ k + 1 # 0 /\ (k + 1) - 1 = k /\ b[k] \in DOMAIN prev
      OBVIOUS
    <3>2. b[k + 1] = prev[b[k]]
      BY <1>5, <3>1
    <3> QED
      BY <3>1, <3>2
  <2>3. T \in SUBSET Nat
    OBVIOUS
  <2> HIDE DEF T
  <2>4. T = Nat
    BY <2>1, <2>2, <2>3, NatSteps
  <2>5. \A k \in Nat : b[k] \in DOMAIN prev
    BY <2>4 DEF T
  <2> QED
    BY <1>3, <2>5
<1> QED
  BY <1>4, <1>5, <1>6

LEMMA TrailIs ==
    ASSUME NEW path \in Seq(Dirs), NEW f \in [0..Len(path) -> Cells], f[0] = conf.entry,
           \A i \in 1..Len(path) : f[i] = Beyond(f[i - 1], path[i])
    PROVE  Trail(path) = f
<1> DEFINE n == Len(path)
<1>1. n \in Nat /\ \A k \in 0..n : k # 0 => k \in 1..n /\ k - 1 \in 0..n
  OBVIOUS
<1>2. f = [k \in 0..n |-> IF k = 0 THEN conf.entry ELSE Beyond(f[k - 1], path[k])]
  BY <1>1
<1> DEFINE b == CHOOSE b : b = [k \in 0..n |-> IF k = 0 THEN conf.entry ELSE Beyond(b[k - 1], path[k])]
<1>3. b = [k \in 0..n |-> IF k = 0 THEN conf.entry ELSE Beyond(b[k - 1], path[k])]
  BY <1>2
<1>4. Trail(path) = b
  BY DEF Trail
<1> HIDE DEF b, n
<1>5. \A k \in 0..n : b[k] = IF k = 0 THEN conf.entry ELSE Beyond(b[k - 1], path[k])
  <2> DEFINE u(k) == IF k = 0 THEN conf.entry ELSE Beyond(b[k - 1], path[k])
  <2>1. b = [k \in 0..n |-> u(k)]
    BY <1>3
  <2> HIDE DEF u
  <2>2. \A k \in 0..n : b[k] = u(k)
    BY <2>1
  <2> QED
    BY <2>2, Zenon DEF u
<1> DEFINE T == {k \in Nat : k <= n => b[k] = f[k]}
<1>6. 0 \in T
  BY <1>1, <1>5
<1>7. ASSUME NEW k \in T PROVE k + 1 \in T
  <2> SUFFICES ASSUME k + 1 <= n PROVE b[k + 1] = f[k + 1]
    BY <1>7
  <2>1. k <= n /\ k + 1 \in 0..n /\ k + 1 \in 1..n /\ k + 1 # 0 /\ (k + 1) - 1 = k
    BY <1>1
  <2>2. b[k] = f[k]
    BY <2>1
  <2> QED
    BY <1>5, <2>1, <2>2 DEF n
<1>8. \A k \in 0..n : b[k] = f[k]
  <2>1. T \in SUBSET Nat
    OBVIOUS
  <2> HIDE DEF T
  <2>2. T = Nat
    BY <1>6, <1>7, <2>1, NatSteps
  <2> QED
    BY <1>1, <2>2 DEF T
<1>9. b = f
  BY <1>3, <1>8 DEF n
<1> QED
  BY <1>4, <1>9

(* The directions lead from the entry to the exit, and none lead there     *)
(* sooner.                                                                 *)
Leads(w, path) ==
    LET at == Trail(path)
        n  == Len(path)
    IN  /\ path \in Seq(Dirs) /\ n # 0
        /\ at \in [0..n -> Cells] /\ at[0] = conf.entry /\ at[n] = conf.exit
        /\ \A k \in 1..n : path[k] \notin w[at[k - 1]] /\ at[k] \in Ways(w, at[k - 1])
        /\ conf.exit \notin Within(w, conf.entry)[n - 1]

LEMMA DirectionsLead ==
    ASSUME SearchInv, phase \in Searched, phase # "solve", conf.entry # conf.exit
    PROVE  Leads(walls, Directions)
<1> DEFINE a == conf.entry
           b == conf.exit
           D == DOMAIN prev
           back == WayBack
           N == Cardinality(Cells)
<1>1. PICK d : Tree(walls, a, prev, d) /\ Rings(walls, prev, queue, d)
  BY DEF SearchInv
<1>2. queue # <<>> /\ Head(queue) = b
  BY DEF SearchInv
<1>3. b \in D
  BY <1>1, <1>2 DEF Rings
<1>4. /\ D \subseteq Cells /\ prev \in [D -> D] /\ a \in D /\ d \in [D -> Nat] /\ d[a] = 0
      /\ d[b] < Cardinality(D)
      /\ \A x \in D : x # a => x \in Ways(walls, prev[x]) /\ d[x] = d[prev[x]] + 1
  BY <1>1, <1>3 DEF Tree
<1>5. /\ back \in [Nat -> D] /\ back[0] = b
      /\ \A k \in Nat : k # 0 => back[k] = prev[back[k - 1]]
  BY <1>3, <1>4, WayBackIs
<1> DEFINE n == d[b]
<1>6. n \in 0..N /\ n # 0 /\ n - 1 \in 0..N
  <2>1. IsFiniteSet(Cells) /\ N \in Nat
    BY CellsFinite, FS_CardinalityType
  <2>2. Cardinality(D) <= N /\ IsFiniteSet(D)
    BY <1>4, <2>1, FS_Subset
  <2>3. Cardinality(D) \in Nat
    BY <2>2, FS_CardinalityType
  <2>4. n # 0
    <3>1. b # a /\ prev[b] \in D /\ d[b] = d[prev[b]] + 1 /\ d[prev[b]] \in Nat
      BY <1>3, <1>4
    <3> QED
      BY <3>1
  <2>5. n \in Nat
    BY <1>3, <1>4
  <2> QED
    BY <1>4, <2>1, <2>2, <2>3, <2>4, <2>5
<1>7. /\ n \in Nat /\ n \in 0..N /\ n # 0 /\ n - 1 \in 0..N /\ N \in Nat
  BY <1>6, CellsFinite, FS_CardinalityType
<1> HIDE DEF a, b, D, back, N, n
<1>8. \A x \in D : d[x] = 0 <=> x = a
  <2> TAKE x \in D
  <2>1. x # a => d[x] = d[prev[x]] + 1 /\ d[prev[x]] \in Nat
    BY <1>4
  <2> QED
    BY <1>4, <2>1
<1>9. \A k \in Nat : k <= n => d[back[k]] = n - k
  <2> DEFINE T == {k \in Nat : k <= n => d[back[k]] = n - k}
  <2>1. 0 \in T
    BY <1>5, <1>7 DEF n
  <2>2. ASSUME NEW k \in T PROVE k + 1 \in T
    <3> SUFFICES ASSUME k + 1 <= n PROVE d[back[k + 1]] = n - (k + 1)
      BY <2>2
    <3>1. k \in Nat /\ k + 1 \in Nat /\ k + 1 # 0 /\ (k + 1) - 1 = k /\ k <= n /\ n - k # 0
      BY <1>7
    <3>2. d[back[k]] = n - k /\ back[k] \in D /\ back[k + 1] = prev[back[k]]
      BY <1>5, <3>1
    <3>3. d[back[k]] = d[back[k + 1]] + 1 /\ d[back[k + 1]] \in Nat
      BY <1>4, <1>8, <3>1, <3>2
    <3> QED
      BY <1>7, <3>1, <3>2, <3>3
  <2>3. T \in SUBSET Nat
    OBVIOUS
  <2> HIDE DEF T
  <2>4. T = Nat
    BY <2>1, <2>2, <2>3, NatSteps
  <2> QED
    BY <2>4 DEF T
<1>10. \A k \in Nat : k <= n => (back[k] = a <=> k = n)
  <2> SUFFICES ASSUME NEW k \in Nat, k <= n PROVE back[k] = a <=> k = n
    OBVIOUS
  <2>1. d[back[k]] = n - k /\ back[k] \in D
    BY <1>5, <1>9
  <2> QED
    BY <1>7, <1>8, <2>1
<1> DEFINE IsLen(k) == back[k] = a /\ \A j \in 0..k - 1 : back[j] # a
<1>11. n = CHOOSE k \in 0..N : IsLen(k)
  <2>1. IsLen(n)
    <3>1. \A j \in 0..n - 1 : j \in Nat /\ j <= n /\ j # n
      BY <1>7
    <3> QED
      BY <1>7, <1>10, <3>1
  <2>2. ASSUME NEW k \in 0..N, IsLen(k) PROVE k = n
    <3>1. k \in Nat
      BY <1>7
    <3>2. CASE k <= n
      BY <1>10, <2>2, <3>1, <3>2
    <3>3. CASE ~(k <= n)
      <4>1. n \in 0..k - 1
        BY <1>7, <3>1, <3>3
      <4> QED
        BY <1>7, <1>10, <2>2, <4>1
    <3> QED
      BY <3>2, <3>3
  <2> HIDE DEF IsLen
  <2> QED
    BY <1>7, <2>1, <2>2
<1> DEFINE path == [i \in 1..n |-> CHOOSE e \in Dirs : Beyond(back[n - i + 1], e) = back[n - i]]
<1>12. Directions = path
  BY <1>11 DEF Directions, back, N, a
<1>13. ASSUME NEW i \in 1..n
       PROVE  /\ back[n - i + 1] \in Cells /\ back[n - i] \in Cells
              /\ path[i] \in Dirs /\ path[i] \notin walls[back[n - i + 1]]
              /\ back[n - i] = Beyond(back[n - i + 1], path[i])
              /\ back[n - i] \in Ways(walls, back[n - i + 1])
  <2> DEFINE k == n - i
             x == back[k]
             y == back[k + 1]
  <2>1. k \in Nat /\ k <= n /\ k # n /\ k + 1 \in Nat /\ k + 1 # 0 /\ (k + 1) - 1 = k
    BY <1>7
  <2>2. x \in D /\ y \in D /\ y = prev[x] /\ x # a
    BY <1>5, <1>10, <2>1
  <2>3. x \in Ways(walls, y) /\ x \in Cells /\ y \in Cells
    BY <1>4, <2>2
  <2>4. PICK e \in Dirs : e \notin walls[y] /\ Beyond(y, e) = x
    BY <2>3 DEF Ways
  <2>5. \A f \in Dirs : Beyond(y, f) = x => f = e
    BY <2>3, <2>4, BeyondFacts
  <2>6. path[i] = CHOOSE f \in Dirs : Beyond(y, f) = x
    OBVIOUS
  <2> HIDE DEF x, y, path, k
  <2>7. path[i] = e
    BY <2>4, <2>5, <2>6
  <2> QED
    BY <2>3, <2>4, <2>7 DEF x, y, k
<1>14. path \in Seq(Dirs) /\ Len(path) = n
  <2>1. \A i \in 1..n : path[i] \in Dirs
    BY <1>13
  <2> DEFINE e(i) == CHOOSE e \in Dirs : Beyond(back[n - i + 1], e) = back[n - i]
  <2>2. path = [i \in 1..n |-> e(i)] /\ \A i \in 1..n : path[i] = e(i)
    OBVIOUS
  <2> HIDE DEF e, path
  <2> QED
    BY <1>7, <2>1, <2>2
<1> HIDE DEF path
<1> DEFINE f == [i \in 0..n |-> back[n - i]]
<1>15. f \in [0..n -> Cells] /\ f[0] = a /\ f[n] = b
  <2>1. \A i \in 0..n : n - i \in Nat
    BY <1>7
  <2>2. \A i \in 0..n : back[n - i] \in Cells
    BY <1>4, <1>5, <2>1
  <2>3. 0 \in 0..n /\ n \in 0..n /\ n - 0 = n /\ n - n = 0
    BY <1>7
  <2>4. back[n] = a
    BY <1>7, <1>10
  <2> QED
    BY <1>5, <2>2, <2>3, <2>4
<1>16. ASSUME NEW i \in 1..n
       PROVE  f[i - 1] = back[n - i + 1] /\ f[i] = back[n - i]
  <2>1. i - 1 \in 0..n /\ i \in 0..n /\ n - (i - 1) = n - i + 1
    BY <1>7
  <2> QED
    BY <2>1
<1> HIDE DEF f
<1>17. Trail(path) = f
  <2>1. \A i \in 1..Len(path) : f[i] = Beyond(f[i - 1], path[i])
    BY <1>13, <1>14, <1>16
  <2> QED
    BY <1>14, <1>15, <2>1, TrailIs DEF a
<1>18. b \notin Within(walls, a)[n - 1]
  <2>1. n - 1 < d[b]
    BY <1>7 DEF n
  <2> QED
    BY <1>1, <1>2, <1>7, <2>1, SearchIsNearest DEF N
<1>19. \A k \in 1..n : path[k] \notin walls[f[k - 1]] /\ f[k] \in Ways(walls, f[k - 1])
  BY <1>13, <1>16
<1> QED
  BY <1>7, <1>12, <1>14, <1>15, <1>17, <1>18, <1>19 DEF Leads, a, b

(* The cells of the path, as the viewers take them.                        *)
PathFits(w, path) ==
    /\ path \in Seq(Cells) /\ Len(path) >= 1
    /\ path[1] = conf.entry /\ path[Len(path)] = conf.exit
    /\ \A i \in 1..Len(path) - 1 : path[i + 1] \in Ways(w, path[i])

LEMMA PathCellsFit ==
    ASSUME Leads(walls, Directions)
    PROVE  PathFits(walls, PathCells)
<1> DEFINE n == Len(Directions)
           at == Trail(Directions)
           p == PathCells
<1>1. /\ n \in Nat /\ n # 0
      /\ at \in [0..n -> Cells] /\ at[0] = conf.entry /\ at[n] = conf.exit
      /\ \A k \in 1..n : at[k] \in Ways(walls, at[k - 1])
  BY DEF Leads
<1>2. p = [i \in 1..n + 1 |-> at[i - 1]]
  BY DEF PathCells
<1> HIDE DEF n, at, p
<1>3. \A i \in 1..n + 1 : i - 1 \in 0..n
  BY <1>1
<1>4. n + 1 \in Nat /\ \A i \in 1..n + 1 : p[i] = at[i - 1] /\ at[i - 1] \in Cells
  BY <1>1, <1>2, <1>3
<1>5. p \in Seq(Cells) /\ Len(p) = n + 1
  BY <1>2, <1>4
<1>6. p[1] = conf.entry /\ p[n + 1] = conf.exit /\ n + 1 >= 1
  <2>1. 1 \in 1..n + 1 /\ n + 1 \in 1..n + 1 /\ (n + 1) - 1 = n /\ 1 - 1 = 0 /\ n + 1 >= 1
    BY <1>1
  <2> QED
    BY <1>1, <1>4, <2>1
<1>7. ASSUME NEW i \in 1..n PROVE p[i + 1] \in Ways(walls, p[i])
  <2>1. i \in 1..n + 1 /\ i + 1 \in 1..n + 1 /\ (i + 1) - 1 = i
    BY <1>1
  <2> QED
    BY <1>1, <1>4, <2>1
<1>8. (n + 1) - 1 = n
  BY <1>1
<1> QED
  BY <1>5, <1>6, <1>7, <1>8 DEF PathFits, p
-----------------------------------------------------------------------------
(* The invariant of what is written and what is shown.                     *)

Kinds == {"ascii", "mlx"}

(* A configuration the checks let pass.                                    *)
ConfGood ==
    /\ {conf.entry, conf.exit} \subseteq Cells /\ conf.entry # conf.exit
    /\ conf.animate \in BOOLEAN /\ conf.moving \in BOOLEAN
    /\ conf.viewers \in Seq(Kinds)

Views(on) ==
    [kind : Kinds, walls : Walls, path : Seq(Cells), road : BOOLEAN, ducksOn : {on},
     ducks : SUBSET Cells, moving : BOOLEAN, making : BOOLEAN, playing : BOOLEAN, seen : Nat]

OffRoad(ducks, path) == ducks \cap (Road(path) \cup world.pattern) = {}

ViewGood ==
    /\ view \in Views(view.ducksOn)
    /\ PathFits(view.walls, view.path)
    /\ OffRoad(view.ducks, view.path)
    /\ ~view.ducksOn => view.ducks = {}
    /\ view.seen <= Len(view.path)
    /\ view.playing => view.road /\ view.seen >= 1 /\ view.kind = "mlx"

ShowInv ==
    /\ IInv /\ SearchInv /\ tried \in Nat
    /\ phase \notin {"config", "failed"} \/ Shown \/ out # NoOut => ConfGood
    /\ phase = "config" => ~Shown /\ out = NoOut
    /\ out # NoOut => Leads(out.walls, out.path)
    /\ Shown => ViewGood

LEMMA ShowInvInit == ViewInit => ShowInv
<1> SUFFICES ASSUME ViewInit PROVE ShowInv
  OBVIOUS
<1>1. phase = "config" /\ ~Shown /\ out = NoOut /\ tried = 0
  BY DEF ViewInit, Init, ConfigInit, Shown
<1> QED
  BY <1>1, IInvInit DEF ShowInv, SearchInv, Searched

(* What is good of a path stays so as long as the configuration does.      *)
LEMMA LeadsStays ==
    ASSUME NEW w, NEW path, conf' = conf, Leads(w, path) PROVE Leads(w, path)'
<1>1. Trail(path)' = Trail(path)
  BY DEF Trail
<1> QED
  BY <1>1 DEF Leads

LEMMA ViewStays ==
    ASSUME UNCHANGED <<conf, world, view>>, ViewGood PROVE ViewGood'
  BY DEF ViewGood, PathFits, OffRoad, Road

(* What is written and shown stays good.                                   *)
LEMMA FilesStay ==
    ASSUME ShowInv, UNCHANGED <<conf, world, view, tried, out>>, phase # "config", phase' # "config",
           phase \notin {"config", "failed"} \/ Shown,
           IInv', SearchInv'
    PROVE  ShowInv'
<1>1. ConfGood /\ ConfGood'
  BY DEF ShowInv, ConfGood
<1>2. (out # NoOut => Leads(out.walls, out.path))'
  <2> SUFFICES ASSUME out # NoOut PROVE Leads(out.walls, out.path)'
    OBVIOUS
  <2>1. PICK w, path : w = out.walls /\ path = out.path
    OBVIOUS
  <2>2. Leads(w, path)
    BY <2>1 DEF ShowInv
  <2>3. Leads(w, path)'
    BY <2>2, LeadsStays
  <2> QED
    BY <2>1, <2>3
<1>3. (Shown => ViewGood)'
  BY ViewStays DEF ShowInv, Shown
<1> QED
  BY <1>1, <1>2, <1>3 DEF ShowInv

LEMMA SearchStays ==
    ASSUME SearchInv, UNCHANGED <<conf, walls, prev, queue>>, phase \in Searched \ {"solve"}
    PROVE  SearchInv'
<1>1. PICK d : Tree(walls, conf.entry, prev, d) /\ Rings(walls, prev, queue, d)
  BY DEF SearchInv
<1> QED
  BY <1>1 DEF SearchInv

(* The search begins at the entry.                                         *)
LEMMA SearchBegins ==
    ASSUME {conf.entry} \subseteq Cells, OpenBorders, phase' = "solve"
    PROVE  SearchInv'
<1> DEFINE a == conf.entry
<1>1. /\ UNCHANGED conf /\ prev' = [c \in {a} |-> c] /\ queue' = <<a>>
  BY DEF OpenBorders, input
<1>2. PICK d : d = [c \in {a} |-> 0]
  OBVIOUS
<1>3. PICK w : w = walls'
  OBVIOUS
<1>4. Cardinality({a}) = 1
  BY FS_Singleton
<1>5. Tree(w, a, prev', d)
  BY <1>1, <1>2, <1>4 DEF Tree
<1>6. Rings(w, prev', queue', d)
  BY <1>1, <1>2 DEF Rings
<1> QED
  BY <1>1, <1>3, <1>5, <1>6 DEF SearchInv

LEMMA SearchGoesOn ==
    ASSUME SearchInv, Search
    PROVE  SearchInv'
<1>1. phase = "solve" /\ UNCHANGED <<conf, walls>>
  BY DEF Search, input
<1>2. PICK d : Tree(walls, conf.entry, prev, d) /\ Rings(walls, prev, queue, d)
  BY <1>1 DEF SearchInv, Searched
<1>3. CASE queue = <<>>
  BY <1>3 DEF Search, SearchInv, Searched
<1>4. CASE queue # <<>> /\ Head(queue) = conf.exit
  BY <1>1, <1>2, <1>4 DEF Search, SearchInv, search
<1>5. CASE queue # <<>> /\ Head(queue) # conf.exit
  <2> DEFINE c == Head(queue)
             s == Onward(c)
  <2>1. /\ queue' = Tail(queue) \o s /\ UNCHANGED phase
        /\ prev' = Reached(c)
    BY <1>5 DEF Search
  <2>2. c \in Cells
    BY <1>2, <1>5 DEF Tree, Rings
  <2>3. s \in Seq(Cells) /\ Entries(s) = Ways(walls, c) \ DOMAIN prev
    BY <2>2, OnwardIs
  <2>4. prev' = [x \in DOMAIN prev \cup Entries(s) |-> IF x \in Entries(s) THEN c ELSE prev[x]]
    BY <2>1 DEF Reached, Entries
  <2> HIDE DEF s
  <2>5. \E e : Tree(walls, conf.entry, prev', e) /\ Rings(walls, prev', queue', e)
    BY <1>2, <1>5, <2>1, <2>3, <2>4, RingGrows
  <2> QED
    BY <1>1, <2>1, <2>5 DEF SearchInv
<1> QED
  BY <1>3, <1>4, <1>5

LEMMA ParseShows == ShowInv /\ Parse /\ UNCHANGED <<view, tried>> => ShowInv'
<1> SUFFICES ASSUME ShowInv, Parse, UNCHANGED <<view, tried>> PROVE ShowInv'
  OBVIOUS
<1>1. IInv'
  BY ParseKeeps DEF ShowInv
<1>2. /\ phase = "config" /\ phase' \in {"config", "generate", "failed"}
      /\ UNCHANGED <<out, view>>
  BY DEF Parse, Configure, ReadLine, Build, Reject, files
<1>3. ~Shown' /\ (out = NoOut)'
  BY <1>2 DEF ShowInv, Shown
<1>4. phase' = "generate" => ConfGood'
  <2> SUFFICES ASSUME phase' = "generate" PROVE ConfGood'
    OBVIOUS
  <2>1. Build
    BY <1>2 DEF Parse, Configure, ReadLine, Build, Reject
  <2>2. /\ conf' = MazeConfig
        /\ CoordOk(raw["ENTRY"]) /\ CoordOk(raw["EXIT"])
        /\ raw["ENTRY"].pair # raw["EXIT"].pair
    BY <2>1 DEF Build, ConfigOk
  <2>3. /\ conf'.entry = raw["ENTRY"].pair /\ conf'.exit = raw["EXIT"].pair
        /\ conf'.animate = IsTrue("ANIMATE") /\ conf'.moving = IsTrue("DUCKS_ANIMATE")
        /\ conf'.viewers = Viewers
    BY <2>2 DEF MazeConfig
  <2>4. Viewers \in Seq(Kinds)
    <3>1. Viewers = <<"ascii">> \/ Viewers = <<"mlx">> \/ Viewers = <<"ascii", "mlx">>
      BY DEF Viewers
    <3>2. /\ <<"ascii">> \in Seq(Kinds) /\ <<"mlx">> \in Seq(Kinds)
          /\ <<"ascii", "mlx">> \in Seq(Kinds)
      BY DEF Kinds
    <3> QED
      BY <3>1, <3>2
  <2>5. IsTrue("ANIMATE") \in BOOLEAN /\ IsTrue("DUCKS_ANIMATE") \in BOOLEAN
    BY DEF IsTrue
  <2> QED
    BY <2>2, <2>3, <2>4, <2>5 DEF ConfGood, CoordOk
<1>5. SearchInv'
  BY <1>2 DEF SearchInv, Searched
<1> QED
  BY <1>1, <1>2, <1>3, <1>4, <1>5 DEF ShowInv

LEMMA GeneratorShows == ShowInv /\ Next /\ UNCHANGED <<view, tried>> => ShowInv'
<1> SUFFICES ASSUME ShowInv, Next, UNCHANGED <<view, tried>> PROVE ShowInv'
  OBVIOUS
<1>1. IInv'
  BY GeneratorKeeps DEF ShowInv
<1>2. CASE Parse
  BY <1>2, ParseShows
<1>3. CASE Begin \/ CarveDfs \/ CarvePrims \/ CarveKruskals \/ CarveEnds \/ AddExtra \/ Fix3x3
           \/ EnsureTree
  <2>1. /\ phase \notin {"config", "failed"} /\ phase' # "config" /\ phase' \notin Searched
        /\ UNCHANGED <<conf, world, out>>
    BY <1>3 DEF Begin, CarveDfs, CarvePrims, CarveKruskals, CarveEnds, AddExtra, Fix3x3,
                EnsureTree, input, files, Searched
  <2>2. SearchInv'
    BY <2>1 DEF SearchInv, Searched
  <2> QED
    BY <1>1, <2>1, <2>2, FilesStay
<1>4. CASE OpenBorders
  <2>1. /\ phase = "border" /\ phase' \in {"solve", "failed"} /\ UNCHANGED <<conf, world, out>>
    BY <1>4 DEF OpenBorders, input, files
  <2>2. SearchInv'
    <3>1. conf.entry \in Cells
      BY <2>1 DEF ShowInv, ConfGood
    <3>2. CASE phase' = "solve"
      BY <1>4, <3>1, <3>2, SearchBegins
    <3>3. CASE phase' = "failed"
      BY <3>3 DEF SearchInv, Searched
    <3> QED
      BY <2>1, <3>2, <3>3
  <2> QED
    BY <1>1, <2>1, <2>2, FilesStay
<1>5. CASE Search
  <2>1. /\ phase = "solve" /\ phase' # "config" /\ UNCHANGED <<conf, world, out>>
    BY <1>5 DEF Search, input, files
  <2>2. SearchInv'
    BY <1>5, SearchGoesOn DEF ShowInv
  <2> QED
    BY <1>1, <2>1, <2>2, FilesStay
<1>6. CASE Write
  <2>1. /\ phase = "write" /\ phase' \in {"export", "failed"}
        /\ UNCHANGED <<conf, world, walls, prev, queue>>
        /\ out = NoOut
        /\ UNCHANGED out \/ out' = [walls |-> walls, path |-> Directions]
    BY <1>6 DEF Write, input, search
  <2>2. SearchInv'
    BY <2>1, SearchStays DEF ShowInv, Searched
  <2>3. ConfGood /\ ConfGood'
    BY <2>1 DEF ShowInv, ConfGood
  <2>4. (out # NoOut => Leads(out.walls, out.path))'
    <3> SUFFICES ASSUME (out # NoOut)' PROVE Leads(out.walls, out.path)'
      OBVIOUS
    <3>1. PICK w, path : w = walls /\ path = Directions
      OBVIOUS
    <3>2. out' = [walls |-> w, path |-> path]
      BY <2>1, <3>1
    <3>3. Leads(w, path)
      BY <2>1, <2>3, <3>1, DirectionsLead DEF ShowInv, Searched, ConfGood
    <3>4. Leads(w, path)'
      BY <2>1, <3>3, LeadsStays
    <3> QED
      BY <3>2, <3>4
  <2>5. (Shown => ViewGood)'
    BY <2>1, ViewStays DEF ShowInv, Shown
  <2> QED
    BY <1>1, <2>1, <2>2, <2>3, <2>4, <2>5 DEF ShowInv
<1>7. CASE Export
  <2>1. /\ phase = "export" /\ phase' = "done"
        /\ UNCHANGED <<conf, world, walls, prev, queue, out>>
    BY <1>7 DEF Export, input, search
  <2>2. SearchInv'
    BY <2>1, SearchStays DEF ShowInv, Searched
  <2> QED
    BY <1>1, <2>1, <2>2, FilesStay
<1> QED
  BY <1>2, <1>3, <1>4, <1>5, <1>6, <1>7 DEF Next

-----------------------------------------------------------------------------
(* The actions of the viewers.                                             *)

LEMMA DucksAreOff ==
    ASSUME NEW on, NEW path, NEW ducks \in DucksIf(on, path)
    PROVE  ducks \subseteq Cells /\ OffRoad(ducks, path) /\ (~on => ducks = {})
  BY DEF DucksIf, Ducks, OffRoad, Plain

(* A view is good when its fields are.                                     *)
ViewIs(v) ==
    /\ v \in Views(v.ducksOn)
    /\ PathFits(v.walls, v.path)
    /\ OffRoad(v.ducks, v.path)
    /\ ~v.ducksOn => v.ducks = {}
    /\ v.seen <= Len(v.path)
    /\ v.playing => v.road /\ v.seen >= 1 /\ v.kind = "mlx"

LEMMA ViewBecomes ==
    ASSUME NEW v, ViewIs(v), view' = v, UNCHANGED <<conf, world>>
    PROVE  ViewGood'
  BY DEF ViewIs, ViewGood, PathFits, OffRoad, Road

(* A key, or a turn of the loop, leaves a good view.                       *)
LEMMA KeysShow ==
    ASSUME ViewGood, NEW ducks \in SUBSET Cells
    PROVE  LET moved == [view EXCEPT !.ducks = ducks]
               off   == [view EXCEPT !.road = ~@, !.playing = FALSE,
                                     !.seen = IF view.road THEN 0 ELSE Len(view.path)]
               ducky == [view EXCEPT !.ducksOn = ~@, !.ducks = ducks]
           IN  /\ OffRoad(ducks, view.path) /\ (~view.ducksOn => ducks = {}) => ViewIs(moved)
               /\ OffRoad(ducks, view.path) /\ (~view.ducksOn => ducks = {}) /\ view.kind = "ascii" =>
                    ViewIs([view EXCEPT !.road = ~@, !.ducks = ducks])
               /\ ViewIs(off)
               /\ view.kind = "mlx" /\ view.road => ViewIs([view EXCEPT !.playing = TRUE, !.seen = 1])
               /\ OffRoad(ducks, view.path) /\ (view.ducksOn => ducks = {}) => ViewIs(ducky)
               /\ ViewIs([view EXCEPT !.moving = ~@])
               /\ view.seen < Len(view.path) => ViewIs([view EXCEPT !.seen = @ + 1])
               /\ ViewIs([view EXCEPT !.playing = FALSE])
               /\ ViewIs([view EXCEPT !.making = TRUE])
<1>1. view \in Views(view.ducksOn) /\ view.path \in Seq(Cells) /\ Len(view.path) \in Nat /\ Len(view.path) >= 1
      /\ view.seen \in Nat /\ view.seen <= Len(view.path) /\ view.seen + 1 \in Nat
  BY DEF ViewGood, Views, PathFits
<1>2. /\ PathFits(view.walls, view.path) /\ OffRoad(view.ducks, view.path)
      /\ ~view.ducksOn => view.ducks = {}
      /\ view.playing => view.road /\ view.seen >= 1 /\ view.kind = "mlx"
  BY DEF ViewGood
<1>3. OffRoad(ducks, view.path) /\ (~view.ducksOn => ducks = {}) =>
         ViewIs([view EXCEPT !.ducks = ducks])
  BY <1>1, <1>2 DEF ViewIs, Views
<1>4. OffRoad(ducks, view.path) /\ (~view.ducksOn => ducks = {}) /\ view.kind = "ascii" =>
         ViewIs([view EXCEPT !.road = ~@, !.ducks = ducks])
  BY <1>1, <1>2 DEF ViewIs, Views
<1>5. ViewIs([view EXCEPT !.road = ~@, !.playing = FALSE,
                          !.seen = IF view.road THEN 0 ELSE Len(view.path)])
  <2> DEFINE k == IF view.road THEN 0 ELSE Len(view.path)
             u == [view EXCEPT !.playing = FALSE]
             r == [u EXCEPT !.road = ~view.road]
             v == [r EXCEPT !.seen = k]
  <2>1. k \in Nat /\ k <= Len(view.path)
    BY <1>1
  <2>2. v = [view EXCEPT !.road = ~@, !.playing = FALSE,
                         !.seen = IF view.road THEN 0 ELSE Len(view.path)]
    BY <1>1 DEF Views
  <2> HIDE DEF k
  <2>3. u \in Views(view.ducksOn)
    BY <1>1 DEF Views
  <2>4. r \in Views(view.ducksOn)
    <3> HIDE DEF u
    <3> QED
      BY <2>3 DEF Views
  <2>5. v \in Views(view.ducksOn)
    <3> HIDE DEF r
    <3> QED
      BY <2>1, <2>4 DEF Views
  <2>6. /\ v.walls = view.walls /\ v.path = view.path /\ v.ducks = view.ducks
        /\ v.ducksOn = view.ducksOn /\ v.seen = k /\ v.playing = FALSE
    BY <1>1 DEF Views
  <2> HIDE DEF v
  <2>7. ViewIs(v)
    BY <1>2, <2>1, <2>5, <2>6 DEF ViewIs
  <2> QED
    BY <2>2, <2>7
<1>6. view.kind = "mlx" /\ view.road => ViewIs([view EXCEPT !.playing = TRUE, !.seen = 1])
  <2> DEFINE u == [view EXCEPT !.playing = TRUE]
             v == [u EXCEPT !.seen = 1]
  <2>1. v = [view EXCEPT !.playing = TRUE, !.seen = 1]
    BY <1>1 DEF Views
  <2>2. u \in Views(view.ducksOn)
    BY <1>1 DEF Views
  <2>3. v \in Views(view.ducksOn)
    <3> HIDE DEF u
    <3> QED
      BY <2>2 DEF Views
  <2>4. /\ v.walls = view.walls /\ v.path = view.path /\ v.ducks = view.ducks
        /\ v.ducksOn = view.ducksOn /\ v.seen = 1 /\ v.road = view.road /\ v.kind = view.kind
    BY <1>1 DEF Views
  <2> HIDE DEF v
  <2>5. view.kind = "mlx" /\ view.road => ViewIs(v)
    BY <1>1, <1>2, <2>3, <2>4 DEF ViewIs
  <2> QED
    BY <2>1, <2>5
<1>7. OffRoad(ducks, view.path) /\ (view.ducksOn => ducks = {}) =>
         ViewIs([view EXCEPT !.ducksOn = ~@, !.ducks = ducks])
  BY <1>1, <1>2 DEF ViewIs, Views
<1>8. ViewIs([view EXCEPT !.moving = ~@])
  BY <1>1, <1>2 DEF ViewIs, Views
<1>9. view.seen < Len(view.path) => ViewIs([view EXCEPT !.seen = @ + 1])
  BY <1>1, <1>2 DEF ViewIs, Views
<1>10. ViewIs([view EXCEPT !.playing = FALSE]) /\ ViewIs([view EXCEPT !.making = TRUE])
  BY <1>1, <1>2 DEF ViewIs, Views
<1> QED
  BY <1>3, <1>4, <1>5, <1>6, <1>7, <1>8, <1>9, <1>10

(* A viewer opens on the maze made.                                        *)
LEMMA OpenShows == ShowInv /\ Open => ViewGood'
<1> SUFFICES ASSUME ShowInv, Open PROVE ViewGood'
  OBVIOUS
<1>1. /\ phase = "done" /\ Kind = conf.viewers[tried + 1] /\ tried < Len(conf.viewers)
      /\ UNCHANGED <<conf, world>>
  BY DEF Open, More, Kind, maker, input
<1>2. ConfGood /\ walls \in Walls /\ SearchInv
  BY <1>1 DEF ShowInv, IInv
<1>3. Leads(walls, Directions)
  BY <1>1, <1>2, DirectionsLead DEF Searched, ConfGood
<1>4. PathFits(walls, PathCells)
  BY <1>3, PathCellsFit
<1>5. Kind \in Kinds
  <2>1. tried + 1 \in 1..Len(conf.viewers)
    BY <1>1 DEF ShowInv
  <2> QED
    BY <1>1, <1>2, <2>1 DEF ConfGood
<1>6. PICK on : on = (conf.ducks > 0)
  BY Zenon
<1>7. PICK ducks \in DucksIf(on, PathCells) :
        view' = [kind |-> Kind, walls |-> walls, path |-> PathCells,
                 road |-> conf.animate, ducksOn |-> on, ducks |-> ducks,
                 moving |-> conf.moving, making |-> FALSE,
                 playing |-> conf.animate /\ Kind = "mlx",
                 seen |-> IF conf.animate /\ Kind = "mlx" THEN 1 ELSE 0]
  BY <1>6, Zenon DEF Open
<1>8. /\ ducks \subseteq Cells /\ OffRoad(ducks, PathCells) /\ (~on => ducks = {})
      /\ PathCells \in Seq(Cells) /\ Len(PathCells) \in Nat /\ Len(PathCells) >= 1
  BY <1>4, DucksAreOff DEF PathFits
<1>9. PICK playing \in BOOLEAN : playing = (conf.animate /\ Kind = "mlx")
  BY <1>2 DEF ConfGood
<1>10. PICK seen \in {0, 1} : seen = IF playing THEN 1 ELSE 0
  OBVIOUS
<1>11. PICK v : v = [kind |-> Kind, walls |-> walls, path |-> PathCells,
                     road |-> conf.animate, ducksOn |-> on, ducks |-> ducks,
                     moving |-> conf.moving, making |-> FALSE,
                     playing |-> playing, seen |-> seen]
  OBVIOUS
<1>12. view' = v
  BY <1>7, <1>9, <1>10, <1>11, Zenon
<1>13. v \in Views(on)
  BY <1>2, <1>5, <1>8, <1>11 DEF Views, ConfGood
<1>14. ViewIs(v)
  <2>1. /\ v.walls = walls /\ v.path = PathCells /\ v.ducks = ducks /\ v.ducksOn = on
        /\ v.road = conf.animate /\ v.playing = playing /\ v.kind = Kind /\ v.seen = seen
    BY <1>11
  <2>2. /\ seen <= Len(PathCells)
        /\ playing => conf.animate /\ seen >= 1 /\ Kind = "mlx"
    <3>1. playing => conf.animate /\ Kind = "mlx"
      BY <1>9, Zenon
    <3>2. seen <= Len(PathCells)
      BY <1>8, <1>10
    <3>3. playing => seen >= 1
      BY <1>10
    <3> QED
      BY <3>1, <3>2, <3>3
  <2>3. PathFits(v.walls, v.path) /\ OffRoad(v.ducks, v.path) /\ v \in Views(v.ducksOn)
    BY <1>4, <1>8, <1>13, <2>1, Zenon
  <2> QED
    BY <1>8, <2>1, <2>2, <2>3 DEF ViewIs
<1> QED
  BY <1>1, <1>12, <1>14, ViewBecomes

(* The maze made anew takes the place of the one shown.                    *)
LEMMA RenewedShows == ShowInv /\ Regenerated => ViewGood'
<1> SUFFICES ASSUME ShowInv, Regenerated PROVE ViewGood'
  OBVIOUS
<1>1. phase = "write" /\ Shown /\ UNCHANGED <<conf, world>>
  BY DEF Regenerated, maker, input
<1>2. ConfGood /\ walls \in Walls /\ SearchInv /\ ViewGood
  BY <1>1 DEF ShowInv, IInv
<1>3. Leads(walls, Directions)
  BY <1>1, <1>2, DirectionsLead DEF Searched, ConfGood
<1>4. PathFits(walls, PathCells)
  BY <1>3, PathCellsFit
<1>5. PICK path, ducks : path = PathCells /\ ducks \in DucksIf(view.ducksOn, path)
                         /\ view' = Renewed(path, ducks)
  BY DEF Regenerated
<1>6. /\ ducks \subseteq Cells /\ OffRoad(ducks, path) /\ (~view.ducksOn => ducks = {})
      /\ path \in Seq(Cells) /\ Len(path) \in Nat /\ Len(path) >= 1 /\ PathFits(walls, path)
  <2>1. PathFits(walls, path)
    BY <1>4, <1>5, Zenon
  <2>2. ducks \subseteq Cells /\ OffRoad(ducks, path) /\ (~view.ducksOn => ducks = {})
    BY <1>5, DucksAreOff
  <2>3. path \in Seq(Cells) /\ Len(path) \in Nat /\ Len(path) >= 1
    BY <2>1 DEF PathFits
  <2> QED
    BY <2>1, <2>2, <2>3
<1> DEFINE mlx == view.kind = "mlx"
<1>7. PICK playing \in BOOLEAN : playing = (mlx /\ conf.animate)
  BY <1>2 DEF ConfGood
<1>8. PICK road \in BOOLEAN : road = IF mlx THEN view.road \/ conf.animate ELSE conf.animate
  BY <1>2 DEF ConfGood, ViewGood, Views
<1>9. PICK seen \in Nat : seen = IF ~mlx THEN 0 ELSE IF conf.animate THEN 1 ELSE Len(path)
  BY <1>6
<1> DEFINE v1 == [view EXCEPT !.making = FALSE]
           v2 == [v1 EXCEPT !.walls = walls]
           v3 == [v2 EXCEPT !.path = path]
           v4 == [v3 EXCEPT !.ducks = ducks]
           v5 == [v4 EXCEPT !.road = road]
           v6 == [v5 EXCEPT !.playing = playing]
           v7 == [v6 EXCEPT !.seen = seen]
<1>10. view' = v7
  BY <1>5, <1>7, <1>8, <1>9 DEF Renewed
<1>11. v1 \in Views(view.ducksOn)
  BY <1>2 DEF ViewGood, Views
<1>12. v2 \in Views(view.ducksOn)
  <2> HIDE DEF v1
  <2> QED
    BY <1>2, <1>6, <1>11 DEF Views
<1>13. v3 \in Views(view.ducksOn)
  <2> HIDE DEF v2
  <2> QED
    BY <1>2, <1>6, <1>12 DEF Views
<1>14. v4 \in Views(view.ducksOn)
  <2> HIDE DEF v3
  <2> QED
    BY <1>2, <1>6, <1>13 DEF Views
<1>15. v5 \in Views(view.ducksOn)
  <2> HIDE DEF v4
  <2> QED
    BY <1>2, <1>6, <1>14 DEF Views
<1>16. v6 \in Views(view.ducksOn)
  <2> HIDE DEF v5
  <2> QED
    BY <1>2, <1>6, <1>15 DEF Views
<1>17. v7 \in Views(view.ducksOn)
  <2> HIDE DEF v6
  <2> QED
    BY <1>2, <1>6, <1>16 DEF Views
<1>18. /\ v7.walls = walls /\ v7.path = path /\ v7.ducks = ducks /\ v7.ducksOn = view.ducksOn
       /\ v7.road = road /\ v7.playing = playing /\ v7.kind = view.kind /\ v7.seen = seen
  BY <1>2 DEF ViewGood, Views
<1> HIDE DEF v7
<1>19. PICK v : v = v7
  OBVIOUS
<1>20. ViewIs(v)
  <2>1. seen <= Len(path)
    BY <1>6, <1>9
  <2>2. playing => road /\ seen >= 1 /\ view.kind = "mlx"
    <3>1. playing => mlx /\ conf.animate
      BY <1>7, Zenon
    <3>2. mlx /\ conf.animate => road
      BY <1>8, Zenon
    <3>3. mlx /\ conf.animate => seen = 1
      BY <1>9
    <3> QED
      BY <3>1, <3>2, <3>3
  <2>3. PathFits(v.walls, v.path) /\ OffRoad(v.ducks, v.path) /\ v \in Views(v.ducksOn)
    BY <1>6, <1>17, <1>18, <1>19, Zenon
  <2> QED
    BY <1>6, <1>18, <1>19, <2>1, <2>2, <2>3 DEF ViewIs
<1> QED
  BY <1>1, <1>10, <1>19, <1>20, ViewBecomes

LEMMA ViewerShows == ShowInv /\ [ViewNext]_allVars => ShowInv'
<1> SUFFICES ASSUME ShowInv, [ViewNext]_allVars PROVE ShowInv'
  OBVIOUS
<1>1. IInv'
  BY ViewerKeeps DEF ShowInv
<1>2. CASE Generate
  BY <1>2, GeneratorShows DEF Generate
<1>3. ASSUME UNCHANGED <<conf, world, out>>, SearchInv', tried' \in Nat,
             phase' = "config" => UNCHANGED <<phase, view>>,
             phase \notin {"config", "failed"} \/ Shown \/ UNCHANGED <<phase, view>>,
             (Shown => ViewGood)'
      PROVE  ShowInv'
  <2>1. (phase \notin {"config", "failed"} \/ Shown \/ out # NoOut => ConfGood)'
    BY <1>3 DEF ShowInv, ConfGood, Shown
  <2>2. (phase = "config" => ~Shown /\ out = NoOut)'
    BY <1>3 DEF ShowInv, Shown
  <2>3. (out # NoOut => Leads(out.walls, out.path))'
    <3> SUFFICES ASSUME out # NoOut PROVE Leads(out.walls, out.path)'
      BY <1>3
    <3>1. PICK w, path : w = out.walls /\ path = out.path
      OBVIOUS
    <3>2. Leads(w, path)
      BY <3>1 DEF ShowInv
    <3>3. Leads(w, path)'
      BY <1>3, <3>2, LeadsStays
    <3> QED
      BY <1>3, <3>1, <3>3
  <2> QED
    BY <1>1, <1>3, <2>1, <2>2, <2>3 DEF ShowInv
<1>4. ASSUME UNCHANGED <<phase, conf, walls, prev, queue>> PROVE SearchInv'
  BY <1>4 DEF ShowInv, SearchInv
<1>5. CASE UNCHANGED <<allVars>>
  <2>1. UNCHANGED <<phase, conf, world, walls, prev, queue, out, view, tried>>
    BY <1>5 DEF allVars, vars, input, search, files
  <2>2. (Shown => ViewGood)'
    BY <2>1, ViewStays DEF ShowInv, Shown
  <2> QED
    BY <1>3, <1>4, <2>1, <2>2 DEF ShowInv
<1>6. CASE Regenerate
  <2>1. /\ phase' = "generate" /\ UNCHANGED <<conf, world, out, tried>> /\ Shown
        /\ view' = [view EXCEPT !.making = TRUE]
    BY <1>6 DEF Regenerate, Looking, input, files
  <2>2. ViewGood
    BY <2>1 DEF ShowInv
  <2>3. ViewIs([view EXCEPT !.making = TRUE])
    BY <2>2, KeysShow
  <2>4. ViewGood'
    BY <2>1, <2>3, ViewBecomes
  <2>5. SearchInv'
    BY <2>1 DEF SearchInv, Searched
  <2> QED
    BY <1>3, <2>1, <2>4, <2>5 DEF ShowInv
<1>7. CASE Regenerated
  <2>1. /\ phase = "write" /\ phase' = "done" /\ Shown
        /\ UNCHANGED <<conf, world, walls, prev, queue, out, tried>>
    BY <1>7 DEF Regenerated, maker, input, search, files
  <2>2. SearchInv'
    BY <2>1, SearchStays DEF ShowInv, Searched
  <2>3. ViewGood'
    BY <1>7, RenewedShows
  <2> QED
    BY <1>3, <2>1, <2>2, <2>3 DEF ShowInv
<1>8. CASE PassOver \/ Open
  <2>1. /\ phase = "done" /\ UNCHANGED <<phase, conf, world, walls, prev, queue, out>>
        /\ tried' = tried + 1
    BY <1>8 DEF PassOver, Open, More, maker, input, search, files
  <2>2. (Shown => ViewGood)'
    <3>1. CASE PassOver
      BY <3>1, <2>1, ViewStays DEF ShowInv, Shown, PassOver
    <3>2. CASE Open
      BY <3>2, OpenShows
    <3> QED
      BY <1>8, <3>1, <3>2
  <2> QED
    BY <1>3, <1>4, <2>1, <2>2 DEF ShowInv
<1>9. CASE Close
  <2>1. /\ Shown /\ UNCHANGED <<phase, conf, world, walls, prev, queue, out, tried>> /\ ~Shown'
    BY <1>9 DEF Close, Looking, maker, input, search, files, Shown
  <2>2. phase # "config"
    BY <2>1 DEF ShowInv
  <2> QED
    BY <1>3, <1>4, <2>1, <2>2 DEF ShowInv
<1>10. CASE TogglePath \/ Replay \/ ToggleDucks \/ ToggleMoving \/ DucksMove \/ PlayPath
  <2>1. /\ Shown /\ UNCHANGED <<phase, conf, world, walls, prev, queue, out, tried>>
    BY <1>10 DEF TogglePath, Replay, ToggleDucks, ToggleMoving, DucksMove, PlayPath,
                 Looking, Still, maker, input, search, files
  <2>2. phase # "config" /\ ViewGood
    BY <2>1 DEF ShowInv
  <2>3. \E v : ViewIs(v) /\ view' = v
    <3>0. /\ view.ducks \in SUBSET Cells /\ OffRoad(view.ducks, view.path)
          /\ (~view.ducksOn => view.ducks = {}) /\ view.kind \in Kinds /\ view.seen \in Nat
      BY <2>2 DEF ViewGood, Views
    <3>1. CASE TogglePath
      <4>1. CASE view.kind = "ascii"
        <5>1. PICK ducks \in MenuDucks : view' = [view EXCEPT !.road = ~@, !.ducks = ducks]
          BY <3>1, <4>1 DEF TogglePath
        <5>2. ducks \in SUBSET Cells /\ OffRoad(ducks, view.path) /\ (~view.ducksOn => ducks = {})
          BY <3>0, DucksAreOff DEF MenuDucks
        <5> QED
          BY <2>2, <4>1, <5>1, <5>2, KeysShow
      <4>2. CASE view.kind # "ascii"
        <5>1. view' = [view EXCEPT !.road = ~@, !.playing = FALSE,
                                   !.seen = IF view.road THEN 0 ELSE Len(view.path)]
          BY <3>1, <4>2 DEF TogglePath
        <5> QED
          BY <2>2, <3>0, <5>1, KeysShow
      <4> QED
        BY <4>1, <4>2
    <3>2. CASE Replay
      BY <2>2, <3>0, <3>2, KeysShow DEF Replay
    <3>3. CASE ToggleDucks
      <4>1. PICK ducks \in DucksIf(~view.ducksOn, view.path) :
               view' = [view EXCEPT !.ducksOn = ~@, !.ducks = ducks]
        BY <3>3 DEF ToggleDucks
      <4>2. ducks \in SUBSET Cells /\ OffRoad(ducks, view.path) /\ (view.ducksOn => ducks = {})
        BY DucksAreOff
      <4> QED
        BY <2>2, <4>1, <4>2, KeysShow
    <3>4. CASE ToggleMoving
      BY <2>2, <3>0, <3>4, KeysShow DEF ToggleMoving
    <3>5. CASE DucksMove
      <4>1. PICK ducks \in DucksIf(view.ducksOn, view.path) : view' = [view EXCEPT !.ducks = ducks]
        BY <3>5 DEF DucksMove
      <4>2. ducks \in SUBSET Cells /\ OffRoad(ducks, view.path) /\ (~view.ducksOn => ducks = {})
        BY DucksAreOff
      <4> QED
        BY <2>2, <4>1, <4>2, KeysShow
    <3>6. CASE PlayPath
      BY <2>2, <3>0, <3>6, KeysShow DEF PlayPath
    <3> QED
      BY <1>10, <3>1, <3>2, <3>3, <3>4, <3>5, <3>6
  <2>4. ViewGood'
    BY <2>1, <2>3, ViewBecomes
  <2> QED
    BY <1>3, <1>4, <2>1, <2>2, <2>4 DEF ShowInv
<1> QED
  BY <1>2, <1>5, <1>6, <1>7, <1>8, <1>9, <1>10 DEF ViewNext

(* On every grid, for every configuration file: the directions written lead*)
(* through the walls written from the entry to the exit, and no way is     *)
(* shorter (solver.py:83, output_writer.py:33).                            *)
THEOREM PathWritten == ViewSpec => []OutputLeads
<1>1. ShowInv => OutputLeads
  <2> SUFFICES ASSUME ShowInv, out # NoOut PROVE OutputLeads
    BY DEF OutputLeads
  <2>1. Leads(out.walls, out.path)
    BY DEF ShowInv
  <2>2. out.path \in Seq(Dirs) /\ DOMAIN out.path = 1..Len(out.path)
    BY <2>1 DEF Leads
  <2> QED
    BY <2>1, <2>2 DEF Leads, OutputLeads
<1> QED
  BY <1>1, ShowInvInit, ViewerShows, PTL DEF ViewSpec

(* And every viewer shows one maze: the path and the ducks are those of the*)
(* maze shown, and what is played of the path is no longer than it, while  *)
(* others are made and keys are pressed (renderer_mlx.py:577, 608).        *)
THEOREM OneMazeShown == ViewSpec => []ShowsOneMaze
<1>1. ShowInv => ShowsOneMaze
  <2> SUFFICES ASSUME ShowInv, Shown PROVE ShowsOneMaze
    BY DEF ShowsOneMaze, PathFitsMaze, DucksOffRoad, PlaysItsPath
  <2>1. ViewGood
    BY DEF ShowInv
  <2> QED
    BY <2>1 DEF ViewGood, PathFits, OffRoad, ShowsOneMaze, PathFitsMaze, DucksOffRoad, PlaysItsPath
<1> QED
  BY <1>1, ShowInvInit, ViewerShows, PTL DEF ViewSpec

-----------------------------------------------------------------------------
(* Cells joined by open walls.                                             *)

(* No open wall leads out of the set.                                      *)
Shut(w, S) == \A x \in S : Ways(w, x) \subseteq S

Linked(w, a, b) == \A S \in SUBSET Cells : a \in S /\ Shut(w, S) => b \in S

LEMMA WaysBothWays ==
    ASSUME NEW w \in Walls, Valid(w), NEW x \in Cells, NEW y \in Ways(w, x)
    PROVE  x \in Ways(w, y)
<1>1. PICK d \in Dirs \ w[x] : y = Beyond(x, d)
  BY DEF Ways
<1>2. y \in Cells
  BY DEF Ways
<1>3. Opposite[d] \in Dirs \ w[y] /\ Beyond(y, Opposite[d]) = x
  BY <1>1, <1>2, BeyondFacts, OppositeFacts DEF Valid
<1> QED
  BY <1>3 DEF Ways

LEMMA LinkedItself ==
    ASSUME NEW w, NEW a
    PROVE  Linked(w, a, a)
  BY DEF Linked

LEMMA LinkedWay ==
    ASSUME NEW w, NEW x \in Cells, NEW y \in Ways(w, x)
    PROVE  Linked(w, x, y)
  BY DEF Linked, Shut

LEMMA LinkedThrough ==
    ASSUME NEW w, NEW a, NEW b, NEW c, Linked(w, a, b), Linked(w, b, c)
    PROVE  Linked(w, a, c)
  BY DEF Linked

LEMMA LinkedBack ==
    ASSUME NEW w \in Walls, Valid(w), NEW a \in Cells, NEW b \in Cells, Linked(w, a, b)
    PROVE  Linked(w, b, a)
<1> SUFFICES ASSUME NEW S \in SUBSET Cells, b \in S, Shut(w, S), a \notin S
             PROVE  FALSE
  BY DEF Linked
<1> DEFINE R == Cells \ S
<1>1. ASSUME NEW x \in R, NEW y \in Ways(w, x) PROVE y \in R
  <2>1. y \in Cells /\ x \in Ways(w, y)
    BY WaysBothWays DEF Ways
  <2> QED
    BY <2>1 DEF Shut
<1>2. Shut(w, R) /\ a \in R /\ R \in SUBSET Cells
  BY <1>1 DEF Shut
<1> QED
  BY <1>2 DEF Linked

(* Who takes walls away parts nobody.                                      *)
LEMMA LinkedStays ==
    ASSUME NEW w, NEW v, \A x \in Cells : Ways(w, x) \subseteq Ways(v, x),
           NEW a, NEW b, Linked(w, a, b)
    PROVE  Linked(v, a, b)
<1> SUFFICES ASSUME NEW S \in SUBSET Cells, a \in S, Shut(v, S) PROVE b \in S
  BY DEF Linked
<1>1. Shut(w, S)
  BY DEF Shut
<1> QED
  BY <1>1 DEF Linked

(* The search for reachable cells goes as many rounds as there are cells:  *)
(* a round that adds no cell is the last that could.                       *)
LEMMA ReachableIs ==
    ASSUME NEW w, NEW a \in Cells
    PROVE  Reachable(w, a) = {b \in Cells : Linked(w, a, b)}
<1> DEFINE N == Cardinality(Cells)
           near == Within(w, a)
<1>1. /\ N \in Nat /\ near \in [0..N -> SUBSET Cells] /\ near[0] = {a}
      /\ \A k \in 0..N : k # 0 => near[k] = UNION {{x} \cup Ways(w, x) : x \in near[k - 1]}
  BY WithinIs
<1>2. ASSUME NEW k \in Nat, k + 1 <= N
      PROVE  /\ k \in 0..N /\ k + 1 \in 0..N /\ near[k] \in SUBSET Cells
             /\ near[k + 1] = UNION {{x} \cup Ways(w, x) : x \in near[k]}
  <2>1. k \in 0..N /\ k + 1 \in 0..N /\ k + 1 # 0 /\ (k + 1) - 1 = k
    BY <1>1, <1>2
  <2> QED
    BY <1>1, <2>1
<1>3. N \in 0..N
  BY <1>1
<1>4. Reachable(w, a) = near[N]
  BY DEF Reachable
<1> HIDE DEF near
<1>5. ASSUME NEW S \in SUBSET Cells, a \in S, Shut(w, S)
      PROVE  near[N] \subseteq S
  <2> DEFINE T == {k \in Nat : k <= N => near[k] \subseteq S}
  <2>1. 0 \in T
    BY <1>1, <1>5
  <2>2. ASSUME NEW k \in T PROVE k + 1 \in T
    <3> SUFFICES ASSUME k + 1 <= N PROVE near[k + 1] \subseteq S
      OBVIOUS
    <3>1. k <= N
      BY <1>1
    <3>2. near[k + 1] = UNION {{x} \cup Ways(w, x) : x \in near[k]} /\ near[k] \subseteq S
      BY <1>2, <3>1
    <3> QED
      BY <1>5, <3>2 DEF Shut
  <2>3. T \in SUBSET Nat
    OBVIOUS
  <2> HIDE DEF T
  <2>4. T = Nat
    BY <2>1, <2>2, <2>3, NatSteps
  <2> QED
    BY <1>1, <2>4 DEF T
<1>6. ASSUME NEW k \in Nat, k + 1 <= N, near[k + 1] = near[k]
      PROVE  Shut(w, near[k])
  BY <1>2, <1>6 DEF Shut
<1>7. Shut(w, near[N]) /\ a \in near[N]
  <2> DEFINE T == {k \in Nat : k <= N =>
                     /\ a \in near[k]
                     /\ Shut(w, near[k]) \/ Cardinality(near[k]) >= k + 1}
  <2>1. 0 \in T
    <3>1. a \in near[0] /\ Cardinality(near[0]) = 1
      BY <1>1, FS_Singleton
    <3>2. \A n \in {1} : n >= 0 + 1
      OBVIOUS
    <3>3. Cardinality(near[0]) >= 0 + 1
      BY <3>1, <3>2
    <3> QED
      BY <3>1, <3>3
  <2>2. ASSUME NEW k \in T PROVE k + 1 \in T
    <3> SUFFICES ASSUME k + 1 <= N
                 PROVE  /\ a \in near[k + 1]
                        /\ Shut(w, near[k + 1]) \/ Cardinality(near[k + 1]) >= k + 2
      OBVIOUS
    <3>1. k \in Nat /\ k <= N
      BY <1>1
    <3>2. /\ a \in near[k]
          /\ Shut(w, near[k]) \/ Cardinality(near[k]) >= k + 1
      BY <3>1
    <3>3. /\ near[k + 1] = UNION {{x} \cup Ways(w, x) : x \in near[k]}
          /\ near[k] \in SUBSET Cells /\ near[k + 1] \in SUBSET Cells
      BY <1>1, <1>2, <3>1
    <3>4. near[k] \subseteq near[k + 1]
      BY <3>3
    <3>5. CASE near[k + 1] = near[k]
      BY <1>6, <3>1, <3>2, <3>5
    <3>6. CASE near[k + 1] # near[k]
      <4>1. ~Shut(w, near[k])
        BY <3>3, <3>4, <3>6 DEF Shut
      <4>2. IsFiniteSet(near[k]) /\ IsFiniteSet(near[k + 1])
        BY <3>3, CellsFinite, FS_Subset
      <4>3. /\ Cardinality(near[k]) \in Nat /\ Cardinality(near[k + 1]) \in Nat
            /\ Cardinality(near[k]) <= Cardinality(near[k + 1])
            /\ Cardinality(near[k]) # Cardinality(near[k + 1])
        BY <3>4, <3>6, <4>2, FS_Subset, FS_CardinalityType
      <4>4. Cardinality(near[k + 1]) >= k + 2
        BY <3>1, <3>2, <4>1, <4>3
      <4> QED
        BY <3>2, <3>4, <4>4
    <3> QED
      BY <3>5, <3>6
  <2>3. T \in SUBSET Nat
    OBVIOUS
  <2> HIDE DEF T
  <2>4. T = Nat
    BY <2>1, <2>2, <2>3, NatSteps
  <2>5. a \in near[N] /\ (Shut(w, near[N]) \/ Cardinality(near[N]) >= N + 1)
    BY <1>1, <2>4 DEF T
  <2>6. Cardinality(near[N]) <= N
    BY <1>1, <1>3, CellsFinite, FS_Subset
  <2>7. Cardinality(near[N]) \in Nat
    BY <1>1, <1>3, CellsFinite, FS_Subset, FS_CardinalityType
  <2> QED
    BY <1>1, <2>5, <2>6, <2>7
<1>8. near[N] \in SUBSET Cells
  BY <1>1, <1>3
<1>9. \A b \in Cells : Linked(w, a, b) <=> b \in near[N]
  BY <1>5, <1>7, <1>8 DEF Linked
<1> QED
  BY <1>4, <1>8, <1>9

-----------------------------------------------------------------------------
(* A wall taken away, and a wall set.                                      *)

LEMMA WaysJoined ==
    ASSUME NEW w \in Walls, NEW c \in Cells, NEW d \in Dirs, Beyond(c, d) \in Cells, NEW x \in Cells
    PROVE  LET n == Beyond(c, d)
           IN  Ways(RemoveWall(w, c, d), x) =
                 Ways(w, x) \cup (IF x = c THEN {n} ELSE IF x = n THEN {c} ELSE {})
<1> DEFINE v == RemoveWall(w, c, d)
           n == Beyond(c, d)
<1>1. /\ v[c] = w[c] \ {d} /\ v[n] = w[n] \ {Opposite[d]} /\ n # c
      /\ x # c /\ x # n => v[x] = w[x]
  BY BeyondFacts DEF RemoveWall
<1>2. Opposite[d] \in Dirs /\ Beyond(n, Opposite[d]) = c
  BY BeyondFacts, OppositeFacts
<1> HIDE DEF v, n
<1>3. CASE x = c
  <2>1. Dirs \ v[c] = (Dirs \ w[c]) \cup {d}
    BY <1>1
  <2>2. {Beyond(c, e) : e \in Dirs \ v[c]} = {Beyond(c, e) : e \in Dirs \ w[c]} \cup {n}
    BY <2>1 DEF n
  <2> QED
    BY <1>3, <2>2 DEF Ways, v, n
<1>4. CASE x = n
  <2>1. Dirs \ v[n] = (Dirs \ w[n]) \cup {Opposite[d]}
    BY <1>1, <1>2
  <2>2. {Beyond(n, e) : e \in Dirs \ v[n]} = {Beyond(n, e) : e \in Dirs \ w[n]} \cup {c}
    BY <1>2, <2>1
  <2>3. Ways(v, n) = Ways(w, n) \cup {c}
    BY <2>2 DEF Ways
  <2> QED
    BY <1>1, <1>4, <2>3 DEF v, n
<1>5. CASE x # c /\ x # n
  BY <1>1, <1>5 DEF Ways, v, n
<1> QED
  BY <1>3, <1>4, <1>5

(* A wall taken away joins what its two sides were joined to.              *)
LEMMA LinkedJoined ==
    ASSUME NEW w \in Walls, Valid(w), NEW c \in Cells, NEW d \in Dirs, Beyond(c, d) \in Cells,
           NEW x \in Cells, NEW y \in Cells
    PROVE  LET n == Beyond(c, d)
           IN  Linked(RemoveWall(w, c, d), x, y) <=>
                 \/ Linked(w, x, y)
                 \/ Linked(w, x, c) /\ Linked(w, n, y)
                 \/ Linked(w, x, n) /\ Linked(w, c, y)
<1> DEFINE v == RemoveWall(w, c, d)
           n == Beyond(c, d)
           B(z) == \/ Linked(w, x, z)
                   \/ Linked(w, x, c) /\ Linked(w, n, z)
                   \/ Linked(w, x, n) /\ Linked(w, c, z)
<1>1. n \in Cells /\ \A z \in Cells :
         Ways(v, z) = Ways(w, z) \cup (IF z = c THEN {n} ELSE IF z = n THEN {c} ELSE {})
  BY WaysJoined
<1> HIDE DEF v, n
<1>2. \A s, t \in Cells : Linked(w, s, t) => Linked(v, s, t)
  BY <1>1, LinkedStays
<1>3. Linked(v, c, n) /\ Linked(v, n, c)
  BY <1>1, LinkedWay
<1>4. B(y) => Linked(v, x, y)
  <2>1. CASE Linked(w, x, y)
    BY <1>2, <2>1
  <2>2. CASE Linked(w, x, c) /\ Linked(w, n, y)
    <3>1. Linked(v, x, c) /\ Linked(v, n, y)
      BY <1>1, <1>2, <2>2
    <3> QED
      BY <1>3, <3>1, LinkedThrough
  <2>3. CASE Linked(w, x, n) /\ Linked(w, c, y)
    <3>1. Linked(v, x, n) /\ Linked(v, c, y)
      BY <1>1, <1>2, <2>3
    <3> QED
      BY <1>3, <3>1, LinkedThrough
  <2> QED
    BY <2>1, <2>2, <2>3
<1>5. Linked(v, x, y) => B(y)
  <2> DEFINE S == {z \in Cells : B(z)}
  <2>1. x \in S
    BY LinkedItself
  <2>2. ASSUME NEW z \in S, NEW t \in Ways(v, z) PROVE t \in S
    <3>0. t \in Cells /\ z \in Cells /\ B(z)
      BY <1>1, <2>2 DEF Ways
    <3>1. CASE t \in Ways(w, z)
      <4>1. Linked(w, z, t)
        BY <3>0, <3>1, LinkedWay
      <4>2. \A s \in Cells : Linked(w, s, z) => Linked(w, s, t)
        BY <4>1, LinkedThrough
      <4> QED
        BY <1>1, <3>0, <4>2
    <3>2. CASE z = c /\ t = n
      <4>1. Linked(w, x, c) \/ (Linked(w, x, n) /\ Linked(w, c, c))
        BY <3>0, <3>2
      <4>2. Linked(w, n, n)
        BY LinkedItself
      <4> QED
        BY <3>0, <3>2, <4>1, <4>2
    <3>3. CASE z = n /\ t = c
      <4>1. Linked(w, x, n) \/ (Linked(w, x, c) /\ Linked(w, n, n))
        BY <3>0, <3>3
      <4>2. Linked(w, c, c)
        BY LinkedItself
      <4> QED
        BY <3>0, <3>3, <4>1, <4>2
    <3> QED
      BY <1>1, <2>2, <3>0, <3>1, <3>2, <3>3
  <2>3. S \in SUBSET Cells /\ Shut(v, S)
    BY <2>2 DEF Shut
  <2> HIDE DEF S
  <2>4. Linked(v, x, y) => y \in S
    BY <2>1, <2>3 DEF Linked
  <2> QED
    BY <2>4 DEF S
<1> QED
  BY <1>4, <1>5 DEF v, n

-----------------------------------------------------------------------------
(* The open walls, counted.                                                *)

LEMMA PlainCells == Plain \subseteq Cells /\ IsFiniteSet(Plain) /\ Cardinality(Plain) \in Nat
  BY CellsFinite, FS_Subset, FS_CardinalityType DEF Plain

LEMMA OpenWallsFinite ==
    /\ IsFiniteSet(InnerWalls)
    /\ \A w : IsFiniteSet(OpenWalls(w)) /\ Cardinality(OpenWalls(w)) \in Nat
<1>1. IsFiniteSet({"E", "S"})
  <2>1. {"E", "S"} = {"E"} \cup {"S"}
    OBVIOUS
  <2>2. IsFiniteSet({"E"}) /\ IsFiniteSet({"S"})
    BY FS_Singleton
  <2> QED
    BY <2>1, <2>2, FS_Union
<1>2. IsFiniteSet(Plain \X {"E", "S"})
  BY <1>1, PlainCells, FS_Product
<1>3. IsFiniteSet(InnerWalls)
  BY <1>2, FS_Subset DEF InnerWalls
<1>4. \A w : OpenWalls(w) \subseteq InnerWalls
  BY DEF OpenWalls
<1> QED
  BY <1>3, <1>4, FS_Subset, FS_CardinalityType

(* The name of the wall in a direction of a cell.                          *)
EdgeName(c, d) == IF d \in {"E", "S"} THEN <<c, d>> ELSE <<Beyond(c, d), Opposite[d]>>

LEMMA EdgeNameIs ==
    ASSUME NEW c \in Plain, NEW d \in Dirs, Beyond(c, d) \in Plain
    PROVE  /\ EdgeName(c, d) \in InnerWalls
           /\ \A x \in Plain, k \in {"E", "S"} :
                <<x, k>> = EdgeName(c, d) <=>
                  (x = c /\ k = d) \/ (x = Beyond(c, d) /\ k = Opposite[d])
<1> DEFINE n == Beyond(c, d)
<1>1. c \in Cells /\ n \in Cells
  BY PlainCells
<1>2. Beyond(n, Opposite[d]) = c /\ n # c
  BY <1>1, BeyondFacts
<1>3. CASE d \in {"E", "S"}
  <2>1. Opposite[d] \notin {"E", "S"}
    BY <1>3 DEF Opposite, Dirs
  <2>2. EdgeName(c, d) = <<c, d>>
    BY <1>3 DEF EdgeName
  <2> QED
    BY <1>3, <2>1, <2>2 DEF InnerWalls
<1>4. CASE d \notin {"E", "S"}
  <2>1. Opposite[d] \in {"E", "S"}
    BY <1>4 DEF Opposite, Dirs
  <2>2. EdgeName(c, d) = <<n, Opposite[d]>>
    BY <1>4 DEF EdgeName
  <2> HIDE DEF n
  <2>3. <<n, Opposite[d]>> \in InnerWalls
    BY <2>1, <1>2 DEF InnerWalls, n
  <2> QED
    BY <1>4, <2>1, <2>2, <2>3 DEF n
<1> QED
  BY <1>3, <1>4

LEMMA WallRemoved ==
    ASSUME NEW w \in Walls, NEW c \in Cells, NEW d \in Dirs
    PROVE  \A x \in Cells, e \in Dirs :
             e \in RemoveWall(w, c, d)[x] <=>
               e \in w[x] /\ ~(x = c /\ e = d) /\ ~(x = Beyond(c, d) /\ e = Opposite[d])
  BY BeyondFacts DEF RemoveWall, Walls

(* A wall between two cells that is taken away is one more open wall.      *)
LEMMA OpensOne ==
    ASSUME NEW w \in Walls, Valid(w), NEW c \in Plain, NEW d \in Dirs, Beyond(c, d) \in Plain,
           d \in w[c]
    PROVE  Cardinality(OpenWalls(RemoveWall(w, c, d))) = Cardinality(OpenWalls(w)) + 1
<1> DEFINE v == RemoveWall(w, c, d)
           n == Beyond(c, d)
           one == EdgeName(c, d)
<1>1. c \in Cells /\ n \in Cells /\ Plain \subseteq Cells
  BY PlainCells
<1>2. Opposite[d] \in w[n]
  BY <1>1 DEF Valid
<1>0. \A x \in Cells, e \in Dirs :
         e \in v[x] <=> e \in w[x] /\ ~(x = c /\ e = d) /\ ~(x = n /\ e = Opposite[d])
  BY <1>1, WallRemoved
<1>3. ASSUME NEW x \in Plain, NEW k \in {"E", "S"}
      PROVE  k \in v[x] <=> k \in w[x] /\ <<x, k>> # one
  <2>1. k \in Dirs /\ x \in Cells
    BY <1>1 DEF Dirs
  <2>2. k \in v[x] <=> k \in w[x] /\ ~(x = c /\ k = d) /\ ~(x = n /\ k = Opposite[d])
    BY <1>0, <2>1
  <2>3. <<x, k>> = one <=> (x = c /\ k = d) \/ (x = n /\ k = Opposite[d])
    BY EdgeNameIs
  <2> QED
    BY <2>2, <2>3
<1>4. one \in InnerWalls
  BY EdgeNameIs
<1>5. PICK x \in Plain, k \in {"E", "S"} : one = <<x, k>>
  BY <1>4 DEF InnerWalls
<1>6. one \notin OpenWalls(w)
  <2>1. (x = c /\ k = d) \/ (x = n /\ k = Opposite[d])
    BY <1>5, EdgeNameIs
  <2>2. k \in w[x]
    BY <2>1, <1>2
  <2> QED
    BY <1>5, <2>2 DEF OpenWalls
<1> HIDE DEF v, n, one
<1>7. OpenWalls(v) = OpenWalls(w) \cup {one}
  <2>1. ASSUME NEW e \in InnerWalls PROVE e[2] \notin v[e[1]] <=> e[2] \notin w[e[1]] \/ e = one
    <3>1. PICK y \in Plain, j \in {"E", "S"} : e = <<y, j>>
      BY <2>1 DEF InnerWalls
    <3> QED
      BY <1>3, <3>1
  <2> QED
    BY <1>4, <2>1 DEF OpenWalls
<1> QED
  BY <1>6, <1>7, OpenWallsFinite, FS_AddElement DEF v

(* A wall that is set where there was none, taken away again.              *)
LEMMA SetThenRemoved ==
    ASSUME NEW w \in Walls, Valid(w), NEW c \in Cells, NEW d \in Dirs, Beyond(c, d) \in Cells,
           d \notin w[c]
    PROVE  RemoveWall(SetWall(w, c, d), c, d) = w
<1> DEFINE n == Beyond(c, d)
           v == SetWall(w, c, d)
<1>1. n # c /\ Opposite[d] \notin w[n]
  BY BeyondFacts DEF Valid
<1>2. v \in Walls /\ \A x \in Cells :
         v[x] = IF x = c THEN w[x] \cup {d} ELSE IF x = n THEN w[x] \cup {Opposite[d]} ELSE w[x]
  BY SetWallAgrees DEF SetWall
<1>3. RemoveWall(v, c, d) = [x \in Cells |->
         IF x = c THEN v[x] \ {d} ELSE IF x = n THEN v[x] \ {Opposite[d]} ELSE v[x]]
  BY DEF RemoveWall
<1> HIDE DEF n, v
<1>4. ASSUME NEW x \in Cells
      PROVE  (IF x = c THEN v[x] \ {d} ELSE IF x = n THEN v[x] \ {Opposite[d]} ELSE v[x]) = w[x]
  <2>1. CASE x = c
    BY <1>1, <1>2, <2>1
  <2>2. CASE x # c /\ x = n
    BY <1>1, <1>2, <2>2
  <2>3. CASE x # c /\ x # n
    BY <1>1, <1>2, <2>3
  <2> QED
    BY <2>1, <2>2, <2>3
<1>5. RemoveWall(v, c, d) = [x \in Cells |-> w[x]]
  BY <1>3, <1>4
<1>6. w = [x \in Cells |-> w[x]]
  BY DEF Walls
<1> QED
  BY <1>5, <1>6 DEF v

(* With all walls, nothing is open.                                        *)
LEMMA AllClosed ==
    ASSUME NEW w, \A x \in Plain : w[x] = Dirs
    PROVE  Cardinality(OpenWalls(w)) = 0
<1>1. OpenWalls(w) = {}
  BY DEF OpenWalls, InnerWalls, Dirs
<1> QED
  BY <1>1, FS_EmptySet

-----------------------------------------------------------------------------
(* Cells joined by open walls, and how many walls that takes.              *)

Shuttered(w) == \A c \in world.pattern : w[c] = Dirs

AllLinked(w, V) == \A x, y \in V : Linked(w, x, y)

(* No way leads into the pattern.                                          *)
LEMMA PlainShut ==
    ASSUME NEW w \in Walls, Valid(w), Shuttered(w), NEW x \in Cells
    PROVE  Ways(w, x) \subseteq Plain
<1> SUFFICES ASSUME NEW y \in Ways(w, x) PROVE y \in Plain
  OBVIOUS
<1>1. y \in Cells /\ x \in Ways(w, y)
  BY WaysBothWays DEF Ways
<1>2. w[y] # Dirs
  BY <1>1 DEF Ways
<1> QED
  BY <1>1, <1>2 DEF Shuttered, Plain

(* A way between two cells is one open wall.                               *)
LEMMA WayIsOpen ==
    ASSUME NEW w \in Walls, Valid(w), Shuttered(w), NEW x \in Plain, NEW y \in Ways(w, x)
    PROVE  \E e \in OpenWalls(w) :
             \/ e[1] = x /\ Beyond(e[1], e[2]) = y
             \/ e[1] = y /\ Beyond(e[1], e[2]) = x
<1>1. PICK d \in Dirs \ w[x] : y = Beyond(x, d)
  BY DEF Ways
<1>2. x \in Cells /\ y \in Plain /\ y \in Cells
  BY PlainCells, PlainShut
<1>3. Opposite[d] \in Dirs \ w[y] /\ Beyond(y, Opposite[d]) = x
  BY <1>1, <1>2, BeyondFacts, OppositeFacts DEF Valid
<1>4. CASE d \in {"E", "S"}
  <2>1. <<x, d>> \in OpenWalls(w)
    BY <1>1, <1>2, <1>4 DEF OpenWalls, InnerWalls
  <2> QED
    BY <1>1, <2>1
<1>5. CASE d \notin {"E", "S"}
  <2>1. Opposite[d] \in {"E", "S"}
    BY <1>5 DEF Opposite, Dirs
  <2>2. <<y, Opposite[d]>> \in OpenWalls(w)
    BY <1>2, <1>3, <2>1 DEF OpenWalls, InnerWalls
  <2> QED
    BY <1>3, <2>2
<1> QED
  BY <1>4, <1>5

(* The open walls between cells of a set.                                  *)
Inside(w, V) == {e \in OpenWalls(w) : e[1] \in V /\ Beyond(e[1], e[2]) \in V}

(* To join n cells takes n - 1 open walls, or more.                        *)
LEMMA AtLeast ==
    ASSUME NEW w \in Walls, Valid(w), Shuttered(w), AllLinked(w, Plain)
    PROVE  Cardinality(Plain) <= Cardinality(OpenWalls(w)) + 1
<1> DEFINE N == Cardinality(Plain)
<1>0. Plain \subseteq Cells /\ IsFiniteSet(Plain) /\ N \in Nat
  BY PlainCells
<1>1. Cardinality(OpenWalls(w)) \in Nat /\ IsFiniteSet(OpenWalls(w))
  BY OpenWallsFinite
<1>2. CASE N = 0
  BY <1>1, <1>2
<1>3. CASE N # 0
  <2>1. PICK a \in Plain : TRUE
    BY <1>3, FS_EmptySet
  <2> DEFINE Good(k, V) == a \in V /\ Cardinality(V) = k + 1 /\ Cardinality(Inside(w, V)) >= k
             T == {k \in Nat : k + 1 <= N => \E V \in SUBSET Plain : Good(k, V)}
  <2>2. \A V \in SUBSET Plain : /\ IsFiniteSet(V) /\ Cardinality(V) \in Nat
                               /\ IsFiniteSet(Inside(w, V)) /\ Cardinality(Inside(w, V)) \in Nat
                               /\ Inside(w, V) \subseteq OpenWalls(w)
    <3> TAKE V \in SUBSET Plain
    <3>1. Inside(w, V) \subseteq OpenWalls(w)
      BY DEF Inside
    <3> QED
      BY <1>0, <1>1, <3>1, FS_Subset, FS_CardinalityType
  <2>3. 0 \in T
    <3>1. {a} \in SUBSET Plain /\ Cardinality({a}) = 1 /\ Cardinality(Inside(w, {a})) \in Nat
      BY <2>1, <2>2, FS_Singleton
    <3>2. \A n \in Nat : n >= 0
      OBVIOUS
    <3>3. Good(0, {a})
      BY <3>1, <3>2
    <3> QED
      BY <3>1, <3>3
  <2>4. ASSUME NEW k \in T PROVE k + 1 \in T
    <3> SUFFICES ASSUME k + 2 <= N PROVE \E V \in SUBSET Plain : Good(k + 1, V)
      OBVIOUS
    <3>1. k \in Nat /\ k + 1 <= N
      BY <1>0
    <3>2. PICK V \in SUBSET Plain : Good(k, V)
      BY <3>1
    <3>3. V # Plain
      BY <3>1, <3>2
    <3>4. ~Shut(w, V)
      BY <1>0, <3>2, <3>3 DEF AllLinked, Linked
    <3>5a. PICK x \in V : ~(Ways(w, x) \subseteq V)
      BY <3>4 DEF Shut
    <3>5. PICK y \in Ways(w, x) : y \notin V
      BY <3>5a
    <3>6. x \in Plain /\ y \in Plain
      BY <1>0, <3>5, PlainShut
    <3>7. PICK e \in OpenWalls(w) : \/ e[1] = x /\ Beyond(e[1], e[2]) = y
                                    \/ e[1] = y /\ Beyond(e[1], e[2]) = x
      BY <3>5, <3>6, WayIsOpen
    <3> DEFINE U == V \cup {y}
    <3>8. U \in SUBSET Plain /\ Cardinality(U) = (k + 1) + 1
      BY <2>2, <3>2, <3>5, <3>6, FS_AddElement
    <3>9. e \notin Inside(w, V) /\ Inside(w, V) \cup {e} \subseteq Inside(w, U)
      BY <3>5, <3>7 DEF Inside
    <3>10. Cardinality(Inside(w, V) \cup {e}) = Cardinality(Inside(w, V)) + 1
      BY <2>2, <3>9, FS_AddElement
    <3>11. Cardinality(Inside(w, V) \cup {e}) <= Cardinality(Inside(w, U))
      BY <2>2, <3>8, <3>9, FS_Subset
    <3>12. Cardinality(Inside(w, U)) >= k + 1
      <4> DEFINE m == Cardinality(Inside(w, V))
                 n == Cardinality(Inside(w, U))
      <4>1. m \in Nat /\ n \in Nat /\ m >= k
        BY <2>2, <3>2, <3>8
      <4>2. m + 1 <= n
        BY <3>10, <3>11
      <4> HIDE DEF m, n
      <4>3. n >= k + 1
        BY <3>1, <4>1, <4>2
      <4> QED
        BY <4>3 DEF n
    <3>13. Good(k + 1, U)
      BY <3>2, <3>8, <3>12
    <3> HIDE DEF Good, U
    <3> QED
      BY <3>8, <3>13
  <2>5. T \in SUBSET Nat
    OBVIOUS
  <2> HIDE DEF T
  <2>6. T = Nat
    BY <2>3, <2>4, <2>5, NatSteps
  <2>7. N - 1 \in Nat /\ (N - 1) + 1 <= N
    BY <1>0, <1>3
  <2>8. PICK V \in SUBSET Plain : Good(N - 1, V)
    BY <2>6, <2>7 DEF T
  <2>9. Cardinality(Inside(w, V)) <= Cardinality(OpenWalls(w))
    BY <1>1, <2>2, FS_Subset
  <2>10. Cardinality(Inside(w, V)) \in Nat /\ Cardinality(Inside(w, V)) >= N - 1
    BY <2>2, <2>8
  <2> QED
    BY <1>0, <1>1, <2>9, <2>10
<1> QED
  BY <1>2, <1>3

-----------------------------------------------------------------------------
(* The sets of kruskals: cells hang under others of a higher rank.         *)

Forest(p, r) ==
    /\ p \in [Plain -> Plain] /\ r \in [Plain -> Nat]
    /\ \A x \in Plain : p[x] # x => r[x] < r[p[x]]
    /\ \E top \in Nat : \A x \in Plain : r[x] <= top

(* What holds of roots, and of a cell as soon as it holds of its parent,   *)
(* holds of every cell.                                                    *)
LEMMA ForestSteps ==
    ASSUME NEW p, NEW r, Forest(p, r), NEW T \in SUBSET Plain,
           \A x \in Plain : p[x] = x \/ p[x] \in T => x \in T
    PROVE  T = Plain
<1> SUFFICES ASSUME Plain \ T # {} PROVE FALSE
  OBVIOUS
<1>1. PICK top \in Nat : \A x \in Plain : r[x] <= top
  BY DEF Forest
<1> DEFINE H == {top - r[x] : x \in Plain \ T}
<1>2. \A x \in Plain : r[x] \in Nat /\ top - r[x] \in Nat
  <2>1. \A x \in Plain : r[x] \in Nat
    BY DEF Forest
  <2> QED
    BY <1>1, <2>1
<1>3. H \in SUBSET Nat /\ H # {}
  BY <1>2
<1> HIDE DEF H
<1>4. PICK m \in H : \A k \in H : m <= k
  BY <1>3, NatMin
<1>5. PICK x \in Plain \ T : m = top - r[x]
  BY <1>4 DEF H
<1>6. p[x] \in Plain \ T /\ r[x] < r[p[x]]
  BY <1>5 DEF Forest
<1>7. top - r[p[x]] \in H
  BY <1>6 DEF H
<1>8. top - r[x] <= top - r[p[x]]
  BY <1>4, <1>5, <1>7
<1> QED
  BY <1>2, <1>5, <1>6, <1>8

(* What is found going up from a cell.                                     *)
Up(p, c) == {x \in Plain : \A S \in SUBSET Plain : c \in S /\ (\A y \in S : p[y] \in S) => x \in S}

LEMMA UpIs ==
    ASSUME NEW p \in [Plain -> Plain], NEW c \in Plain
    PROVE  Up(p, c) = {c} \cup (IF p[c] = c THEN {} ELSE Up(p, p[c]))
<1>1. c \in Up(p, c)
  BY DEF Up
<1>2. Up(p, p[c]) \subseteq Up(p, c)
  BY DEF Up
<1>3. CASE p[c] = c
  <2>1. \A y \in {c} : p[y] \in {c}
    BY <1>3
  <2>2. Up(p, c) \subseteq {c}
    BY <2>1 DEF Up
  <2> QED
    BY <1>1, <1>3, <2>2
<1>4. CASE p[c] # c
  <2> DEFINE S == {c} \cup Up(p, p[c])
  <2>1. p[c] \in Up(p, p[c])
    BY DEF Up
  <2>2. \A y \in Up(p, p[c]) : p[y] \in Up(p, p[c])
    BY DEF Up
  <2>3. S \in SUBSET Plain /\ c \in S /\ \A y \in S : p[y] \in S
    BY <2>1, <2>2 DEF Up
  <2> HIDE DEF S
  <2>4. Up(p, c) \subseteq S
    BY <2>3 DEF Up
  <2>5. S = {c} \cup Up(p, p[c])
    BY DEF S
  <2> QED
    BY <1>1, <1>2, <1>4, <2>4, <2>5
<1> QED
  BY <1>3, <1>4

(* find, one step up.                                                      *)
LEMMA RootIs ==
    ASSUME NEW p \in [Plain -> Plain]
    PROVE  \A c \in Plain : Root(p, c) = IF p[c] = c THEN c ELSE Root(p, p[c])
<1> DEFINE Tops(c) == {x \in Up(p, c) : p[x] = x}
           g == [c \in Plain |-> CHOOSE x : x \in Tops(c)]
<1>1. ASSUME NEW c \in Plain PROVE g[c] = IF p[c] = c THEN c ELSE g[p[c]]
  <2>1. CASE p[c] = c
    <3>1. Tops(c) = {c}
      BY <2>1, UpIs
    <3>2. g[c] \in Tops(c)
      BY <3>1
    <3> QED
      BY <2>1, <3>1, <3>2
  <2>2. CASE p[c] # c
    <3>1. Tops(c) = Tops(p[c])
      BY <2>2, UpIs
    <3> HIDE DEF Tops
    <3>2. p[c] \in Plain
      OBVIOUS
    <3> QED
      BY <2>2, <3>1, <3>2
  <2> QED
    BY <2>1, <2>2
<1>2. DOMAIN p = Plain /\ g = [c \in Plain |-> g[c]]
  OBVIOUS
<1> HIDE DEF g
<1>3. g = [x \in DOMAIN p |-> IF p[x] = x THEN x ELSE g[p[x]]]
  BY <1>1, <1>2
<1> DEFINE root == CHOOSE root : root = [x \in DOMAIN p |-> IF p[x] = x THEN x ELSE root[p[x]]]
<1>4. root = [x \in DOMAIN p |-> IF p[x] = x THEN x ELSE root[p[x]]]
  BY <1>3
<1>5. \A c \in Plain : Root(p, c) = root[c]
  BY DEF Root
<1> HIDE DEF root
<1>6. \A c \in Plain : root[c] = IF p[c] = c THEN c ELSE root[p[c]]
  BY <1>2, <1>4
<1>7. \A c \in Plain : p[c] \in Plain
  OBVIOUS
<1> QED
  BY <1>5, <1>6, <1>7

LEMMA WayUpIs ==
    ASSUME NEW p \in [Plain -> Plain]
    PROVE  \A c \in Plain : WayUp(p, c) = {c} \cup (IF p[c] = c THEN {} ELSE WayUp(p, p[c]))
<1> DEFINE g == [c \in Plain |-> Up(p, c)]
<1>1. \A c \in Plain : g[c] = {c} \cup (IF p[c] = c THEN {} ELSE g[p[c]])
  BY UpIs
<1>2. DOMAIN p = Plain /\ g = [c \in Plain |-> g[c]]
  OBVIOUS
<1> HIDE DEF g
<1>3. g = [x \in DOMAIN p |-> {x} \cup (IF p[x] = x THEN {} ELSE g[p[x]])]
  BY <1>1, <1>2
<1> DEFINE way == CHOOSE way : way = [x \in DOMAIN p |-> {x} \cup (IF p[x] = x THEN {} ELSE way[p[x]])]
<1>4. way = [x \in DOMAIN p |-> {x} \cup (IF p[x] = x THEN {} ELSE way[p[x]])]
  BY <1>3
<1>5. \A c \in Plain : WayUp(p, c) = way[c]
  BY DEF WayUp
<1> HIDE DEF way
<1>6. \A c \in Plain : way[c] = {c} \cup (IF p[c] = c THEN {} ELSE way[p[c]])
  BY <1>2, <1>4
<1>7. \A c \in Plain : p[c] \in Plain
  OBVIOUS
<1> QED
  BY <1>5, <1>6, <1>7

(* The root of a cell is a cell, a root and of a higher rank.              *)
LEMMA RootFacts ==
    ASSUME NEW p, NEW r, Forest(p, r), NEW c \in Plain
    PROVE  /\ Root(p, c) \in Plain /\ p[Root(p, c)] = Root(p, c)
           /\ Root(p, c) # c => r[c] < r[Root(p, c)]
           /\ p[c] = c => Root(p, c) = c
           /\ p[c] # c => Root(p, c) = Root(p, p[c])
<1>0. p \in [Plain -> Plain] /\ r \in [Plain -> Nat]
  BY DEF Forest
<1>1. \A x \in Plain : Root(p, x) = IF p[x] = x THEN x ELSE Root(p, p[x])
  BY <1>0, RootIs
<1> DEFINE Good(x) == /\ Root(p, x) \in Plain /\ p[Root(p, x)] = Root(p, x)
                      /\ Root(p, x) # x => r[x] < r[Root(p, x)]
           T == {x \in Plain : Good(x)}
<1>2. ASSUME NEW x \in Plain, p[x] = x \/ p[x] \in T PROVE x \in T
  <2>1. CASE p[x] = x
    BY <1>1, <2>1
  <2>2. CASE p[x] # x
    <3>1. Good(p[x]) /\ Root(p, x) = Root(p, p[x]) /\ r[x] < r[p[x]] /\ p[x] \in Plain
      BY <1>1, <1>2, <2>2 DEF Forest
    <3>2. r[x] \in Nat /\ r[p[x]] \in Nat /\ r[Root(p, x)] \in Nat
      BY <1>0, <3>1
    <3>3. r[x] < r[Root(p, x)]
      BY <3>1, <3>2
    <3> QED
      BY <3>1, <3>3
  <2> QED
    BY <2>1, <2>2
<1>3. T \in SUBSET Plain
  OBVIOUS
<1> HIDE DEF T, Good
<1>4. T = Plain
  BY <1>2, <1>3, ForestSteps
<1>5. Good(c)
  BY <1>4 DEF T
<1> QED
  BY <1>1, <1>5 DEF Good

LEMMA WayUpFacts ==
    ASSUME NEW p, NEW r, Forest(p, r), NEW c \in Plain
    PROVE  WayUp(p, c) \subseteq Plain /\ \A x \in WayUp(p, c) : Root(p, x) = Root(p, c)
<1>0. p \in [Plain -> Plain]
  BY DEF Forest
<1>1. \A x \in Plain : WayUp(p, x) = {x} \cup (IF p[x] = x THEN {} ELSE WayUp(p, p[x]))
  BY <1>0, WayUpIs
<1>2. \A x \in Plain : p[x] # x => Root(p, x) = Root(p, p[x])
  BY RootFacts
<1> DEFINE T == {x \in Plain : WayUp(p, x) \subseteq Plain /\ \A y \in WayUp(p, x) : Root(p, y) = Root(p, x)}
<1>3. ASSUME NEW x \in Plain, p[x] = x \/ p[x] \in T PROVE x \in T
  BY <1>1, <1>2, <1>3
<1>4. T \in SUBSET Plain
  OBVIOUS
<1> HIDE DEF T
<1>5. T = Plain
  BY <1>3, <1>4, ForestSteps
<1> QED
  BY <1>5 DEF T

(* find, its second loop: every cell keeps its root.                       *)
LEMMA CompressedKeeps ==
    ASSUME NEW p, NEW r, Forest(p, r), NEW way \in SUBSET Plain, NEW root \in Plain,
           \A x \in way : Root(p, x) = root
    PROVE  LET p2 == Compressed(p, way, root)
           IN  /\ Forest(p2, r)
               /\ \A x \in Plain : Root(p2, x) = Root(p, x) /\ (p2[x] = x <=> p[x] = x)
<1> DEFINE p2 == Compressed(p, way, root)
<1>0. p \in [Plain -> Plain] /\ r \in [Plain -> Nat]
  BY DEF Forest
<1>1. p2 \in [Plain -> Plain] /\ \A x \in Plain : p2[x] = IF x \in way THEN root ELSE p[x]
  BY <1>0 DEF Compressed
<1> HIDE DEF p2
<1>2. \A x \in Plain : p2[x] = x <=> p[x] = x
  <2> TAKE x \in Plain
  <2>1. CASE x \in way
    BY <1>1, <2>1, RootFacts
  <2>2. CASE x \notin way
    BY <1>1, <2>2
  <2> QED
    BY <2>1, <2>2
<1>3. Forest(p2, r)
  <2>1. ASSUME NEW x \in Plain, p2[x] # x PROVE r[x] < r[p2[x]]
    <3>1. CASE x \in way
      BY <1>1, <2>1, <3>1, RootFacts
    <3>2. CASE x \notin way
      BY <1>1, <2>1, <3>2 DEF Forest
    <3> QED
      BY <3>1, <3>2
  <2> QED
    BY <1>0, <1>1, <2>1 DEF Forest
<1> DEFINE T == {x \in Plain : Root(p2, x) = Root(p, x)}
<1>4. ASSUME NEW x \in Plain, p2[x] = x \/ p2[x] \in T PROVE x \in T
  <2>1. CASE p2[x] = x
    <3>1. Root(p2, x) = x
      BY <1>3, <2>1, RootFacts
    <3>2. Root(p, x) = x
      BY <1>2, <2>1, RootFacts
    <3> QED
      BY <3>1, <3>2
  <2>2. CASE p2[x] # x
    <3>1. Root(p2, x) = Root(p2, p2[x])
      BY <1>3, <2>2, RootFacts
    <3>2. Root(p2, p2[x]) = Root(p, p2[x])
      BY <1>4, <2>2
    <3>3. CASE x \in way
      <4>1. Root(p, x) = root /\ p2[x] = root
        BY <1>1, <3>3
      <4>2. p[root] = root
        BY <4>1, RootFacts
      <4>3. Root(p, root) = root
        BY <4>2, RootFacts
      <4> QED
        BY <3>1, <3>2, <4>1, <4>3
    <3>4. CASE x \notin way
      <4>1. p2[x] = p[x] /\ p[x] # x
        BY <1>1, <2>2, <3>4
      <4>2. Root(p, x) = Root(p, p[x])
        BY <4>1, RootFacts
      <4> QED
        BY <3>1, <3>2, <4>1, <4>2
    <3> QED
      BY <3>3, <3>4
  <2> QED
    BY <2>1, <2>2
<1>5. T \in SUBSET Plain
  OBVIOUS
<1> HIDE DEF T
<1>6. T = Plain
  BY <1>3, <1>4, <1>5, ForestSteps
<1>7. \A x \in Plain : Root(p2, x) = Root(p, x)
  BY <1>6 DEF T
<1> QED
  BY <1>2, <1>3, <1>7 DEF p2

(* A root hung under another one: its set is part of the other's.          *)
LEMMA HungUnder ==
    ASSUME NEW p, NEW r, Forest(p, r), NEW a \in Plain, NEW b \in Plain, a # b, p[a] = a, p[b] = b,
           NEW p2, \A x \in Plain : p2[x] = IF x = a THEN b ELSE p[x], NEW r2, Forest(p2, r2)
    PROVE  /\ \A x \in Plain : Root(p2, x) = IF Root(p, x) = a THEN b ELSE Root(p, x)
           /\ {x \in Plain : p2[x] = x} = {x \in Plain : p[x] = x} \ {a}
<1>1. p \in [Plain -> Plain] /\ \A x \in Plain : p2[x] = IF x = a THEN b ELSE p[x]
  BY DEF Forest
<1> DEFINE Good(x) == Root(p2, x) = IF Root(p, x) = a THEN b ELSE Root(p, x)
           T == {x \in Plain : Good(x)}
<1>2. ASSUME NEW x \in Plain, p2[x] = x \/ p2[x] \in T PROVE x \in T
  <2>1. CASE p2[x] = x
    <3>1. x # a /\ p[x] = x
      BY <1>1, <2>1
    <3>2. Root(p2, x) = x /\ Root(p, x) = x
      BY <2>1, <3>1, RootFacts
    <3> QED
      BY <3>1, <3>2
  <2>2. CASE p2[x] # x /\ x = a
    <3>1. p2[x] = b /\ p2[b] = b
      BY <1>1, <2>2
    <3>2. Root(p2, x) = Root(p2, p2[x])
      BY <2>2, RootFacts
    <3>3. Root(p2, b) = b /\ Root(p, a) = a
      BY <3>1, RootFacts
    <3> QED
      BY <2>2, <3>1, <3>2, <3>3
  <2>3. CASE p2[x] # x /\ x # a
    <3>1. p2[x] = p[x] /\ p[x] # x
      BY <1>1, <2>3
    <3>2. Root(p2, x) = Root(p2, p2[x])
      BY <2>3, RootFacts
    <3>3. Root(p, x) = Root(p, p[x])
      BY <3>1, RootFacts
    <3>4. Good(p2[x])
      BY <1>2, <2>3
    <3> QED
      BY <3>1, <3>2, <3>3, <3>4
  <2> QED
    BY <2>1, <2>2, <2>3
<1>3. T \in SUBSET Plain
  OBVIOUS
<1> HIDE DEF T, Good
<1>4. T = Plain
  BY <1>2, <1>3, ForestSteps
<1>5. \A x \in Plain : Good(x)
  BY <1>4 DEF T
<1>6. {x \in Plain : p2[x] = x} = {x \in Plain : p[x] = x} \ {a}
  BY <1>1
<1> QED
  BY <1>5, <1>6 DEF Good

Tops(p) == {x \in Plain : p[x] = x}

(* union: two sets become one, and the ranks still rise.                   *)
LEMMA UnionIs ==
    ASSUME NEW p, NEW r, Forest(p, r), NEW a \in Plain, NEW b \in Plain, a # b, p[a] = a, p[b] = b,
           NEW u, u = Union(p, r, a, b)
    PROVE  /\ Forest(u.parent, u.rank)
           /\ Cardinality(Tops(u.parent)) + 1 = Cardinality(Tops(p))
           /\ \A x, y \in Plain :
                Root(u.parent, x) = Root(u.parent, y) <=>
                  \/ Root(p, x) = Root(p, y)
                  \/ Root(p, x) = a /\ Root(p, y) = b
                  \/ Root(p, x) = b /\ Root(p, y) = a
<1>0. p \in [Plain -> Plain] /\ r \in [Plain -> Nat] /\ \A x \in Plain : p[x] # x => r[x] < r[p[x]]
  BY DEF Forest
<1>1. PICK top \in Nat : \A x \in Plain : r[x] <= top
  BY DEF Forest
<1>2. \A t \in Plain : p[t] = t => t \in Tops(p)
  BY DEF Tops
<1>3. IsFiniteSet(Tops(p))
  BY PlainCells, FS_Subset DEF Tops
<1>4. ASSUME NEW s \in Plain, NEW t \in Plain, {s, t} = {a, b}, s # t,
             u.parent = [p EXCEPT ![s] = t], Forest(u.parent, u.rank)
      PROVE  /\ Forest(u.parent, u.rank)
             /\ Cardinality(Tops(u.parent)) + 1 = Cardinality(Tops(p))
             /\ \A x, y \in Plain :
                  Root(u.parent, x) = Root(u.parent, y) <=>
                    \/ Root(p, x) = Root(p, y)
                    \/ Root(p, x) = a /\ Root(p, y) = b
                    \/ Root(p, x) = b /\ Root(p, y) = a
  <2>0. p[s] = s /\ p[t] = t
    BY <1>4
  <2>1. /\ \A x \in Plain : Root(u.parent, x) = IF Root(p, x) = s THEN t ELSE Root(p, x)
        /\ Tops(u.parent) = Tops(p) \ {s}
    <3>1. \A x \in Plain : u.parent[x] = IF x = s THEN t ELSE p[x]
      BY <1>0, <1>4
    <3>2. /\ \A x \in Plain : Root(u.parent, x) = IF Root(p, x) = s THEN t ELSE Root(p, x)
          /\ {x \in Plain : u.parent[x] = x} = {x \in Plain : p[x] = x} \ {s}
      <4> DEFINE q == u.parent
                 k == u.rank
      <4>1. Forest(q, k) /\ \A x \in Plain : q[x] = IF x = s THEN t ELSE p[x]
        BY <1>4, <3>1
      <4>2. Forest(p, r) /\ s # t /\ p[s] = s /\ p[t] = t
        BY <1>4, <2>0
      <4> HIDE DEF q, k
      <4>3. /\ \A x \in Plain : Root(q, x) = IF Root(p, x) = s THEN t ELSE Root(p, x)
            /\ {x \in Plain : q[x] = x} = {x \in Plain : p[x] = x} \ {s}
        BY <4>1, <4>2, HungUnder
      <4> QED
        BY <4>3 DEF q
    <3> QED
      BY <3>2 DEF Tops
  <2>2. s \in Tops(p)
    BY <1>2, <2>0
  <2>3. Cardinality(Tops(p) \ {s}) = Cardinality(Tops(p)) - 1
    BY <1>3, <2>2, FS_RemoveElement
  <2>4. Cardinality(Tops(p)) \in Nat
    BY <1>3, FS_CardinalityType
  <2>5. Cardinality(Tops(u.parent)) + 1 = Cardinality(Tops(p))
    BY <2>1, <2>3, <2>4
  <2>6. (s = a /\ t = b) \/ (s = b /\ t = a)
    BY <1>4
  <2>7. \A x, y \in Plain :
          Root(u.parent, x) = Root(u.parent, y) <=>
            \/ Root(p, x) = Root(p, y)
            \/ Root(p, x) = s /\ Root(p, y) = t
            \/ Root(p, x) = t /\ Root(p, y) = s
    BY <1>4, <2>1
  <2>8. \A x, y \in Plain :
          Root(u.parent, x) = Root(u.parent, y) <=>
            \/ Root(p, x) = Root(p, y)
            \/ Root(p, x) = a /\ Root(p, y) = b
            \/ Root(p, x) = b /\ Root(p, y) = a
    BY <2>6, <2>7
  <2> QED
    BY <1>4, <2>5, <2>8
<1>5. CASE r[a] < r[b]
  <2>1. u.parent = [p EXCEPT ![a] = b] /\ u.rank = r
    BY <1>5 DEF Union
  <2> DEFINE q == u.parent
  <2>2. q \in [Plain -> Plain] /\ \A x \in Plain : q[x] = IF x = a THEN b ELSE p[x]
    BY <1>0, <2>1
  <2> HIDE DEF q
  <2>3. \A x \in Plain : q[x] # x => r[x] < r[q[x]]
    BY <1>0, <1>5, <2>2
  <2>4. Forest(q, r)
    BY <1>0, <1>1, <2>2, <2>3 DEF Forest
  <2> QED
    BY <1>4, <2>1, <2>4 DEF q
<1>6. CASE ~(r[a] < r[b])
  <2>1. /\ u.parent = [p EXCEPT ![b] = a]
        /\ u.rank = IF r[a] = r[b] THEN [r EXCEPT ![a] = @ + 1] ELSE r
    BY <1>6 DEF Union
  <2> DEFINE q == u.parent
             k == u.rank
  <2>2. q \in [Plain -> Plain] /\ \A x \in Plain : q[x] = IF x = b THEN a ELSE p[x]
    BY <1>0, <2>1
  <2>3. /\ k \in [Plain -> Nat]
        /\ \A x \in Plain : k[x] = IF x = a /\ r[a] = r[b] THEN r[x] + 1 ELSE r[x]
    BY <1>0, <2>1
  <2> HIDE DEF q, k
  <2>4. r[a] \in Nat /\ r[b] \in Nat /\ \A x \in Plain : r[x] \in Nat
    BY <1>0
  <2>5. ASSUME NEW x \in Plain, q[x] # x PROVE k[x] < k[q[x]]
    <3>1. CASE x = b
      <4>1. q[x] = a /\ k[x] = r[b] /\ k[a] = IF r[a] = r[b] THEN r[a] + 1 ELSE r[a]
        BY <2>2, <2>3, <3>1
      <4> QED
        BY <1>6, <2>4, <4>1
    <3>2. CASE x # b
      <4>1. q[x] = p[x] /\ p[x] # x /\ x # a
        BY <2>2, <2>5, <3>2
      <4>2. r[x] < r[p[x]] /\ k[x] = r[x] /\ p[x] \in Plain
        BY <1>0, <2>3, <4>1
      <4>3. k[p[x]] \in {r[p[x]], r[p[x]] + 1}
        BY <2>3, <4>2
      <4> QED
        BY <2>4, <4>1, <4>2, <4>3
    <3> QED
      BY <3>1, <3>2
  <2>6. \A x \in Plain : k[x] <= top + 1
    <3> TAKE x \in Plain
    <3>1. k[x] \in {r[x], r[x] + 1} /\ r[x] <= top /\ r[x] \in Nat
      BY <1>1, <2>3, <2>4
    <3> QED
      BY <3>1
  <2>7. top + 1 \in Nat
    OBVIOUS
  <2>8. Forest(q, k)
    BY <2>2, <2>3, <2>5, <2>6, <2>7 DEF Forest
  <2>9. {b, a} = {a, b}
    OBVIOUS
  <2> QED
    BY <1>4, <2>1, <2>8, <2>9 DEF q, k
<1> QED
  BY <1>5, <1>6

-----------------------------------------------------------------------------
(* The passes.                                                             *)

(* A square of nine cells, and the ways in it.                             *)
LEMMA SquareIs ==
    ASSUME NEW c \in Squares
    PROVE  /\ c \in Cells
           /\ \A i, j \in 0..2 :
                LET x == <<c[1] + i, c[2] + j>>
                IN  /\ x \in Cells
                    /\ i < 2 => Beyond(x, "E") = <<c[1] + i + 1, c[2] + j>> /\ Beyond(x, "E") \in Cells
                    /\ j < 2 => Beyond(x, "S") = <<c[1] + i, c[2] + j + 1>> /\ Beyond(x, "S") \in Cells
<1>1. PICK a \in 0..Width - 1, b \in 0..Height - 1 : c = <<a, b>>
  BY DEF Squares, Cells
<1>2. a + 2 < Width /\ b + 2 < Height /\ c[1] = a /\ c[2] = b
  BY <1>1 DEF Squares
<1>3. \A i, j \in 0..2 : a + i \in 0..Width - 1 /\ b + j \in 0..Height - 1
  BY <1>2, SizeAssumption
<1>4. \A i, j \in 0..2 : <<a + i, b + j>> \in Cells
  BY <1>3 DEF Cells
<1>5. \A i \in 0..2 : i < 2 => i + 1 \in 0..2 /\ a + i + 1 = a + (i + 1) /\ b + i + 1 = b + (i + 1)
  BY <1>2, SizeAssumption
<1>6. ASSUME NEW i \in 0..2, NEW j \in 0..2
      PROVE  /\ i < 2 => Beyond(<<a + i, b + j>>, "E") = <<a + i + 1, b + j>> /\ <<a + i + 1, b + j>> \in Cells
             /\ j < 2 => Beyond(<<a + i, b + j>>, "S") = <<a + i, b + j + 1>> /\ <<a + i, b + j + 1>> \in Cells
  BY <1>4, <1>5 DEF Beyond
<1>7. c \in Cells
  BY DEF Squares
<1> QED
  BY <1>2, <1>4, <1>6, <1>7

(* What leads out of the grid counts for nothing.                          *)
LEMMA SameInside ==
    ASSUME NEW w, NEW v,
           \A x \in Cells, e \in Dirs : Beyond(x, e) \in Cells => (e \in v[x] <=> e \in w[x])
    PROVE  /\ \A x \in Cells : Ways(v, x) = Ways(w, x)
           /\ \A a, b : Linked(v, a, b) <=> Linked(w, a, b)
           /\ OpenWalls(v) = OpenWalls(w)
           /\ \A c \in Squares : Open3x3(v, c) <=> Open3x3(w, c)
<1>1. \A x \in Cells : Ways(v, x) = Ways(w, x)
  BY DEF Ways
<1>2. ASSUME NEW S \in SUBSET Cells PROVE Shut(v, S) <=> Shut(w, S)
  BY <1>1 DEF Shut
<1>3. \A a, b : Linked(v, a, b) <=> Linked(w, a, b)
  BY <1>2 DEF Linked
<1>4. ASSUME NEW e \in InnerWalls PROVE e[2] \notin v[e[1]] <=> e[2] \notin w[e[1]]
  <2>1. e[1] \in Cells /\ e[2] \in Dirs /\ Beyond(e[1], e[2]) \in Cells
    BY PlainCells DEF InnerWalls, Dirs
  <2> QED
    BY <2>1
<1>5. OpenWalls(v) = OpenWalls(w)
  BY <1>4 DEF OpenWalls
<1>6. ASSUME NEW c \in Squares PROVE Open3x3(v, c) <=> Open3x3(w, c)
  <2>1. "E" \in Dirs /\ "S" \in Dirs
    BY DEF Dirs
  <2>2. ASSUME NEW i \in 0..2, NEW j \in 0..2
        PROVE  LET x == <<c[1] + i, c[2] + j>>
               IN  /\ i < 2 => ("E" \notin v[x] <=> "E" \notin w[x])
                   /\ j < 2 => ("S" \notin v[x] <=> "S" \notin w[x])
    <3> DEFINE x == <<c[1] + i, c[2] + j>>
    <3>1. /\ x \in Cells
          /\ i < 2 => Beyond(x, "E") \in Cells
          /\ j < 2 => Beyond(x, "S") \in Cells
      BY SquareIs
    <3> HIDE DEF x
    <3>2. /\ i < 2 => ("E" \notin v[x] <=> "E" \notin w[x])
          /\ j < 2 => ("S" \notin v[x] <=> "S" \notin w[x])
      BY <2>1, <3>1
    <3> QED
      BY <3>2 DEF x
  <2> QED
    BY <2>2 DEF Open3x3
<1> QED
  BY <1>1, <1>3, <1>5, <1>6

(* Extra passages part nobody, and stay off the pattern.                   *)
LEMMA OpenedKeeps ==
    ASSUME NEW w \in Walls, Shuttered(w), world.pattern \subseteq Cells, NEW set \in SUBSET InnerWalls
    PROVE  /\ Shuttered(Opened(w, set))
           /\ AllLinked(w, Plain) => AllLinked(Opened(w, set), Plain)
<1> DEFINE v == Opened(w, set)
<1>1. \A x \in Cells : v[x] = {d \in w[x] : <<x, d>> \notin set /\ <<Beyond(x, d), Opposite[d]>> \notin set}
  BY DEF Opened
<1>2. ASSUME NEW c \in world.pattern PROVE v[c] = Dirs
  <2>1. c \in Cells /\ c \notin Plain /\ w[c] = Dirs
    BY <1>2 DEF Shuttered, Plain
  <2>2. ASSUME NEW d \in Dirs PROVE <<c, d>> \notin set /\ <<Beyond(c, d), Opposite[d]>> \notin set
    <3>1. <<c, d>> \notin InnerWalls
      BY <2>1 DEF InnerWalls
    <3>2. Opposite[d] \in Dirs /\ Opposite[Opposite[d]] = d
      BY OppositeFacts
    <3>3. Beyond(Beyond(c, d), Opposite[d]) = c
      BY <2>1, BeyondFacts
    <3>4. <<Beyond(c, d), Opposite[d]>> \notin InnerWalls
      BY <2>1, <3>3 DEF InnerWalls
    <3> QED
      BY <3>1, <3>4
  <2> QED
    BY <1>1, <2>1, <2>2
<1>3. \A x \in Cells : Ways(w, x) \subseteq Ways(v, x)
  BY <1>1 DEF Ways
<1> HIDE DEF v
<1>4. \A a, b : Linked(w, a, b) => Linked(v, a, b)
  BY <1>3, LinkedStays
<1> QED
  BY <1>2, <1>4 DEF Shuttered, AllLinked, v

(* The wall set in the middle of an open square: there is a way round it.  *)
LEMMA Detour ==
    ASSUME NEW w \in Walls, Valid(w), Shuttered(w), AllLinked(w, Plain),
           world.pattern \subseteq Cells, NEW c \in Squares, Open3x3(w, c)
    PROVE  LET v == SetWall(w, <<c[1] + 1, c[2] + 1>>, "S")
           IN  /\ Shuttered(v) /\ AllLinked(v, Plain)
               /\ v \in Walls /\ Valid(v)
               /\ Cardinality(OpenWalls(w)) = Cardinality(OpenWalls(v)) + 1
<1> DEFINE m == <<c[1] + 1, c[2] + 1>>
           s == <<c[1] + 1, c[2] + 2>>
           m2 == <<c[1] + 2, c[2] + 1>>
           s2 == <<c[1] + 2, c[2] + 2>>
           v == SetWall(w, m, "S")
<1>0. /\ 1 \in 0..2 /\ 2 \in 0..2 /\ 1 < 2
      /\ "S" \in Dirs /\ "E" \in Dirs /\ "W" \in Dirs /\ "N" \in Dirs
      /\ Opposite["E"] = "W" /\ Opposite["S"] = "N"
  BY DEF Dirs, Opposite
<1>1. c[1] \in Nat /\ c[2] \in Nat
  BY SizeAssumption DEF Squares, Cells
<1>2. c[1] + 1 + 1 = c[1] + 2 /\ c[2] + 1 + 1 = c[2] + 2
  BY <1>1
<1>3. /\ m \in Cells /\ s \in Cells /\ m2 \in Cells /\ s2 \in Cells
      /\ Beyond(m, "S") = s /\ Beyond(m, "E") = m2 /\ Beyond(m2, "S") = s2 /\ Beyond(s, "E") = s2
  BY <1>0, <1>2, SquareIs, ZenonT(40)
<1>4. "S" \notin w[m] /\ "E" \notin w[m] /\ "S" \notin w[m2] /\ "E" \notin w[s]
  BY <1>0 DEF Open3x3
<1>5. m # s /\ m # m2 /\ m # s2 /\ s # m2 /\ s # s2 /\ m2 # s2
  BY <1>1
<1> HIDE DEF m, s, m2, s2, v
<1>6. v \in Walls /\ Valid(v)
  BY <1>0, <1>3, SetWallAgrees DEF v
<1>7. "W" \notin w[s2] /\ Beyond(s2, "W") = s /\ "N" \notin w[s]
  <2>1. Beyond(Beyond(s, "E"), "W") = s
    BY <1>0, <1>3, BeyondFacts
  <2>2. "E" \in w[s] <=> "W" \in w[s2]
    BY <1>0, <1>3 DEF Valid
  <2>3. "S" \in w[m] <=> "N" \in w[s]
    BY <1>0, <1>3 DEF Valid
  <2> QED
    BY <1>3, <1>4, <2>1, <2>2, <2>3
<1>8. \A x \in Cells : v[x] = IF x = m THEN w[x] \cup {"S"}
                              ELSE IF x = s THEN w[x] \cup {"N"} ELSE w[x]
  BY <1>0, <1>3 DEF SetWall, v
<1>9. "E" \notin v[m] /\ "S" \notin v[m2] /\ "W" \notin v[s2]
  BY <1>3, <1>4, <1>5, <1>7, <1>8
<1>10. m2 \in Ways(v, m) /\ s2 \in Ways(v, m2) /\ s \in Ways(v, s2)
  BY <1>0, <1>3, <1>7, <1>9 DEF Ways
<1>11. Linked(v, m, s)
  <2>1. Linked(v, m, m2) /\ Linked(v, m2, s2) /\ Linked(v, s2, s)
    BY <1>3, <1>10, LinkedWay
  <2>2. Linked(v, m, s2)
    BY <2>1, LinkedThrough
  <2> QED
    BY <2>1, <2>2, LinkedThrough
<1>12. Linked(v, s, m)
  BY <1>3, <1>6, <1>11, LinkedBack
<1>13. RemoveWall(v, m, "S") = w
  BY <1>0, <1>3, <1>4, SetThenRemoved DEF v
<1>14. Plain \subseteq Cells
  BY PlainCells
<1>15. ASSUME NEW x \in Plain, NEW y \in Plain PROVE Linked(v, x, y)
  <2>1. Linked(w, x, y) /\ x \in Cells /\ y \in Cells
    BY <1>14 DEF AllLinked
  <2>2. \/ Linked(v, x, y)
        \/ Linked(v, x, m) /\ Linked(v, s, y)
        \/ Linked(v, x, s) /\ Linked(v, m, y)
    BY <1>0, <1>3, <1>6, <1>13, <2>1, LinkedJoined
  <2>3. CASE Linked(v, x, m) /\ Linked(v, s, y)
    <3>1. Linked(v, x, s)
      BY <1>11, <2>3, LinkedThrough
    <3> QED
      BY <2>3, <3>1, LinkedThrough
  <2>4. CASE Linked(v, x, s) /\ Linked(v, m, y)
    <3>1. Linked(v, x, m)
      BY <1>12, <2>4, LinkedThrough
    <3> QED
      BY <2>4, <3>1, LinkedThrough
  <2> QED
    BY <2>2, <2>3, <2>4
<1>16. ASSUME NEW x \in world.pattern PROVE v[x] = Dirs
  <2>1. x \in Cells /\ w[x] = Dirs
    BY DEF Shuttered
  <2> QED
    BY <1>0, <1>8, <2>1
<1>17. Cardinality(OpenWalls(w)) = Cardinality(OpenWalls(v)) + 1
  <2>1. m \in Plain /\ s \in Plain
    BY <1>0, <1>3, <1>4 DEF Plain, Shuttered
  <2>2. "S" \in v[m]
    BY <1>3, <1>8
  <2> QED
    BY <1>0, <1>3, <1>6, <1>13, <2>1, <2>2, OpensOne
<1>18. Shuttered(v) /\ AllLinked(v, Plain)
  BY <1>15, <1>16 DEF Shuttered, AllLinked
<1> QED
  BY <1>6, <1>17, <1>18 DEF v, m

(* A perfect maze has no open square: one wall less would still do.        *)
LEMMA TreeIsNarrow ==
    ASSUME NEW w \in Walls, Valid(w), Shuttered(w), AllLinked(w, Plain), world.pattern \subseteq Cells,
           Cardinality(OpenWalls(w)) + 1 = Cardinality(Plain), NEW c \in Squares
    PROVE  ~Open3x3(w, c)
<1> SUFFICES ASSUME Open3x3(w, c) PROVE FALSE
  OBVIOUS
<1> DEFINE v == SetWall(w, <<c[1] + 1, c[2] + 1>>, "S")
<1>1. /\ Shuttered(v) /\ AllLinked(v, Plain) /\ v \in Walls /\ Valid(v)
      /\ Cardinality(OpenWalls(w)) = Cardinality(OpenWalls(v)) + 1
  BY Detour
<1> HIDE DEF v
<1>2. Cardinality(Plain) <= Cardinality(OpenWalls(v)) + 1
  BY <1>1, AtLeast
<1>3. Cardinality(OpenWalls(v)) \in Nat
  BY OpenWallsFinite
<1> QED
  BY <1>1, <1>2, <1>3

-----------------------------------------------------------------------------
(* A maze that grows from one cell, and what it is when nothing is left.   *)

Grown(w, V) ==
    /\ V \subseteq Plain /\ V # {} /\ AllLinked(w, V)
    /\ Cardinality(OpenWalls(w)) + 1 = Cardinality(V)
    /\ \A x \in Cells \ V : w[x] = Dirs

LEMMA GrownStart ==
    ASSUME NEW w, w = [c \in Cells |-> Dirs], NEW start \in Plain
    PROVE  Grown(w, {start})
<1>1. Cardinality(OpenWalls(w)) = 0
  BY AllClosed, PlainCells
<1>2. Cardinality({start}) = 1
  BY FS_Singleton
<1>3. AllLinked(w, {start})
  BY LinkedItself DEF AllLinked
<1> QED
  BY <1>1, <1>2, <1>3 DEF Grown

LEMMA GrownStep ==
    ASSUME NEW w \in Walls, Valid(w), NEW V, Grown(w, V),
           NEW c \in V, NEW d \in Dirs, Beyond(c, d) \in Plain \ V
    PROVE  Grown(RemoveWall(w, c, d), V \cup {Beyond(c, d)})
<1> DEFINE n == Beyond(c, d)
           v == RemoveWall(w, c, d)
           U == V \cup {n}
<1>1. c \in Plain /\ n \in Plain /\ n \notin V /\ c \in Cells /\ n \in Cells /\ V \subseteq Cells
  BY PlainCells DEF Grown
<1>2. d \in w[c]
  <2>1. w[n] = Dirs
    BY <1>1 DEF Grown
  <2>2. Opposite[d] \in w[n]
    BY <2>1, OppositeFacts
  <2> QED
    BY <1>1, <2>2 DEF Valid
<1>3. v \in Walls /\ Valid(v)
  BY <1>1, RemoveWallAgrees
<1>4. Cardinality(OpenWalls(v)) = Cardinality(OpenWalls(w)) + 1
  BY <1>1, <1>2, OpensOne
<1>5. Cardinality(U) = Cardinality(V) + 1
  <2>1. IsFiniteSet(V)
    BY PlainCells, FS_Subset DEF Grown
  <2> QED
    BY <1>1, <2>1, FS_AddElement
<1>6. \A x \in Cells :
         Ways(v, x) = Ways(w, x) \cup (IF x = c THEN {n} ELSE IF x = n THEN {c} ELSE {})
  BY <1>1, WaysJoined
<1>7. \A x \in Cells \ U : v[x] = Dirs
  BY <1>1 DEF Grown, RemoveWall
<1> HIDE DEF n, v
<1>8. \A a, b : Linked(w, a, b) => Linked(v, a, b)
  BY <1>6, LinkedStays
<1>9. Linked(v, c, n) /\ Linked(v, n, c)
  BY <1>1, <1>6, LinkedWay
<1>10. ASSUME NEW x \in U, NEW y \in U PROVE Linked(v, x, y)
  <2>1. x # n => Linked(v, x, c) /\ Linked(v, c, x)
    BY <1>8 DEF Grown, AllLinked
  <2>2. x = n => Linked(v, x, c)
    BY <1>9
  <2>3. y # n => Linked(v, c, y)
    BY <1>8 DEF Grown, AllLinked
  <2>4. y = n => Linked(v, c, y)
    BY <1>9
  <2> QED
    BY <2>1, <2>2, <2>3, <2>4, LinkedThrough
<1>11. Cardinality(OpenWalls(v)) + 1 = Cardinality(U)
  BY <1>4, <1>5 DEF Grown
<1>12. U \subseteq Plain /\ U # {}
  BY <1>1 DEF Grown
<1>13. AllLinked(v, U)
  BY <1>10 DEF AllLinked
<1> QED
  BY <1>7, <1>11, <1>12, <1>13 DEF Grown, n, v

LEMMA GrownShut ==
    ASSUME NEW w, NEW V, Grown(w, V), world.pattern \subseteq Cells
    PROVE  Shuttered(w)
  BY DEF Grown, Shuttered, Plain

(* The pattern is one of a file.                                           *)
PatternPlaced == \E file \in Worlds : world.pattern = file.pattern

LEMMA PatternInside == PatternPlaced => world.pattern \subseteq Cells
  BY FileAssumption DEF PatternPlaced

(* A set of cells that no wall bounds is all there is outside the pattern. *)
LEMMA NoOtherPart ==
    ASSUME PatternPlaced, NEW V \in SUBSET Plain, V # {},
           \A c \in V, d \in Dirs : Beyond(c, d) \in Plain => Beyond(c, d) \in V
    PROVE  V = Plain
<1>1. PICK file \in Worlds : world.pattern = file.pattern
  BY DEF PatternPlaced
<1>2. Plain = Cells \ file.pattern
  BY <1>1 DEF Plain
<1>3. V \in (SUBSET (Cells \ file.pattern)) \ {{}}
  BY <1>2
<1>4. \A c \in V, d \in Dirs : Beyond(c, d) \in Cells \ file.pattern => Beyond(c, d) \in V
  BY <1>2
<1>5. V = Cells \ file.pattern
  BY <1>3, <1>4, PatternAssumption
<1> QED
  BY <1>2, <1>5

-----------------------------------------------------------------------------
(* What each algorithm has done, at every turn of its loop.                *)

(* dfs: who has left the stack has no neighbour to be visited.             *)
DfsAt(w, seen, st) ==
    LET V == seen \cap Plain
    IN  /\ world.pattern \subseteq seen /\ seen \subseteq Cells /\ Grown(w, V)
        /\ Entries(st) \subseteq V
        /\ \A c \in V : c \notin Entries(st) =>
             \A d \in Dirs : Beyond(c, d) \in Plain => Beyond(c, d) \in seen

(* prims: every wall between a cell visited and one not visited is in the  *)
(* frontier.                                                               *)
PrimsAt(w, seen, front) ==
    LET V == seen \cap Plain
    IN  /\ world.pattern \subseteq seen /\ seen \subseteq Cells /\ Grown(w, V)
        /\ \A e \in front : e[1] \in V /\ e[2] \in Dirs /\ Beyond(e[1], e[2]) \in Plain
        /\ \A c \in V, d \in Dirs : Beyond(c, d) \in Plain \ seen => <<c, d>> \in front

(* kruskals: roots are the same where cells are joined; every set has been *)
(* one cell, and every open wall has made one of two; a wall that was      *)
(* looked at has both its sides in one set.                                *)
KruskalsAt(w, left, p, r) ==
    /\ left \subseteq InnerWalls /\ Shuttered(w) /\ Forest(p, r)
    /\ \A x, y \in Plain : Root(p, x) = Root(p, y) <=> Linked(w, x, y)
    /\ Cardinality(OpenWalls(w)) + Cardinality(Tops(p)) = Cardinality(Plain)
    /\ \A e \in InnerWalls \ left : Linked(w, e[1], Beyond(e[1], e[2]))

(* _carve_dfs: a step to a neighbour.                                      *)
LEMMA DfsGoes ==
    ASSUME NEW w \in Walls, Valid(w), NEW seen, NEW st \in Seq(Cells), st # <<>>, DfsAt(w, seen, st),
           NEW d \in Dirs, Beyond(st[Len(st)], d) \in Cells \ seen
    PROVE  LET n == Beyond(st[Len(st)], d)
           IN  DfsAt(RemoveWall(w, st[Len(st)], d), seen \cup {n}, Append(st, n))
<1> DEFINE top == st[Len(st)]
           n == Beyond(top, d)
           V == seen \cap Plain
<1>1. Len(st) \in DOMAIN st
  BY DEF Entries
<1>2. top \in V
  BY <1>1 DEF DfsAt, Entries
<1>3. n \in Plain \ V /\ n \in Cells
  BY DEF DfsAt, Plain
<1>4. Entries(Append(st, n)) = Entries(st) \cup {n}
  <2> HIDE DEF n
  <2> DEFINE more == Append(st, n)
  <2>1. /\ DOMAIN st = 1..Len(st) /\ Len(st) \in Nat /\ DOMAIN more = 1..Len(st) + 1
        /\ more[Len(st) + 1] = n /\ \A i \in 1..Len(st) : more[i] = st[i]
    OBVIOUS
  <2> HIDE DEF more
  <2>2. DOMAIN more = DOMAIN st \cup {Len(st) + 1}
    BY <2>1
  <2> QED
    BY <2>1, <2>2 DEF Entries, more
<1> HIDE DEF n, top
<1>5. (seen \cup {n}) \cap Plain = V \cup {n}
  BY <1>3
<1> HIDE DEF V
<1>6. Grown(w, V) /\ Entries(st) \subseteq V
  BY DEF DfsAt, V
<1>7. Grown(RemoveWall(w, top, d), V \cup {n})
  BY <1>2, <1>3, <1>6, GrownStep DEF n
<1>8. ASSUME NEW c \in V \cup {n}, c \notin Entries(st) \cup {n}, NEW e \in Dirs, Beyond(c, e) \in Plain
      PROVE  Beyond(c, e) \in seen \cup {n}
  BY <1>8 DEF DfsAt, V
<1>9. world.pattern \subseteq seen \cup {n} /\ seen \cup {n} \subseteq Cells
  BY <1>3 DEF DfsAt
<1>10. Entries(Append(st, n)) \subseteq V \cup {n}
  BY <1>4, <1>6
<1>11. \A c \in V \cup {n} : c \notin Entries(Append(st, n)) =>
          \A e \in Dirs : Beyond(c, e) \in Plain => Beyond(c, e) \in seen \cup {n}
  BY <1>4, <1>8
<1>12. DfsAt(RemoveWall(w, top, d), seen \cup {n}, Append(st, n))
  BY <1>5, <1>7, <1>9, <1>10, <1>11 DEF DfsAt
<1> QED
  BY <1>12 DEF n, top

(* _carve_dfs: a step back.                                                *)
LEMMA DfsReturns ==
    ASSUME NEW w, NEW seen, NEW st \in Seq(Cells), st # <<>>, DfsAt(w, seen, st),
           \A d \in Dirs : Beyond(st[Len(st)], d) \notin Cells \ seen
    PROVE  DfsAt(w, seen, SubSeq(st, 1, Len(st) - 1))
<1> DEFINE top == st[Len(st)]
           less == SubSeq(st, 1, Len(st) - 1)
           V == seen \cap Plain
<1>0. /\ DOMAIN st = 1..Len(st) /\ Len(st) \in Nat /\ Len(st) > 0
      /\ DOMAIN less = 1..Len(st) - 1 /\ \A i \in 1..Len(st) - 1 : less[i] = st[i]
  OBVIOUS
<1> HIDE DEF less
<1>1. \A c \in Entries(st) : c = top \/ c \in Entries(less)
  <2>0. \A n \in Nat : \A i \in 1..n : i = n \/ i \in 1..n - 1
    OBVIOUS
  <2>1. \A i \in 1..Len(st) : i = Len(st) \/ i \in 1..Len(st) - 1
    BY <1>0, <2>0
  <2> TAKE c \in Entries(st)
  <2>2. PICK i \in 1..Len(st) : c = st[i]
    BY <1>0 DEF Entries
  <2>3. CASE i = Len(st)
    BY <2>2, <2>3
  <2>4. CASE i \in DOMAIN less
    <3>1. less[i] = c
      BY <1>0, <2>2, <2>4
    <3> QED
      BY <2>4, <3>1 DEF Entries
  <2> QED
    BY <1>0, <2>1, <2>3, <2>4
<1>2. Entries(less) \subseteq Entries(st)
  <2>1. \A i \in 1..Len(st) - 1 : i \in 1..Len(st)
    BY <1>0
  <2>2. ASSUME NEW i \in DOMAIN less PROVE less[i] \in Entries(st)
    <3>1. i \in DOMAIN st /\ less[i] = st[i]
      BY <1>0, <2>1
    <3> QED
      BY <3>1 DEF Entries
  <2> QED
    BY <2>2 DEF Entries
<1>3. ASSUME NEW c \in V, c \notin Entries(less), NEW d \in Dirs, Beyond(c, d) \in Plain
      PROVE  Beyond(c, d) \in seen
  <2>1. CASE c = top
    BY <1>3, <2>1, PlainCells
  <2>2. CASE c # top
    BY <1>1, <1>3, <2>2 DEF DfsAt
  <2> QED
    BY <2>1, <2>2
<1>4. DfsAt(w, seen, less)
  BY <1>2, <1>3 DEF DfsAt
<1> QED
  BY <1>4 DEF less

(* The stack is empty: every cell has been visited.                        *)
LEMMA DfsEnds ==
    ASSUME PatternPlaced, NEW w, NEW seen, DfsAt(w, seen, <<>>)
    PROVE  seen \cap Plain = Plain /\ Grown(w, Plain)
<1>1. Entries(<<>>) = {}
  BY DEF Entries
<1>2. seen \cap Plain = Plain
  BY <1>1, NoOtherPart DEF DfsAt, Grown
<1> QED
  BY <1>2 DEF DfsAt

(* _carve_prims: a wall of the frontier.                                   *)
LEMMA PrimsGoes ==
    ASSUME NEW w \in Walls, Valid(w), NEW seen, NEW front, PrimsAt(w, seen, front), NEW e \in front
    PROVE  LET n == Beyond(e[1], e[2])
           IN  IF n \in seen THEN PrimsAt(w, seen, front \ {e})
               ELSE PrimsAt(RemoveWall(w, e[1], e[2]), seen \cup {n},
                            (front \ {e}) \cup FrontierOf(n, seen))
<1> DEFINE c == e[1]
           d == e[2]
           n == Beyond(c, d)
           V == seen \cap Plain
<1>1. c \in V /\ d \in Dirs /\ n \in Plain /\ Grown(w, V)
  BY DEF PrimsAt
<1>2. \A x \in V, k \in Dirs : <<x, k>> = e => Beyond(x, k) = n
  OBVIOUS
<1>3. CASE n \in seen
  <2>1. \A x \in V, k \in Dirs : Beyond(x, k) \in Plain \ seen => <<x, k>> \in front \ {e}
    BY <1>2, <1>3 DEF PrimsAt
  <2> QED
    BY <1>3, <2>1 DEF PrimsAt
<1>4. CASE n \notin seen
  <2> DEFINE v == RemoveWall(w, c, d)
             seen2 == seen \cup {n}
             new == FrontierOf(n, seen)
             front2 == (front \ {e}) \cup new
  <2>1. seen2 \cap Plain = V \cup {n}
    BY <1>1
  <2>2. Grown(v, V \cup {n})
    BY <1>1, <1>4, GrownStep
  <2>3. world.pattern \subseteq seen2 /\ seen2 \subseteq Cells
    BY <1>1, PlainCells DEF PrimsAt
  <2>4. ASSUME NEW f \in front2 PROVE f[1] \in V \cup {n} /\ f[2] \in Dirs /\ Beyond(f[1], f[2]) \in Plain
    <3>1. CASE f \in front
      BY <3>1 DEF PrimsAt
    <3>2. CASE f \in new
      BY <3>2 DEF FrontierOf
    <3> QED
      BY <3>1, <3>2
  <2>5. ASSUME NEW x \in V \cup {n}, NEW k \in Dirs, Beyond(x, k) \in Plain \ seen2
        PROVE  <<x, k>> \in front2
    <3>1. CASE x = n
      BY <2>5, <3>1 DEF FrontierOf
    <3>2. CASE x # n
      <4>1. <<x, k>> \in front
        BY <2>5, <3>2 DEF PrimsAt
      <4>2. <<x, k>> # e
        BY <1>2, <2>5, <3>2
      <4> QED
        BY <4>1, <4>2
    <3> QED
      BY <3>1, <3>2
  <2> HIDE DEF v, seen2, front2, V, n
  <2>6. PrimsAt(v, seen2, front2)
    BY <2>1, <2>2, <2>3, <2>4, <2>5 DEF PrimsAt
  <2> QED
    BY <1>4, <2>6 DEF v, seen2, front2, n
<1> QED
  BY <1>3, <1>4

LEMMA PrimsEnds ==
    ASSUME PatternPlaced, NEW w, NEW seen, PrimsAt(w, seen, {})
    PROVE  seen \cap Plain = Plain /\ Grown(w, Plain)
<1>1. seen \cap Plain = Plain
  BY NoOtherPart DEF PrimsAt, Grown
<1> QED
  BY <1>1 DEF PrimsAt

LEMMA KruskalsStart ==
    ASSUME NEW w, w = [c \in Cells |-> Dirs], world.pattern \subseteq Cells,
           NEW p, p = [c \in Plain |-> c], NEW r, r = [c \in Plain |-> 0]
    PROVE  KruskalsAt(w, InnerWalls, p, r)
<1>1. Forest(p, r)
  <2>1. \A x \in Plain : r[x] <= 0
    OBVIOUS
  <2> QED
    BY <2>1 DEF Forest
<1>2. \A x \in Plain : Root(p, x) = x
  <2>1. p \in [Plain -> Plain] /\ \A x \in Plain : p[x] = x
    OBVIOUS
  <2> QED
    BY <2>1, RootIs
<1>3. ASSUME NEW x \in Plain, NEW y \in Plain PROVE Linked(w, x, y) <=> x = y
  <2>1. x \in Cells
    BY PlainCells
  <2>2. Shut(w, {x}) /\ {x} \in SUBSET Cells
    BY <2>1 DEF Shut, Ways
  <2>3. Linked(w, x, y) => y \in {x}
    BY <2>2 DEF Linked
  <2> QED
    BY <2>3, LinkedItself
<1>4. Cardinality(OpenWalls(w)) = 0
  BY AllClosed, PlainCells
<1>5. Tops(p) = Plain
  BY DEF Tops
<1>6. Cardinality(OpenWalls(w)) + Cardinality(Tops(p)) = Cardinality(Plain)
  BY <1>4, <1>5, PlainCells
<1>7. Shuttered(w)
  BY DEF Shuttered
<1>8. \A x, y \in Plain : Root(p, x) = Root(p, y) <=> Linked(w, x, y)
  BY <1>2, <1>3
<1> QED
  BY <1>1, <1>6, <1>7, <1>8 DEF KruskalsAt

(* find for both sides of a wall: all roots stay.                          *)
LEMMA FoundBoth ==
    ASSUME NEW p, NEW r, Forest(p, r), NEW c \in Plain, NEW n \in Plain
    PROVE  LET q == Compressed(Compressed(p, WayUp(p, c), Root(p, c)), WayUp(p, n), Root(p, n))
           IN  Forest(q, r) /\ \A x \in Plain : Root(q, x) = Root(p, x) /\ (q[x] = x <=> p[x] = x)
<1> DEFINE p1 == Compressed(p, WayUp(p, c), Root(p, c))
           q == Compressed(p1, WayUp(p, n), Root(p, n))
<1>1. /\ WayUp(p, c) \in SUBSET Plain /\ \A x \in WayUp(p, c) : Root(p, x) = Root(p, c)
      /\ WayUp(p, n) \in SUBSET Plain /\ \A x \in WayUp(p, n) : Root(p, x) = Root(p, n)
      /\ Root(p, c) \in Plain /\ Root(p, n) \in Plain
  BY WayUpFacts, RootFacts
<1>2. Forest(p1, r) /\ \A x \in Plain : Root(p1, x) = Root(p, x) /\ (p1[x] = x <=> p[x] = x)
  BY <1>1, CompressedKeeps
<1> HIDE DEF p1
<1>3. \A x \in WayUp(p, n) : Root(p1, x) = Root(p, n)
  BY <1>1, <1>2
<1>4. Forest(q, r) /\ \A x \in Plain : Root(q, x) = Root(p1, x) /\ (q[x] = x <=> p1[x] = x)
  <2> DEFINE way == WayUp(p, n)
             root == Root(p, n)
  <2>1. /\ way \in SUBSET Plain /\ root \in Plain /\ Forest(p1, r)
        /\ \A x \in way : Root(p1, x) = root
    BY <1>1, <1>2, <1>3
  <2> HIDE DEF way, root
  <2>2. LET p2 == Compressed(p1, way, root)
        IN  Forest(p2, r) /\ \A x \in Plain : Root(p2, x) = Root(p1, x) /\ (p2[x] = x <=> p1[x] = x)
    BY <2>1, CompressedKeeps
  <2> QED
    BY <2>2 DEF way, root
<1> HIDE DEF q
<1>5. Forest(q, r) /\ \A x \in Plain : Root(q, x) = Root(p, x) /\ (q[x] = x <=> p[x] = x)
  BY <1>2, <1>4
<1> QED
  BY <1>5 DEF p1, q

(* _carve_kruskals: a wall inside a set stays.                             *)
LEMMA KruskalsKeeps ==
    ASSUME NEW w, NEW left, NEW p, NEW r, KruskalsAt(w, left, p, r), NEW e \in left,
           NEW q, Forest(q, r), \A x \in Plain : Root(q, x) = Root(p, x) /\ (q[x] = x <=> p[x] = x),
           Root(p, e[1]) = Root(p, Beyond(e[1], e[2]))
    PROVE  KruskalsAt(w, left \ {e}, q, r)
<1>1. Tops(q) = Tops(p)
  BY DEF Tops
<1>2. e[1] \in Plain /\ Beyond(e[1], e[2]) \in Plain
  BY DEF KruskalsAt, InnerWalls
<1>3. Linked(w, e[1], Beyond(e[1], e[2]))
  BY <1>2 DEF KruskalsAt
<1> QED
  BY <1>1, <1>3 DEF KruskalsAt

(* _carve_kruskals: a wall between two sets makes them one.                *)
LEMMA KruskalsJoins ==
    ASSUME NEW w \in Walls, Valid(w), world.pattern \subseteq Cells,
           NEW left, NEW p, NEW r, KruskalsAt(w, left, p, r), NEW e \in left,
           NEW q, Forest(q, r), \A x \in Plain : Root(q, x) = Root(p, x) /\ (q[x] = x <=> p[x] = x),
           NEW a, a = Root(p, e[1]), NEW b, b = Root(p, Beyond(e[1], e[2])), a # b,
           NEW u, u = Union(q, r, a, b)
    PROVE  KruskalsAt(RemoveWall(w, e[1], e[2]), left \ {e}, u.parent, u.rank)
<1> DEFINE c == e[1]
           d == e[2]
           n == Beyond(c, d)
           v == RemoveWall(w, c, d)
<1>1. /\ c \in Plain /\ d \in Dirs /\ n \in Plain /\ Plain \subseteq Cells /\ e \in InnerWalls
  BY PlainCells DEF KruskalsAt, InnerWalls, Dirs
<1>2. Forest(p, r) /\ Shuttered(w) /\ left \subseteq InnerWalls
  BY DEF KruskalsAt
<1>3. \A x, y \in Plain : Root(p, x) = Root(p, y) <=> Linked(w, x, y)
  BY DEF KruskalsAt
<1>4. a \in Plain /\ b \in Plain /\ p[a] = a /\ p[b] = b
  BY <1>1, <1>2, RootFacts
<1>5. q[a] = a /\ q[b] = b
  BY <1>4
<1>6. d \in w[c]
  <2> SUFFICES ASSUME d \notin w[c] PROVE FALSE
    OBVIOUS
  <2>1. n \in Ways(w, c)
    BY <1>1 DEF Ways
  <2>2. Linked(w, c, n)
    BY <1>1, <2>1, LinkedWay
  <2> QED
    BY <1>1, <1>3, <2>2
<1>7. v \in Walls /\ Valid(v)
  BY <1>1, RemoveWallAgrees
<1>8. Cardinality(OpenWalls(v)) = Cardinality(OpenWalls(w)) + 1
  BY <1>1, <1>6, OpensOne
<1>9. \A x \in Cells : Ways(v, x) = Ways(w, x) \cup (IF x = c THEN {n} ELSE IF x = n THEN {c} ELSE {})
  BY <1>1, WaysJoined
<1>10. Shuttered(v)
  <2>1. ASSUME NEW x \in world.pattern PROVE v[x] = Dirs
    <3>1. x \in Cells /\ x # c /\ x # n /\ w[x] = Dirs
      BY <1>1, <1>2 DEF Plain, Shuttered
    <3> QED
      BY <3>1 DEF RemoveWall
  <2> QED
    BY <2>1 DEF Shuttered
<1>11. \A x, y \in Plain : Linked(v, x, y) <=>
          \/ Linked(w, x, y)
          \/ Linked(w, x, c) /\ Linked(w, n, y)
          \/ Linked(w, x, n) /\ Linked(w, c, y)
  BY <1>1, LinkedJoined
<1> HIDE DEF v, n, c, d
<1>12. /\ Forest(u.parent, u.rank)
       /\ Cardinality(Tops(u.parent)) + 1 = Cardinality(Tops(q))
       /\ \A x, y \in Plain :
            Root(u.parent, x) = Root(u.parent, y) <=>
              \/ Root(q, x) = Root(q, y)
              \/ Root(q, x) = a /\ Root(q, y) = b
              \/ Root(q, x) = b /\ Root(q, y) = a
  BY <1>4, <1>5, UnionIs
<1>13. ASSUME NEW x \in Plain
       PROVE  /\ Root(q, x) = a <=> Linked(w, x, c)
              /\ Root(q, x) = a <=> Linked(w, c, x)
              /\ Root(q, x) = b <=> Linked(w, x, n)
              /\ Root(q, x) = b <=> Linked(w, n, x)
  <2>1. Root(q, x) = Root(p, x) /\ a = Root(p, c) /\ b = Root(p, n)
    BY DEF c, n, d
  <2> QED
    BY <1>1, <1>3, <2>1
<1>14. \A x, y \in Plain : Root(q, x) = Root(q, y) <=> Linked(w, x, y)
  BY <1>3
<1>15. \A x, y \in Plain : Root(u.parent, x) = Root(u.parent, y) <=> Linked(v, x, y)
  <2> TAKE x, y \in Plain
  <2>1. Root(u.parent, x) = Root(u.parent, y) <=>
          \/ Root(q, x) = Root(q, y)
          \/ Root(q, x) = a /\ Root(q, y) = b
          \/ Root(q, x) = b /\ Root(q, y) = a
    BY <1>12
  <2>2. Linked(v, x, y) <=>
          \/ Linked(w, x, y)
          \/ Linked(w, x, c) /\ Linked(w, n, y)
          \/ Linked(w, x, n) /\ Linked(w, c, y)
    BY <1>11
  <2> QED
    BY <1>13, <1>14, <2>1, <2>2
<1>16. Tops(q) = Tops(p)
  BY DEF Tops
<1>17. Cardinality(OpenWalls(v)) + Cardinality(Tops(u.parent)) = Cardinality(Plain)
  <2>1. Cardinality(OpenWalls(w)) \in Nat /\ Cardinality(OpenWalls(v)) \in Nat
    BY OpenWallsFinite
  <2>2. IsFiniteSet(Tops(u.parent))
    BY PlainCells, FS_Subset DEF Tops
  <2>3. Cardinality(Tops(u.parent)) \in Nat
    BY <2>2, FS_CardinalityType
  <2>4. Cardinality(OpenWalls(w)) + Cardinality(Tops(p)) = Cardinality(Plain)
    BY DEF KruskalsAt
  <2> DEFINE i == Cardinality(OpenWalls(w))
             j == Cardinality(OpenWalls(v))
             k == Cardinality(Tops(u.parent))
             l == Cardinality(Tops(p))
             m == Cardinality(Plain)
  <2>5. i \in Nat /\ j \in Nat /\ k \in Nat /\ i + l = m /\ j = i + 1 /\ k + 1 = l
    BY <1>8, <1>12, <1>16, <2>1, <2>3, <2>4
  <2> HIDE DEF i, j, k, l, m
  <2>6. j + k = m
    BY <2>5
  <2> QED
    BY <2>6 DEF j, k, m
<1>18. ASSUME NEW f \in InnerWalls \ (left \ {e}) PROVE Linked(v, f[1], Beyond(f[1], f[2]))
  <2>1. CASE f = e
    <3>1. n \in Ways(v, c) /\ c \in Cells
      BY <1>1, <1>9
    <3>2. Linked(v, c, n)
      BY <3>1, LinkedWay
    <3> QED
      BY <2>1, <3>2 DEF c, d, n
  <2>2. CASE f # e
    <3>1. Linked(w, f[1], Beyond(f[1], f[2]))
      BY <2>2 DEF KruskalsAt
    <3>2. f[1] \in Plain /\ Beyond(f[1], f[2]) \in Plain
      BY DEF InnerWalls
    <3> QED
      BY <1>11, <3>1, <3>2
  <2> QED
    BY <2>1, <2>2
<1>19. KruskalsAt(v, left \ {e}, u.parent, u.rank)
  BY <1>2, <1>10, <1>12, <1>15, <1>17, <1>18 DEF KruskalsAt
<1> QED
  BY <1>19 DEF v, c, d

(* No wall is left: there is one set.                                      *)
LEMMA KruskalsEnds ==
    ASSUME PatternPlaced, NEW w \in Walls, Valid(w), Plain # {}, NEW p, NEW r, KruskalsAt(w, {}, p, r)
    PROVE  AllLinked(w, Plain) /\ Cardinality(OpenWalls(w)) + 1 = Cardinality(Plain)
<1>1. PICK a \in Plain : TRUE
  OBVIOUS
<1>2. Plain \subseteq Cells /\ Forest(p, r)
  BY PlainCells DEF KruskalsAt
<1> DEFINE V == {b \in Plain : Linked(w, a, b)}
<1>3. ASSUME NEW c \in V, NEW d \in Dirs, Beyond(c, d) \in Plain PROVE Beyond(c, d) \in V
  <2>1. EdgeName(c, d) \in InnerWalls
    BY <1>3, EdgeNameIs
  <2>2. PICK x \in Plain, k \in {"E", "S"} : EdgeName(c, d) = <<x, k>>
    BY <2>1 DEF InnerWalls
  <2>3. (x = c /\ k = d) \/ (x = Beyond(c, d) /\ k = Opposite[d])
    BY <1>3, <2>2, EdgeNameIs
  <2>4. Linked(w, x, Beyond(x, k))
    BY <2>1, <2>2 DEF KruskalsAt
  <2>5. Beyond(Beyond(c, d), Opposite[d]) = c /\ c \in Cells /\ Beyond(c, d) \in Cells
    BY <1>2, <1>3, BeyondFacts
  <2>6. Linked(w, c, Beyond(c, d))
    <3>1. CASE x = c /\ k = d
      BY <2>4, <3>1
    <3>2. CASE x = Beyond(c, d) /\ k = Opposite[d]
      <4>1. Linked(w, Beyond(c, d), c)
        BY <2>4, <2>5, <3>2
      <4> QED
        BY <2>5, <4>1, LinkedBack
    <3> QED
      BY <2>3, <3>1, <3>2
  <2>7. Linked(w, a, Beyond(c, d))
    BY <2>6, LinkedThrough
  <2> QED
    BY <1>3, <2>7
<1>4. a \in V
  BY LinkedItself
<1>5. V = Plain
  <2>1. V \in SUBSET Plain /\ V # {}
    BY <1>4
  <2> HIDE DEF V
  <2> QED
    BY <1>3, <2>1, NoOtherPart
<1>6. \A b \in Plain : Linked(w, a, b) /\ Linked(w, b, a)
  BY <1>2, <1>5, LinkedBack
<1>7. AllLinked(w, Plain)
  BY <1>6, LinkedThrough DEF AllLinked
<1>8. \A x, y \in Plain : Root(p, x) = Root(p, y)
  BY <1>7 DEF AllLinked, KruskalsAt
<1>9. Tops(p) = {Root(p, a)}
  <2>1. Root(p, a) \in Plain /\ p[Root(p, a)] = Root(p, a)
    BY <1>2, RootFacts
  <2>2. ASSUME NEW x \in Plain, p[x] = x PROVE x = Root(p, a)
    <3>1. Root(p, x) = x
      BY <1>2, <2>2, RootFacts
    <3> QED
      BY <1>8, <3>1
  <2> QED
    BY <2>1, <2>2 DEF Tops
<1>10. Cardinality(Tops(p)) = 1
  BY <1>9, FS_Singleton
<1>11. Cardinality(OpenWalls(w)) + 1 = Cardinality(Plain)
  BY <1>10 DEF KruskalsAt
<1> QED
  BY <1>7, <1>11

(* The sets of a cell's root are what can be reached from it.              *)
LEMMA RootsReach ==
    ASSUME NEW w \in Walls, Valid(w), NEW left, NEW p, NEW r, KruskalsAt(w, left, p, r), NEW a \in Plain
    PROVE  {b \in Plain : Root(p, b) = Root(p, a)} = Reachable(w, a)
<1>1. a \in Cells /\ Plain \subseteq Cells
  BY PlainCells
<1>2. Reachable(w, a) = {b \in Cells : Linked(w, a, b)}
  BY <1>1, ReachableIs
<1>3. ASSUME NEW b \in Cells, Linked(w, a, b) PROVE b \in Plain
  <2>1. Shut(w, Plain)
    BY <1>1, PlainShut DEF Shut, KruskalsAt
  <2> QED
    BY <1>1, <1>3, <2>1 DEF Linked
<1>4. \A b \in Plain : Root(p, b) = Root(p, a) <=> Linked(w, a, b)
  BY DEF KruskalsAt
<1> QED
  BY <1>1, <1>2, <1>3, <1>4

(* All is reached from a cell of a maze that is in one piece.              *)
LEMMA AllReached ==
    ASSUME NEW w \in Walls, Valid(w), Shuttered(w), AllLinked(w, Plain), NEW a \in Plain
    PROVE  Reachable(w, a) = Plain
<1>1. a \in Cells /\ Plain \subseteq Cells
  BY PlainCells
<1>2. Reachable(w, a) = {b \in Cells : Linked(w, a, b)}
  BY <1>1, ReachableIs
<1>3. ASSUME NEW b \in Cells, Linked(w, a, b) PROVE b \in Plain
  <2>1. Shut(w, Plain)
    BY <1>1, PlainShut DEF Shut
  <2> QED
    BY <1>1, <1>3, <2>1 DEF Linked
<1> QED
  BY <1>1, <1>2, <1>3 DEF AllLinked

-----------------------------------------------------------------------------
(* The generator, from the file to the maze.                               *)

(* The phases after the carving.                                           *)
Carved == {"extra", "fix", "tree", "border", "solve", "write", "export", "done"}

Narrow(w) == \A c \in Squares : ~Open3x3(w, c)

(* Neither a line to be read nor a key read puts a gate into the pattern.  *)
ReadClear ==
    phase = "config" =>
      /\ world = [lines |-> world.lines, pattern |-> world.pattern, importable |-> world.importable]
      /\ \E L : /\ world.lines \in Seq(L)
                /\ \A l \in L : l.kind = "key" => Clear(l, world.pattern)
      /\ \A k \in {"ENTRY", "EXIT"} \cap DOMAIN raw :
           "pair" \in DOMAIN raw[k] => raw[k].pair \notin world.pattern

Placed == phase \notin {"config", "failed"} \/ Shown => {conf.entry, conf.exit} \subseteq Plain

(* One of the algorithms carves.                                           *)
ByDfs == /\ conf.algorithm = Word("dfs") /\ frontier = {} /\ edges = {}
         /\ DfsAt(walls, visited, stack)
ByPrims == /\ conf.algorithm = Word("prims") /\ stack = <<>> /\ edges = {}
           /\ PrimsAt(walls, visited, frontier)
ByKruskals == /\ conf.algorithm = Word("kruskals") /\ stack = <<>> /\ frontier = {} /\ visited = {}
              /\ KruskalsAt(walls, edges, parent, rank)

NoCarver == stack = <<>> /\ frontier = {} /\ edges = {} /\ visited = {}

(* What the passes keep: one piece, a tree when it shall be one, and, from *)
(* the third pass on, no open square.                                      *)
Whole(w, ph) ==
    /\ AllLinked(w, Plain)
    /\ conf.perfect => ph # "extra" /\ Cardinality(OpenWalls(w)) + 1 = Cardinality(Plain)
    /\ ph \notin {"extra", "fix"} => Narrow(w)

MInv ==
    /\ PatternPlaced /\ ReadClear /\ Placed
    /\ phase \in {"config", "generate", "carve", "failed"} \cup Carved
    /\ Shuttered(walls)
    /\ phase # "carve" => NoCarver
    /\ phase \in {"config", "generate"} => walls = [c \in Cells |-> Dirs]
    /\ phase = "carve" => ByDfs \/ ByPrims \/ ByKruskals
    /\ phase \in Carved => Whole(walls, phase)
    /\ Shown /\ ~view.making => phase = "done"

(* What is said of the next walls with this world is said with the next.   *)
LEMMA SameWorld ==
    ASSUME UNCHANGED world
    PROVE  /\ Plain' = Plain
           /\ PatternPlaced => PatternPlaced'
           /\ Shuttered(walls') => Shuttered(walls)'
           /\ Grown(walls', visited' \cap Plain) => Grown(walls, visited \cap Plain)'
           /\ AllLinked(walls', Plain) => AllLinked(walls, Plain)'
           /\ OpenWalls(walls)' = OpenWalls(walls')
<1>1. Plain' = Plain
  BY DEF Plain
<1>2. InnerWalls' = InnerWalls
  BY <1>1 DEF InnerWalls
<1>3. OpenWalls(walls)' = OpenWalls(walls')
  BY <1>2 DEF OpenWalls
<1>4. PatternPlaced => PatternPlaced'
  BY DEF PatternPlaced
<1>5. Shuttered(walls') => Shuttered(walls)'
  BY DEF Shuttered
<1>6. /\ AllLinked(walls', visited' \cap Plain) => AllLinked(walls, visited \cap Plain)'
      /\ AllLinked(walls', Plain) => AllLinked(walls, Plain)'
  BY <1>1 DEF AllLinked, Linked, Shut, Ways
<1>7. Grown(walls', visited' \cap Plain) => Grown(walls, visited \cap Plain)'
  BY <1>1, <1>3, <1>6 DEF Grown
<1> QED
  BY <1>1, <1>3, <1>4, <1>5, <1>6, <1>7

LEMMA SameCarving ==
    ASSUME UNCHANGED world
    PROVE  /\ DfsAt(walls', visited', stack') => DfsAt(walls, visited, stack)'
           /\ PrimsAt(walls', visited', frontier') => PrimsAt(walls, visited, frontier)'
           /\ KruskalsAt(walls', edges', parent', rank') => KruskalsAt(walls, edges, parent, rank)'
<1>1. Plain' = Plain /\ OpenWalls(walls)' = OpenWalls(walls')
  BY SameWorld
<1>2. InnerWalls' = InnerWalls
  BY <1>1 DEF InnerWalls
<1>3. DfsAt(walls', visited', stack') => DfsAt(walls, visited, stack)'
  BY <1>1, SameWorld DEF DfsAt, Entries
<1>4. PrimsAt(walls', visited', frontier') => PrimsAt(walls, visited, frontier)'
  BY <1>1, SameWorld DEF PrimsAt
<1>5. KruskalsAt(walls', edges', parent', rank') => KruskalsAt(walls, edges, parent, rank)'
  <2>1. Forest(parent', rank') => Forest(parent, rank)'
    BY <1>1 DEF Forest
  <2>2. Tops(parent)' = Tops(parent')
    BY <1>1 DEF Tops
  <2>3. \A x, y : Linked(walls', x, y) <=> Linked(walls, x, y)'
    BY DEF Linked, Shut, Ways
  <2>4. \A x \in Plain : Root(parent', x) = Root(parent, x)'
    BY DEF Root
  <2> SUFFICES ASSUME KruskalsAt(walls', edges', parent', rank')
               PROVE  KruskalsAt(walls, edges, parent, rank)'
    OBVIOUS
  <2>5. (edges \subseteq InnerWalls /\ Shuttered(walls) /\ Forest(parent, rank))'
    BY <1>2, <2>1, SameWorld DEF KruskalsAt
  <2>6. (\A x, y \in Plain : Root(parent, x) = Root(parent, y) <=> Linked(walls, x, y))'
    BY <1>1, <2>3, <2>4 DEF KruskalsAt
  <2>7. (Cardinality(OpenWalls(walls)) + Cardinality(Tops(parent)) = Cardinality(Plain))'
    BY <1>1, <2>2 DEF KruskalsAt
  <2>8. (\A e \in InnerWalls \ edges : Linked(walls, e[1], Beyond(e[1], e[2])))'
    BY <1>2, <2>3 DEF KruskalsAt
  <2> QED
    BY <2>5, <2>6, <2>7, <2>8 DEF KruskalsAt
<1> QED
  BY <1>3, <1>4, <1>5

LEMMA SameWhole ==
    ASSUME UNCHANGED <<world, conf>>, Whole(walls', phase') PROVE Whole(walls, phase)'
  BY SameWorld DEF Whole, Narrow, Open3x3

LEMMA MazeBegins == ViewInit => MInv
<1> SUFFICES ASSUME ViewInit PROVE MInv
  OBVIOUS
<1>1. /\ phase = "config" /\ world \in Worlds /\ raw = <<>> /\ walls = [c \in Cells |-> Dirs]
      /\ NoCarver /\ ~Shown
  BY DEF ViewInit, Init, ConfigInit, NoCarver, Shown
<1>2. /\ world = [lines |-> world.lines, pattern |-> world.pattern, importable |-> world.importable]
      /\ world.lines \in Seq({world.lines[i] : i \in DOMAIN world.lines})
      /\ world.pattern \subseteq Cells
      /\ \A i \in DOMAIN world.lines : world.lines[i].kind = "key" => Clear(world.lines[i], world.pattern)
  BY <1>1, FileAssumption
<1>3. PatternPlaced /\ Shuttered(walls)
  BY <1>1, <1>2 DEF PatternPlaced, Shuttered
<1>4. ReadClear
  <2>1. \A l \in {world.lines[i] : i \in DOMAIN world.lines} : l.kind = "key" => Clear(l, world.pattern)
    BY <1>2
  <2>2. DOMAIN raw = {}
    BY <1>1
  <2>3. \E L : world.lines \in Seq(L) /\ \A l \in L : l.kind = "key" => Clear(l, world.pattern)
    BY <1>2, <2>1
  <2> QED
    BY <1>2, <2>2, <2>3 DEF ReadClear
<1> QED
  BY <1>1, <1>3, <1>4 DEF MInv, Placed, Carved

(* The program ends without a maze, or goes on with none.                  *)
LEMMA NoMazeYet ==
    ASSUME MInv, PatternPlaced', ReadClear', Placed', NoCarver', phase' \in {"config", "failed", "generate"},
           UNCHANGED <<walls, view>>, world'.pattern = world.pattern,
           phase' = "failed" \/ phase \in {"config", "generate"},
           ~Shown \/ view.making
    PROVE  MInv'
<1>1. Shuttered(walls)'
  BY DEF MInv, Shuttered
<1>2. (phase \in {"config", "generate"} => walls = [c \in Cells |-> Dirs])'
  BY DEF MInv
<1>3. (~Shown \/ view.making)'
  BY DEF Shown
<1>4. phase' # "carve" /\ phase' \notin Carved
  BY DEF Carved
<1> QED
  BY <1>1, <1>2, <1>3, <1>4 DEF MInv

LEMMA LinesRead ==
    ASSUME NEW L, NEW s \in Seq(L), s # <<>>
    PROVE  Head(s) \in L /\ Tail(s) \in Seq(L)
  OBVIOUS

(* parse.                                                                  *)
LEMMA ParseMaze == MInv /\ ShowInv /\ Parse /\ UNCHANGED <<view, tried>> => MInv'
<1> SUFFICES ASSUME MInv, ShowInv, Parse, UNCHANGED <<view, tried>> PROVE MInv'
  OBVIOUS
<1>1. /\ phase = "config" /\ UNCHANGED <<walls, stack, frontier, edges, visited>>
  BY DEF Parse, Configure, ReadLine, Build, Reject, carver
<1>2. ~Shown /\ ~Shown'
  BY <1>1 DEF ShowInv, Shown
<1>3. NoCarver'
  BY <1>1 DEF MInv, NoCarver
<1>4. PatternPlaced /\ ReadClear
  BY DEF MInv
<1>5. CASE ReadLine
  <2> DEFINE line == Head(world.lines)
  <2>1. world.lines # <<>> /\ world' = [world EXCEPT !.lines = Tail(@)]
    BY <1>5 DEF ReadLine
  <2>2. PICK lines, pattern, importable :
           world = [lines |-> lines, pattern |-> pattern, importable |-> importable]
    BY <1>1, <1>4 DEF ReadClear
  <2>3. world' = [lines |-> Tail(lines), pattern |-> pattern, importable |-> importable]
    BY <2>1, <2>2
  <2>4. /\ world.lines = lines /\ world.pattern = pattern
        /\ world'.lines = Tail(lines) /\ world'.pattern = pattern /\ world'.importable = importable
    BY <2>2, <2>3
  <2>5. PICK L : lines \in Seq(L) /\ \A l \in L : l.kind = "key" => Clear(l, pattern)
    BY <1>1, <1>4, <2>4 DEF ReadClear
  <2>6. line \in L /\ Tail(lines) \in Seq(L)
    BY <2>1, <2>4, <2>5, LinesRead
  <2>7. phase' \in {"config", "failed"}
    BY <1>1, <1>5 DEF ReadLine
  <2>8. \A k \in {"ENTRY", "EXIT"} \cap DOMAIN raw' : "pair" \in DOMAIN raw'[k] => raw'[k].pair \notin pattern
    <3>1. \A k \in {"ENTRY", "EXIT"} \cap DOMAIN raw : "pair" \in DOMAIN raw[k] => raw[k].pair \notin pattern
      BY <1>1, <1>4, <2>4 DEF ReadClear
    <3>2. CASE UNCHANGED raw
      BY <3>1, <3>2
    <3>3. CASE /\ line.kind = "key"
               /\ raw' = [k \in DOMAIN raw \cup {line.key} |-> IF k = line.key THEN line.value ELSE raw[k]]
      <4>1. Clear(line, pattern)
        BY <2>5, <2>6, <3>3
      <4>2. \A k \in DOMAIN raw' : \/ k = line.key /\ raw'[k] = line.value
                                   \/ k \in DOMAIN raw /\ raw'[k] = raw[k]
        BY <3>3
      <4> QED
        BY <3>1, <4>1, <4>2 DEF Clear
    <3> QED
      BY <1>5, <3>2, <3>3 DEF ReadLine
  <2>9. ReadClear'
    <3>1. world' = [lines |-> world'.lines, pattern |-> world'.pattern, importable |-> world'.importable]
      BY <2>3, <2>4
    <3>2. \E M : world'.lines \in Seq(M) /\ \A l \in M : l.kind = "key" => Clear(l, world'.pattern)
      BY <2>4, <2>5, <2>6
    <3> QED
      BY <2>4, <2>8, <3>1, <3>2 DEF ReadClear
  <2>10. PatternPlaced'
    BY <1>4, <2>4 DEF PatternPlaced
  <2>11. Placed'
    BY <1>2, <2>7 DEF Placed
  <2> QED
    BY <1>1, <1>2, <1>3, <2>4, <2>7, <2>9, <2>10, <2>11, NoMazeYet
<1>6. CASE Reject
  <2>1. phase' = "failed" /\ UNCHANGED world
    BY <1>6 DEF Reject
  <2>2. ReadClear' /\ Placed' /\ PatternPlaced'
    BY <1>2, <1>4, <2>1, SameWorld DEF ReadClear, Placed
  <2> QED
    BY <1>1, <1>2, <1>3, <2>1, <2>2, NoMazeYet
<1>7. CASE Build
  <2>1. phase' = "generate" /\ UNCHANGED world /\ ConfigOk /\ conf' = MazeConfig
    BY <1>7 DEF Build
  <2>2. /\ conf'.entry = raw["ENTRY"].pair /\ conf'.exit = raw["EXIT"].pair
        /\ CoordOk(raw["ENTRY"]) /\ CoordOk(raw["EXIT"]) /\ {"ENTRY", "EXIT"} \subseteq DOMAIN raw
    BY <2>1 DEF MazeConfig, ConfigOk, Mandatory
  <2>3. {conf'.entry, conf'.exit} \subseteq Plain
    <3>1. /\ raw["ENTRY"].pair \in Cells /\ raw["EXIT"].pair \in Cells
          /\ "pair" \in DOMAIN raw["ENTRY"] /\ "pair" \in DOMAIN raw["EXIT"]
      BY <2>2 DEF CoordOk
    <3>2. raw["ENTRY"].pair \notin world.pattern /\ raw["EXIT"].pair \notin world.pattern
      BY <1>1, <1>4, <2>2, <3>1 DEF ReadClear
    <3> QED
      BY <2>2, <3>1, <3>2 DEF Plain
  <2>4. ReadClear' /\ PatternPlaced'
    BY <1>4, <2>1, SameWorld DEF ReadClear
  <2>5. Placed'
    BY <2>1, <2>3, SameWorld DEF Placed
  <2> QED
    BY <1>1, <1>2, <1>3, <2>1, <2>4, <2>5, NoMazeYet
<1> QED
  BY <1>5, <1>6, <1>7 DEF Parse, Configure

LEMMA PlacedStays ==
    ASSUME Placed, UNCHANGED <<world, conf>>, phase \notin {"config", "failed"} \/ Shown
    PROVE  Placed'
<1>1. {conf.entry, conf.exit} \subseteq Plain
  BY DEF Placed
<1>2. Plain' = Plain
  BY SameWorld
<1> QED
  BY <1>1, <1>2 DEF Placed

(* A turn of the carving, or its beginning.                                *)
LEMMA CarvesOn ==
    ASSUME MInv, phase \in {"generate", "carve"}, phase' = "carve", UNCHANGED <<world, conf, view>>,
           \/ /\ conf.algorithm = Word("dfs") /\ frontier' = {} /\ edges' = {}
              /\ DfsAt(walls', visited', stack')
           \/ /\ conf.algorithm = Word("prims") /\ stack' = <<>> /\ edges' = {}
              /\ PrimsAt(walls', visited', frontier')
           \/ /\ conf.algorithm = Word("kruskals")
              /\ stack' = <<>> /\ frontier' = {} /\ visited' = {}
              /\ KruskalsAt(walls', edges', parent', rank')
    PROVE  MInv'
<1>1. PatternPlaced /\ PatternPlaced' /\ Placed'
  BY SameWorld, PlacedStays DEF MInv
<1>2. world.pattern \subseteq Cells
  BY <1>1, PatternInside
<1>3. Shuttered(walls)'
  <2>1. Shuttered(walls')
    <3>1. ASSUME DfsAt(walls', visited', stack') \/ PrimsAt(walls', visited', frontier')
          PROVE  Shuttered(walls')
      <4>1. Grown(walls', visited' \cap Plain)
        BY <3>1 DEF DfsAt, PrimsAt
      <4> QED
        BY <1>2, <4>1, GrownShut
    <3>2. ASSUME KruskalsAt(walls', edges', parent', rank') PROVE Shuttered(walls')
      BY <3>2 DEF KruskalsAt
    <3> QED
      BY <3>1, <3>2
  <2> QED
    BY <2>1, SameWorld
<1>4. (ByDfs \/ ByPrims \/ ByKruskals)'
  BY SameCarving DEF ByDfs, ByPrims, ByKruskals
<1>5. ReadClear'
  BY DEF ReadClear
<1>6. (~Shown \/ view.making)'
  BY DEF MInv, Shown
<1>7. phase' \notin Carved
  BY DEF Carved
<1> QED
  BY <1>1, <1>3, <1>4, <1>5, <1>6, <1>7 DEF MInv

(* A pass, from one phase to a later one.                                  *)
LEMMA PassesOn ==
    ASSUME MInv, phase \notin {"config", "failed", "done"}, phase' \in Carved \cup {"failed"},
           UNCHANGED <<world, conf>>, UNCHANGED view \/ phase' = "done", NoCarver',
           Shuttered(walls'), phase' # "failed" => Whole(walls', phase')
    PROVE  MInv'
<1>1. PatternPlaced' /\ Placed' /\ Shuttered(walls)'
  BY SameWorld, PlacedStays DEF MInv
<1>2. phase' \in Carved => Whole(walls, phase)'
  <2>1. "failed" \notin Carved
    BY DEF Carved
  <2> QED
    BY <2>1, SameWhole
<1>3. phase' \notin {"config", "generate", "carve"} /\ ReadClear'
  BY DEF ReadClear, Carved
<1>4. (Shown /\ ~view.making => phase = "done")'
  BY DEF MInv, Shown
<1> QED
  BY <1>1, <1>2, <1>3, <1>4 DEF MInv

(* generate.                                                               *)
LEMMA BeginMaze == MInv /\ Begin /\ UNCHANGED <<view, tried>> => MInv'
<1> SUFFICES ASSUME MInv, Begin, UNCHANGED <<view, tried>> PROVE MInv'
  OBVIOUS
<1>1. phase = "generate" /\ UNCHANGED <<world, conf, walls, view>>
  BY DEF Begin, input
<1>2. NoCarver /\ PatternPlaced /\ walls = [c \in Cells |-> Dirs] /\ Shuttered(walls)
  BY <1>1 DEF MInv
<1>3. world.pattern \subseteq Cells
  BY <1>2, PatternInside
<1>4. ASSUME NEW start \in Plain, visited' = world.pattern \cup {start}
      PROVE  /\ world.pattern \subseteq visited' /\ visited' \subseteq Cells
             /\ visited' \cap Plain = {start} /\ Grown(walls', visited' \cap Plain)
  <2>1. visited' \cap Plain = {start}
    BY <1>4 DEF Plain
  <2>2. Grown(walls, {start})
    BY <1>2, GrownStart
  <2> QED
    BY <1>1, <1>3, <1>4, <2>1, <2>2 DEF Plain
<1>5. ASSUME NEW start \in Plain, visited' = world.pattern \cup {start}, stack' = <<start>>
      PROVE  DfsAt(walls', visited', stack')
  <2>1. Entries(stack') = {start}
    BY <1>5 DEF Entries
  <2> QED
    BY <1>4, <1>5, <2>1 DEF DfsAt
<1>6. ASSUME NEW start \in Plain, visited' = world.pattern \cup {start},
             frontier' = FrontierOf(start, world.pattern)
      PROVE  PrimsAt(walls', visited', frontier')
  <2>1. \A c, d : <<c, d>> \in frontier' <=>
                     c = start /\ d \in Dirs /\ Beyond(c, d) \in Plain \ visited'
    BY <1>6 DEF FrontierOf
  <2>2. \A e \in frontier' : e = <<e[1], e[2]>>
    BY <1>6 DEF FrontierOf
  <2>3. \A e \in frontier' : e[1] = start /\ e[2] \in Dirs /\ Beyond(e[1], e[2]) \in Plain
    BY <2>1, <2>2
  <2>4. \A c \in {start}, d \in Dirs : Beyond(c, d) \in Plain \ visited' => <<c, d>> \in frontier'
    BY <2>1
  <2> QED
    BY <1>4, <1>6, <2>3, <2>4 DEF PrimsAt
<1>7. ASSUME parent' = [c \in Plain |-> c], rank' = [c \in Plain |-> 0], edges' = InnerWalls
      PROVE  KruskalsAt(walls', edges', parent', rank')
  BY <1>1, <1>2, <1>3, <1>7, KruskalsStart
<1>8. CASE conf.algorithm = Word("dfs") /\ phase' = "carve"
           /\ (\E start \in Plain : visited' = world.pattern \cup {start} /\ stack' = <<start>>)
           /\ UNCHANGED <<frontier, edges, parent, rank>>
  <2>1. DfsAt(walls', visited', stack') /\ frontier' = {} /\ edges' = {}
    BY <1>2, <1>5, <1>8 DEF NoCarver
  <2> QED
    BY <1>1, <1>8, <2>1, CarvesOn
<1>9. CASE conf.algorithm = Word("prims") /\ phase' = "carve"
           /\ (\E start \in Plain : /\ visited' = world.pattern \cup {start}
                                    /\ frontier' = FrontierOf(start, world.pattern))
           /\ UNCHANGED <<stack, edges, parent, rank>>
  <2>1. PrimsAt(walls', visited', frontier') /\ stack' = <<>> /\ edges' = {}
    BY <1>2, <1>6, <1>9 DEF NoCarver
  <2> QED
    BY <1>1, <1>9, <2>1, CarvesOn
<1>10. CASE conf.algorithm = Word("kruskals") /\ phase' = "carve"
            /\ edges' = InnerWalls /\ parent' = [c \in Plain |-> c] /\ rank' = [c \in Plain |-> 0]
            /\ UNCHANGED <<visited, stack, frontier>>
  <2>1. KruskalsAt(walls', edges', parent', rank') /\ stack' = <<>> /\ frontier' = {} /\ visited' = {}
    BY <1>2, <1>7, <1>10 DEF NoCarver
  <2> QED
    BY <1>1, <1>10, <2>1, CarvesOn
<1>11. CASE phase' = "failed" /\ UNCHANGED carver
  <2>1. NoCarver'
    BY <1>2, <1>11 DEF NoCarver, carver
  <2> QED
    BY <1>1, <1>2, <1>11, <2>1, PassesOn
<1> QED
  BY <1>8, <1>9, <1>10, <1>11 DEF Begin

LEMMA DfsMaze == MInv /\ IInv /\ CarveDfs /\ UNCHANGED <<view, tried>> => MInv'
<1> SUFFICES ASSUME MInv, IInv, CarveDfs, UNCHANGED <<view, tried>> PROVE MInv'
  OBVIOUS
<1> DEFINE top == stack[Len(stack)]
<1>1. /\ phase = "carve" /\ phase' = "carve" /\ stack # <<>>
      /\ UNCHANGED <<world, conf, view, frontier, edges>>
  BY DEF CarveDfs, input
<1>2. conf.algorithm = Word("dfs") /\ frontier = {} /\ edges = {} /\ DfsAt(walls, visited, stack)
  BY <1>1 DEF MInv, ByDfs, ByPrims, ByKruskals
<1>3. DfsAt(walls', visited', stack')
  <2>1. ASSUME NEW d \in Dirs, Beyond(top, d) \in Cells \ visited,
               walls' = RemoveWall(walls, top, d), visited' = visited \cup {Beyond(top, d)},
               stack' = Append(stack, Beyond(top, d))
        PROVE  DfsAt(walls', visited', stack')
    BY <1>1, <1>2, <2>1, DfsGoes DEF IInv
  <2>2. ASSUME \A d \in Dirs : Beyond(top, d) \notin Cells \ visited,
               stack' = SubSeq(stack, 1, Len(stack) - 1), UNCHANGED <<walls, visited>>
        PROVE  DfsAt(walls', visited', stack')
    <3>1. stack \in Seq(Cells)
      BY DEF IInv
    <3>2. DfsAt(walls, visited, SubSeq(stack, 1, Len(stack) - 1))
      BY <1>1, <1>2, <2>2, <3>1, DfsReturns
    <3> QED
      BY <2>2, <3>2
  <2>3. \/ \E d \in Dirs : /\ Beyond(top, d) \in Cells \ visited
                           /\ walls' = RemoveWall(walls, top, d)
                           /\ visited' = visited \cup {Beyond(top, d)}
                           /\ stack' = Append(stack, Beyond(top, d))
        \/ /\ \A d \in Dirs : Beyond(top, d) \notin Cells \ visited
           /\ stack' = SubSeq(stack, 1, Len(stack) - 1) /\ UNCHANGED <<walls, visited>>
    BY DEF CarveDfs
  <2> QED
    BY <2>1, <2>2, <2>3
<1> QED
  BY <1>1, <1>2, <1>3, CarvesOn

LEMMA PrimsMaze == MInv /\ IInv /\ CarvePrims /\ UNCHANGED <<view, tried>> => MInv'
<1> SUFFICES ASSUME MInv, IInv, CarvePrims, UNCHANGED <<view, tried>> PROVE MInv'
  OBVIOUS
<1>1. /\ phase = "carve" /\ phase' = "carve" /\ UNCHANGED <<world, conf, view, stack, edges>>
  BY DEF CarvePrims, input
<1>2. PICK e \in frontier :
         IF Beyond(e[1], e[2]) \in visited
         THEN frontier' = frontier \ {e} /\ UNCHANGED <<walls, visited>>
         ELSE /\ walls' = RemoveWall(walls, e[1], e[2])
              /\ visited' = visited \cup {Beyond(e[1], e[2])}
              /\ frontier' = (frontier \ {e}) \cup FrontierOf(Beyond(e[1], e[2]), visited)
  BY DEF CarvePrims
<1>3. /\ conf.algorithm = Word("prims") /\ stack = <<>> /\ edges = {}
      /\ PrimsAt(walls, visited, frontier)
  BY <1>1, <1>2 DEF MInv, ByDfs, ByPrims, ByKruskals
<1>4. walls \in Walls /\ Valid(walls)
  BY DEF IInv
<1>5. PrimsAt(walls', visited', frontier')
  <2>1. CASE Beyond(e[1], e[2]) \in visited
    <3>1. PrimsAt(walls, visited, frontier \ {e})
      BY <1>3, <1>4, <2>1, PrimsGoes
    <3> QED
      BY <1>2, <2>1, <3>1
  <2>2. CASE Beyond(e[1], e[2]) \notin visited
    <3>1. PrimsAt(RemoveWall(walls, e[1], e[2]), visited \cup {Beyond(e[1], e[2])},
                  (frontier \ {e}) \cup FrontierOf(Beyond(e[1], e[2]), visited))
      BY <1>3, <1>4, <2>2, PrimsGoes
    <3> QED
      BY <1>2, <2>2, <3>1
  <2> QED
    BY <2>1, <2>2
<1> QED
  BY <1>1, <1>3, <1>5, CarvesOn

LEMMA KruskalsMaze == MInv /\ IInv /\ CarveKruskals /\ UNCHANGED <<view, tried>> => MInv'
<1> SUFFICES ASSUME MInv, IInv, CarveKruskals, UNCHANGED <<view, tried>> PROVE MInv'
  OBVIOUS
<1>1. /\ phase = "carve" /\ phase' = "carve"
      /\ UNCHANGED <<world, conf, view, visited, stack, frontier>>
  BY DEF CarveKruskals, input
<1>2. PICK e \in edges :
        \E a \in {Root(parent, e[1])}, b \in {Root(parent, Beyond(e[1], e[2]))} :
          \E q \in {Compressed(Compressed(parent, WayUp(parent, e[1]), a),
                               WayUp(parent, Beyond(e[1], e[2])), b)} :
            /\ edges' = edges \ {e}
            /\ IF a = b
               THEN parent' = q /\ UNCHANGED <<walls, rank>>
               ELSE /\ walls' = RemoveWall(walls, e[1], e[2])
                    /\ parent' = Union(q, rank, a, b).parent
                    /\ rank'   = Union(q, rank, a, b).rank
  BY DEF CarveKruskals
<1>3. /\ conf.algorithm = Word("kruskals") /\ stack = <<>> /\ frontier = {} /\ visited = {}
      /\ KruskalsAt(walls, edges, parent, rank)
  BY <1>1, <1>2 DEF MInv, ByDfs, ByPrims, ByKruskals
<1>4. walls \in Walls /\ Valid(walls) /\ world.pattern \subseteq Cells
  BY PatternInside DEF IInv, MInv
<1> DEFINE c == e[1]
           n == Beyond(e[1], e[2])
           root(x) == Root(parent, x)
<1>5. c \in Plain /\ n \in Plain /\ Forest(parent, rank)
  BY <1>3 DEF KruskalsAt, InnerWalls
<1>6. PICK q : q = Compressed(Compressed(parent, WayUp(parent, c), root(c)), WayUp(parent, n), root(n))
  OBVIOUS
<1>7. Forest(q, rank) /\ \A x \in Plain : root(x) = Root(q, x) /\ (q[x] = x <=> parent[x] = x)
  <2> DEFINE found == Compressed(Compressed(parent, WayUp(parent, c), Root(parent, c)),
                                 WayUp(parent, n), Root(parent, n))
  <2>1. Forest(found, rank) /\ \A x \in Plain : Root(found, x) = Root(parent, x)
                                                /\ (found[x] = x <=> parent[x] = x)
    <3> HIDE DEF c, n
    <3> QED
      BY <1>5, FoundBoth
  <2>2. q = found
    BY <1>6
  <2> HIDE DEF found
  <2> QED
    BY <2>1, <2>2
<1>8. edges' = edges \ {e}
  BY <1>2
<1>9. KruskalsAt(walls', edges', parent', rank')
  <2>1. CASE root(c) = root(n)
    <3>1. parent' = q /\ UNCHANGED <<walls, rank>>
      BY <1>2, <1>6, <2>1
    <3>2. KruskalsAt(walls, edges \ {e}, q, rank)
      BY <1>3, <1>7, <2>1, KruskalsKeeps
    <3> QED
      BY <1>8, <3>1, <3>2
  <2>2. CASE root(c) # root(n)
    <3>1. PICK u : u = Union(q, rank, root(c), root(n))
      OBVIOUS
    <3>2. walls' = RemoveWall(walls, e[1], e[2]) /\ parent' = u.parent /\ rank' = u.rank
      BY <1>2, <1>6, <2>2, <3>1
    <3>3. KruskalsAt(RemoveWall(walls, e[1], e[2]), edges \ {e}, u.parent, u.rank)
      BY <1>3, <1>4, <1>7, <2>2, <3>1, KruskalsJoins
    <3> QED
      BY <1>8, <3>2, <3>3
  <2> QED
    BY <2>1, <2>2
<1> QED
  BY <1>1, <1>3, <1>9, CarvesOn

LEMMA AlgorithmsDiffer ==
    Word("dfs") # Word("kruskals") /\ Word("prims") # Word("kruskals")
<1>1. Word("dfs").word = "dfs" /\ Word("prims").word = "prims" /\ Word("kruskals").word = "kruskals"
  BY DEF Word
<1> QED
  BY <1>1

(* A carving leaves no cell out.                                           *)
LEMMA NothingLeftOut ==
    ASSUME MInv, IInv, phase = "carve", stack = <<>>, frontier = {}, edges = {}
    PROVE  /\ \A seen \in Seen : Bridges(seen) = {}
           /\ AllLinked(walls, Plain)
           /\ Cardinality(OpenWalls(walls)) + 1 = Cardinality(Plain)
<1>1. walls \in Walls /\ Valid(walls) /\ PatternPlaced /\ Shuttered(walls) /\ Plain # {}
  BY DEF IInv, MInv, Placed
<1>2. ASSUME NEW seen, Plain \subseteq seen PROVE Bridges(seen) = {}
  BY <1>2 DEF Bridges
<1>3. CASE ByDfs \/ ByPrims
  <2>1. visited \cap Plain = Plain /\ Grown(walls, Plain)
    BY <1>1, <1>3, DfsEnds, PrimsEnds DEF ByDfs, ByPrims
  <2>2. conf.algorithm # Word("kruskals")
    BY <1>3, AlgorithmsDiffer DEF ByDfs, ByPrims
  <2>3. Seen = {visited} /\ Plain \subseteq visited
    BY <2>1, <2>2 DEF Seen
  <2> QED
    BY <1>2, <2>1, <2>3 DEF Grown
<1>4. CASE ByKruskals
  <2>1. AllLinked(walls, Plain) /\ Cardinality(OpenWalls(walls)) + 1 = Cardinality(Plain)
    BY <1>1, <1>4, KruskalsEnds DEF ByKruskals
  <2>2. \A a \in Plain : Reachable(walls, a) = Plain
    BY <1>1, <2>1, AllReached
  <2>3. Seen = {Reachable(walls, a) : a \in Plain}
    BY <1>4 DEF Seen, ByKruskals
  <2>4. \A seen \in Seen : Plain \subseteq seen
    BY <2>2, <2>3
  <2> QED
    BY <1>2, <2>1, <2>4
<1> QED
  BY <1>3, <1>4 DEF MInv

(* The carving ends: nothing is left for _connect_isolated.                *)
LEMMA CarvingEnds == MInv /\ IInv /\ CarveEnds /\ UNCHANGED <<view, tried>> => MInv'
<1> SUFFICES ASSUME MInv, IInv, CarveEnds, UNCHANGED <<view, tried>> PROVE MInv'
  OBVIOUS
<1>1. /\ phase = "carve" /\ stack = <<>> /\ frontier = {} /\ edges = {}
      /\ UNCHANGED <<world, conf, view, frontier, edges>>
  BY DEF CarveEnds, input
<1>2. /\ \A seen \in Seen : Bridges(seen) = {}
      /\ AllLinked(walls, Plain) /\ Cardinality(OpenWalls(walls)) + 1 = Cardinality(Plain)
  BY <1>1, NothingLeftOut
<1>3. /\ phase' = IF conf.perfect THEN "fix" ELSE "extra"
      /\ visited' = {} /\ UNCHANGED <<walls, stack>>
  BY <1>2 DEF CarveEnds
<1>4. phase' \in Carved /\ phase' \in {"fix", "extra"} /\ (conf.perfect => phase' # "extra")
  BY <1>3 DEF Carved
<1>5. Whole(walls', phase')
  BY <1>2, <1>3, <1>4 DEF Whole
<1>6. NoCarver' /\ Shuttered(walls')
  BY <1>1, <1>3 DEF NoCarver, MInv
<1> QED
  BY <1>1, <1>4, <1>5, <1>6, PassesOn

(* Extra passages, in a maze that is not perfect.                          *)
LEMMA ExtraKeeps == MInv /\ IInv /\ AddExtra /\ UNCHANGED <<view, tried>> => MInv'
<1> SUFFICES ASSUME MInv, IInv, AddExtra, UNCHANGED <<view, tried>> PROVE MInv'
  OBVIOUS
<1>1. phase = "extra" /\ phase' = "fix" /\ UNCHANGED <<world, conf, view, carver>>
  BY DEF AddExtra, input
<1>2. PICK set \in SUBSET ClosedWalls(walls) : walls' = Opened(walls, set)
  BY DEF AddExtra
<1>3. Whole(walls, phase) /\ Shuttered(walls) /\ walls \in Walls /\ world.pattern \subseteq Cells
  BY <1>1, PatternInside DEF MInv, IInv, Carved
<1>4. set \in SUBSET InnerWalls
  BY DEF ClosedWalls
<1>5. Shuttered(walls') /\ AllLinked(walls', Plain)
  BY <1>2, <1>3, <1>4, OpenedKeeps DEF Whole
<1>6. ~conf.perfect
  BY <1>1, <1>3 DEF Whole
<1>7. Whole(walls', phase') /\ NoCarver'
  BY <1>1, <1>5, <1>6 DEF Whole, MInv, NoCarver, carver
<1> QED
  BY <1>1, <1>5, <1>7, PassesOn DEF Carved

(* Open squares are walled up; a perfect maze has none.                    *)
LEMMA FixKeeps == MInv /\ IInv /\ Fix3x3 /\ UNCHANGED <<view, tried>> => MInv'
<1> SUFFICES ASSUME MInv, IInv, Fix3x3, UNCHANGED <<view, tried>> PROVE MInv'
  OBVIOUS
<1>1. phase = "fix" /\ UNCHANGED <<world, conf, view, carver>>
  BY DEF Fix3x3, input
<1>2. /\ Whole(walls, phase) /\ Shuttered(walls) /\ walls \in Walls /\ Valid(walls)
      /\ world.pattern \subseteq Cells
  BY <1>1, PatternInside DEF MInv, IInv, Carved
<1>3. NoCarver'
  BY <1>1 DEF MInv, NoCarver, carver
<1> DEFINE wide == {c \in Squares : Open3x3(walls, c)}
<1>4. CASE wide = {}
  <2>1. phase' = "tree" /\ UNCHANGED walls
    BY <1>4 DEF Fix3x3
  <2>2. Whole(walls', phase')
    BY <1>1, <1>2, <1>4, <2>1 DEF Whole, Narrow
  <2> QED
    BY <1>1, <1>2, <1>3, <2>1, <2>2, PassesOn DEF Carved
<1>5. CASE wide # {}
  <2>1. wide \in SUBSET Cells
    BY DEF Squares
  <2>2. PICK f \in wide : f = First(wide)
    BY <1>5, <2>1, FirstIsOne
  <2>3. walls' = SetWall(walls, <<f[1] + 1, f[2] + 1>>, "S") /\ phase' = "fix"
    BY <1>1, <1>5, <2>2 DEF Fix3x3
  <2>4. f \in Squares /\ Open3x3(walls, f)
    OBVIOUS
  <2>5. ~conf.perfect
    BY <1>2, <2>4, TreeIsNarrow DEF Whole
  <2>6. Shuttered(walls') /\ AllLinked(walls', Plain)
    BY <1>2, <2>3, <2>4, Detour DEF Whole
  <2>7. Whole(walls', phase')
    BY <2>3, <2>5, <2>6 DEF Whole
  <2> QED
    BY <1>1, <1>3, <2>3, <2>6, <2>7, PassesOn DEF Carved
<1> QED
  BY <1>4, <1>5

(* A tree has no wall too many open.                                       *)
LEMMA TreeKeeps == MInv /\ IInv /\ EnsureTree /\ UNCHANGED <<view, tried>> => MInv'
<1> SUFFICES ASSUME MInv, IInv, EnsureTree, UNCHANGED <<view, tried>> PROVE MInv'
  OBVIOUS
<1>1. phase = "tree" /\ phase' = "border" /\ UNCHANGED <<world, conf, view, carver>>
  BY DEF EnsureTree, input
<1>2. Whole(walls, phase) /\ Shuttered(walls) /\ NoCarver
  BY <1>1 DEF MInv, Carved
<1>3. conf.perfect => Cardinality(OpenWalls(walls)) - (Cardinality(Plain) - 1) = 0
  <2>1. Cardinality(OpenWalls(walls)) \in Nat /\ Cardinality(Plain) \in Nat
    BY OpenWallsFinite, PlainCells
  <2> QED
    BY <1>2, <2>1 DEF Whole
<1>4. UNCHANGED walls
  BY <1>3 DEF EnsureTree
<1>5. Whole(walls', phase') /\ NoCarver'
  BY <1>1, <1>2, <1>4 DEF Whole, NoCarver, carver
<1> QED
  BY <1>1, <1>2, <1>4, <1>5, PassesOn DEF Carved

(* The gates open towards the outside.                                     *)
LEMMA BordersKeep == MInv /\ IInv /\ OpenBorders /\ UNCHANGED <<view, tried>> => MInv'
<1> SUFFICES ASSUME MInv, IInv, OpenBorders, UNCHANGED <<view, tried>> PROVE MInv'
  OBVIOUS
<1> DEFINE a == conf.entry
           b == conf.exit
<1>1. /\ phase = "border" /\ phase' \in {"solve", "failed"} /\ UNCHANGED <<world, conf, view, carver>>
      /\ walls' = [walls EXCEPT ![a] = @ \ {BorderDir(a)}, ![b] = @ \ {BorderDir(b)}]
  BY DEF OpenBorders, input
<1>2. /\ Whole(walls, phase) /\ Shuttered(walls) /\ NoCarver /\ walls \in Walls
      /\ world.pattern \subseteq Cells
  BY <1>1, PatternInside DEF MInv, IInv, Carved
<1>3. a \in Plain /\ b \in Plain /\ a \in Cells /\ b \in Cells /\ OnBorder(a) /\ OnBorder(b)
  BY <1>1 DEF MInv, Placed, IInv, ConfFits
<1> HIDE DEF a, b
<1>4. Shuttered(walls')
  <2>1. \A c \in world.pattern : c # a /\ c # b /\ c \in Cells
    BY <1>2, <1>3 DEF Plain
  <2>2. \A c \in world.pattern : walls'[c] = walls[c]
    BY <1>1, <1>2, <2>1 DEF Walls
  <2> QED
    BY <1>2, <2>2 DEF Shuttered
<1>5. PICK v : v = walls'
  OBVIOUS
<1>6. \A x \in Cells, e \in Dirs : Beyond(x, e) \in Cells => (e \in v[x] <=> e \in walls[x])
  <2>1. v = [walls EXCEPT ![a] = @ \ {BorderDir(a)}, ![b] = @ \ {BorderDir(b)}]
    BY <1>1, <1>5
  <2> SUFFICES ASSUME NEW x \in Cells, NEW e \in Dirs, Beyond(x, e) \in Cells
               PROVE  e \in v[x] <=> e \in walls[x]
    OBVIOUS
  <2>2. ~(x = a /\ e = BorderDir(a)) /\ ~(x = b /\ e = BorderDir(b))
    BY <1>3, BorderLeadsOut
  <2> QED
    BY <1>2, <1>3, <2>1, <2>2 DEF Walls
<1>7. /\ \A x, y : Linked(v, x, y) <=> Linked(walls, x, y)
      /\ OpenWalls(v) = OpenWalls(walls)
      /\ \A c \in Squares : Open3x3(v, c) <=> Open3x3(walls, c)
  BY <1>6, SameInside
<1>8. Whole(walls', phase') /\ NoCarver'
  BY <1>1, <1>2, <1>5, <1>7 DEF Whole, AllLinked, Narrow, NoCarver, carver
<1> QED
  BY <1>1, <1>4, <1>8, PassesOn DEF Carved

(* The path is sought, and written.                                        *)
LEMMA WritingKeeps ==
    MInv /\ (Search \/ Write \/ Export) /\ UNCHANGED <<view, tried>> => MInv'
<1> SUFFICES ASSUME MInv, Search \/ Write \/ Export, UNCHANGED <<view, tried>> PROVE MInv'
  OBVIOUS
<1>1. /\ phase \in {"solve", "write", "export"}
      /\ phase' \in {"solve", "write", "export", "done", "failed"}
      /\ UNCHANGED <<world, conf, walls, view, carver>>
  BY DEF Search, Write, Export, input
<1>2. Whole(walls, phase) /\ Shuttered(walls) /\ NoCarver
  BY <1>1 DEF MInv, Carved
<1>3. Whole(walls', phase') /\ NoCarver'
  BY <1>1, <1>2 DEF Whole, NoCarver, carver
<1> QED
  BY <1>1, <1>2, <1>3, PassesOn DEF Carved

LEMMA GeneratorMakes == MInv /\ ShowInv /\ Next /\ UNCHANGED <<view, tried>> => MInv'
  BY ParseMaze, BeginMaze, DfsMaze, PrimsMaze, KruskalsMaze, CarvingEnds, ExtraKeeps, FixKeeps,
     TreeKeeps, BordersKeep, WritingKeeps DEF Next, ShowInv

(* What the viewers do with a maze changes none.                           *)
LEMMA LookingKeeps ==
    ASSUME MInv, UNCHANGED <<phase, input, walls, carver>>,
           Shown' => Shown \/ phase = "done",
           (Shown /\ ~view.making => phase = "done")'
    PROVE  MInv'
<1>1. UNCHANGED <<world, raw, conf, visited, stack, frontier, edges, parent, rank>>
  BY DEF input, carver
<1>2. PatternPlaced' /\ Shuttered(walls)'
  BY <1>1, SameWorld DEF MInv
<1>3. ReadClear'
  BY <1>1 DEF MInv, ReadClear
<1>4. Placed'
  <2>1. CASE phase \notin {"config", "failed"} \/ Shown
    BY <1>1, <2>1, PlacedStays DEF MInv
  <2>2. CASE ~(phase \notin {"config", "failed"} \/ Shown)
    BY <2>2 DEF Placed
  <2> QED
    BY <2>1, <2>2
<1>5. (phase # "carve" => NoCarver)'
  BY <1>1 DEF MInv, NoCarver
<1>6. (phase = "carve" => ByDfs \/ ByPrims \/ ByKruskals)'
  BY <1>1, SameCarving DEF MInv, ByDfs, ByPrims, ByKruskals
<1>7. (phase \in Carved => Whole(walls, phase))'
  BY <1>1, SameWhole DEF MInv
<1> QED
  BY <1>2, <1>3, <1>4, <1>5, <1>6, <1>7 DEF MInv

LEMMA ViewerMakes == MInv /\ ShowInv /\ [ViewNext]_allVars => MInv'
<1> SUFFICES ASSUME MInv, ShowInv, [ViewNext]_allVars PROVE MInv'
  OBVIOUS
<1>1. CASE Generate
  BY <1>1, GeneratorMakes DEF Generate
<1>2. CASE UNCHANGED allVars
  <2>1. UNCHANGED <<phase, input, walls, carver, view>>
    BY <1>2 DEF allVars, vars
  <2>2. (Shown' => Shown) /\ (Shown /\ ~view.making => phase = "done")'
    BY <2>1 DEF MInv, Shown
  <2> QED
    BY <2>1, <2>2, LookingKeeps
<1>3. CASE \/ PassOver \/ Open \/ Close \/ TogglePath \/ Replay \/ ToggleDucks
           \/ ToggleMoving \/ DucksMove \/ PlayPath
  <2>1. UNCHANGED <<phase, input, walls, carver>> /\ (phase = "done" \/ Looking)
    BY <1>3 DEF PassOver, Open, Close, TogglePath, Replay, ToggleDucks, ToggleMoving, DucksMove,
                PlayPath, More, Still, maker
  <2>2. phase = "done"
    BY <2>1 DEF MInv, Looking
  <2> QED
    BY <2>1, <2>2, LookingKeeps
<1>4. CASE Regenerated
  <2>1. /\ phase = "write" /\ phase' = "done" /\ UNCHANGED <<world, conf, walls, carver>>
    BY <1>4 DEF Regenerated, maker, input
  <2>2. Whole(walls, phase) /\ Shuttered(walls) /\ NoCarver
    BY <2>1 DEF MInv, Carved
  <2>3. Whole(walls', phase') /\ NoCarver'
    BY <2>1, <2>2 DEF Whole, NoCarver, carver
  <2> QED
    BY <2>1, <2>2, <2>3, PassesOn DEF Carved
<1>5. CASE Regenerate
  <2>1. /\ Shown /\ ~view.making /\ view' = [view EXCEPT !.making = TRUE]
        /\ phase' = "generate" /\ walls' = [c \in Cells |-> Dirs]
        /\ UNCHANGED <<world, conf, carver>>
    BY <1>5 DEF Regenerate, Looking, input
  <2>2. phase = "done" /\ NoCarver /\ PatternPlaced /\ Placed
    BY <2>1 DEF MInv
  <2>3. view'.making
    BY <2>1 DEF ShowInv, ViewGood, Views
  <2>4. PatternPlaced' /\ Placed' /\ NoCarver' /\ ReadClear'
    BY <2>1, <2>2, SameWorld, PlacedStays DEF NoCarver, carver, ReadClear
  <2>5. Shuttered(walls)'
    BY <2>1, <2>4, PatternInside, SameWorld, <2>2 DEF Shuttered
  <2> QED
    BY <2>1, <2>3, <2>4, <2>5 DEF MInv, Carved
<1> QED
  BY <1>1, <1>2, <1>3, <1>4, <1>5 DEF ViewNext

(* What generate promises of a maze, of those the viewers ask for, too.    *)
LEMMA SoundIs == MInv /\ ShowInv => MazeSound
<1> SUFFICES ASSUME MInv, ShowInv PROVE MazeSound
  OBVIOUS
<1>1. IInv /\ walls \in Walls /\ Valid(walls) /\ PatternPlaced /\ Shuttered(walls) /\ Placed
  BY DEF MInv, ShowInv, IInv
<1>2. TypeOK
  <2>1. visited \subseteq Cells /\ edges \subseteq InnerWalls
    BY DEF MInv, ByDfs, ByPrims, ByKruskals, DfsAt, PrimsAt, KruskalsAt, NoCarver
  <2> QED
    BY <1>1, <2>1 DEF TypeOK, MInv, Carved, Walls, Shuttered
<1>3. UnionFindExact
  <2> SUFFICES ASSUME phase = "carve", conf.algorithm = Word("kruskals"), NEW a \in Plain
               PROVE  {b \in Plain : Root(parent, b) = Root(parent, a)} = Reachable(walls, a)
    BY DEF UnionFindExact
  <2>1. KruskalsAt(walls, edges, parent, rank)
    BY AlgorithmsDiffer DEF MInv, ByDfs, ByPrims, ByKruskals
  <2> QED
    BY <1>1, <2>1, RootsReach
<1>4. RepairsIdle
  <2>1. ASSUME phase = "tree", conf.perfect PROVE Cardinality(OpenWalls(walls)) <= Cardinality(Plain) - 1
    <3>1. Cardinality(OpenWalls(walls)) + 1 = Cardinality(Plain)
      BY <2>1 DEF MInv, Carved, Whole
    <3>2. Cardinality(OpenWalls(walls)) \in Nat /\ Cardinality(Plain) \in Nat
      BY OpenWallsFinite, PlainCells
    <3> QED
      BY <3>1, <3>2
  <2> QED
    BY <1>1, <2>1, NothingLeftOut DEF RepairsIdle
<1>5. ASSUME Finished PROVE Whole(walls, phase) /\ phase \notin {"extra", "fix"} /\ conf.entry \in Plain
  BY <1>1, <1>5 DEF Finished, MInv, Carved, Placed
<1>6. Connected
  BY <1>1, <1>5, AllReached DEF Connected, Whole
<1>7. PerfectIsTree
  <2> SUFFICES ASSUME Finished, conf.perfect
               PROVE  Cardinality(OpenWalls(walls)) = Cardinality(Plain) - 1
    BY DEF PerfectIsTree
  <2>1. Cardinality(OpenWalls(walls)) + 1 = Cardinality(Plain)
    BY <1>5 DEF Whole
  <2>2. Cardinality(OpenWalls(walls)) \in Nat /\ Cardinality(Plain) \in Nat
    BY OpenWallsFinite, PlainCells
  <2> QED
    BY <2>1, <2>2
<1>8. NoOpenSquare
  BY <1>5 DEF NoOpenSquare, Whole, Narrow
<1> QED
  BY <1>2, <1>3, <1>4, <1>6, <1>7, <1>8 DEF MazeSound

(* On every grid of every size, for every file, algorithm and choice, and  *)
(* of the mazes the viewers ask for: the sets of kruskals are exact, the   *)
(* pattern stays closed, the passes that repair have nothing to repair, no *)
(* cell is cut off, a perfect maze is a tree and no square of nine cells   *)
(* is open (generator.py:83, 234-256, 318, 377, 402).                      *)
THEOREM MazesSound == ViewSpec => []MazeSound
<1>1. ViewInit => ShowInv /\ MInv
  BY ShowInvInit, MazeBegins
<1>2. ShowInv /\ MInv /\ [ViewNext]_allVars => (ShowInv /\ MInv)'
  BY ViewerShows, ViewerMakes
<1>3. ShowInv /\ MInv => MazeSound
  BY SoundIs
<1> QED
  BY <1>1, <1>2, <1>3, PTL DEF ViewSpec
=============================================================================

----------------------------- MODULE AMazeIng -----------------------------
(***************************************************************************)
(* A-Maze-ing (a_maze_ing.py, config_parser.py, mazegen/, output_writer.py)*)
(* from the configuration to the file: the three carving algorithms with   *)
(* their random choices, one action per turn of their loops, the passes    *)
(* that follow, the breadth-first search for the path and the output.      *)
(*                                                                         *)
(* A cell is <<x, y>>.  Every cell keeps the set of its walls, as the mask *)
(* of the code does: a wall between two cells exists twice.                *)
(***************************************************************************)
EXTENDS MazeConfig

CONSTANT ExtraPercent    \* extra_ratio: walls opened in a maze that is not perfect

Dirs == {"N", "E", "S", "W"}

ASSUME RatioAssumption == ExtraPercent \in 0..100

VARIABLES
    walls,      \* of every cell
    visited, stack, frontier,       \* of the carving by dfs and prims
    edges, parent, rank,            \* of the carving by kruskals
    prev, queue,                    \* of the breadth-first search
    out,        \* the output file: [walls, path], or NoOut
    svg         \* the SVG file: [walls], or NoOut

carver == <<visited, stack, frontier, edges, parent, rank>>
search == <<prev, queue>>
input  == <<world, raw, conf>>
files  == <<out, svg>>
vars   == <<input, phase, walls, carver, search, files>>

Opposite == [d \in Dirs |-> CASE d = "N" -> "S" [] d = "S" -> "N"
                              [] d = "E" -> "W" [] d = "W" -> "E"]

Beyond(c, d) == CASE d = "N" -> <<c[1], c[2] - 1>> [] d = "S" -> <<c[1], c[2] + 1>>
                  [] d = "E" -> <<c[1] + 1, c[2]>> [] d = "W" -> <<c[1] - 1, c[2]>>

(* The digits "4" and "2" shut no cell in: who goes on and on from any cell*)
(* outside the pattern comes to all of them (generator.py:17-42, 140-165). *)
ASSUME PatternAssumption ==
    \A file \in Worlds : LET free == Cells \ file.pattern
                         IN  \A some \in (SUBSET free) \ {{}} :
                               (\A c \in some, d \in Dirs : Beyond(c, d) \in free => Beyond(c, d) \in some)
                                 => some = free

(* remove_wall and set_wall act on both sides of the wall.                 *)
RemoveWall(w, c, d) ==
    [x \in Cells |-> IF x = c THEN w[x] \ {d}
                     ELSE IF x = Beyond(c, d) THEN w[x] \ {Opposite[d]} ELSE w[x]]

SetWall(w, c, d) ==
    [x \in Cells |-> IF x = c THEN w[x] \cup {d}
                     ELSE IF x = Beyond(c, d) THEN w[x] \cup {Opposite[d]} ELSE w[x]]

Plain == Cells \ world.pattern

(* The inner walls, each named from its western or northern side.          *)
InnerWalls == {e \in Plain \X {"E", "S"} : Beyond(e[1], e[2]) \in Plain}
OpenWalls(w) == {e \in InnerWalls : e[2] \notin w[e[1]]}

NoOut == [none |-> TRUE]

-----------------------------------------------------------------------------
Init ==
    /\ ConfigInit
    /\ walls = [c \in Cells |-> Dirs]
    /\ visited = {} /\ stack = <<>> /\ frontier = {}
    /\ edges = {} /\ parent = <<>> /\ rank = <<>>
    /\ prev = <<>> /\ queue = <<>>
    /\ out = NoOut /\ svg = NoOut

(* parse: an exception ends the program.                                   *)
Parse == Configure /\ UNCHANGED <<walls, carver, search, files>>

(* The walls a cell newly visited adds to the frontier.                    *)
FrontierOf(c, seen) ==
    {e \in {c} \X Dirs : Beyond(e[1], e[2]) \in Plain \ (seen \cup {c})}

(* generate: the pattern's cells keep their walls; the carving begins.     *)
Begin ==
    /\ phase = "generate"
    /\ \/ /\ conf.algorithm = Word("dfs")
          /\ \E start \in Plain : visited' = world.pattern \cup {start} /\ stack' = <<start>>
          /\ phase' = "carve"
          /\ UNCHANGED <<frontier, edges, parent, rank>>
       \/ /\ conf.algorithm = Word("prims")
          /\ \E start \in Plain : /\ visited' = world.pattern \cup {start}
                                 /\ frontier' = FrontierOf(start, world.pattern)
          /\ phase' = "carve"
          /\ UNCHANGED <<stack, edges, parent, rank>>
       \/ /\ conf.algorithm = Word("kruskals")
          /\ edges' = InnerWalls
          /\ parent' = [c \in Plain |-> c] /\ rank' = [c \in Plain |-> 0]
          /\ phase' = "carve"
          /\ UNCHANGED <<visited, stack, frontier>>
       \/ /\ conf.algorithm \notin {Word("dfs"), Word("prims"), Word("kruskals")}
          /\ phase' = "failed"
          /\ UNCHANGED carver
    /\ UNCHANGED <<input, walls, search, files>>

(* A mutant: a dead end is not left.                                       *)
CarveDfs_NoWayBack ==
    /\ phase = "carve" /\ stack # <<>>
    /\ \E d \in Dirs :
         LET next == Beyond(stack[Len(stack)], d)
         IN  /\ next \in Cells \ visited
             /\ walls' = RemoveWall(walls, stack[Len(stack)], d)
             /\ visited' = visited \cup {next}
             /\ stack' = Append(stack, next)
    /\ UNCHANGED <<input, phase, frontier, edges, parent, rank, search, files>>

(* _dfs_from: from the top of the stack to any cell not yet visited, or    *)
(* back.                                                                   *)
CarveDfs ==
    /\ phase = "carve" /\ stack # <<>>
    /\ LET top  == stack[Len(stack)]
           free == {d \in Dirs : Beyond(top, d) \in Cells \ visited}
       IN  \/ \E d \in free :
                /\ walls' = RemoveWall(walls, top, d)
                /\ visited' = visited \cup {Beyond(top, d)}
                /\ stack' = Append(stack, Beyond(top, d))
           \/ /\ free = {}
              /\ stack' = SubSeq(stack, 1, Len(stack) - 1)
              /\ UNCHANGED <<walls, visited>>
    /\ UNCHANGED <<input, phase, frontier, edges, parent, rank, search, files>>

(* _carve_prims: any wall of the frontier; it may lead to a cell visited   *)
(* since it was added.                                                     *)
CarvePrims ==
    /\ phase = "carve"
    /\ \E e \in frontier :
         LET next == Beyond(e[1], e[2])
         IN  IF next \in visited
             THEN /\ frontier' = frontier \ {e}
                  /\ UNCHANGED <<walls, visited>>
             ELSE /\ walls' = RemoveWall(walls, e[1], e[2])
                  /\ visited' = visited \cup {next}
                  /\ frontier' = (frontier \ {e}) \cup FrontierOf(next, visited)
    /\ UNCHANGED <<input, phase, stack, edges, parent, rank, search, files>>

(* A mutant: the parent is taken for the root.                             *)
Root_OneUp(p, c) == p[c]

(* find: the root of a cell's set; the cells on the way to it are then     *)
(* hung under the root.                                                    *)
Root(p, c) ==
    LET root[x \in DOMAIN p] == IF p[x] = x THEN x ELSE root[p[x]] IN root[c]

WayUp(p, c) ==
    LET way[x \in DOMAIN p] == {x} \cup (IF p[x] = x THEN {} ELSE way[p[x]]) IN way[c]

Compressed(p, way, root) == [x \in DOMAIN p |-> IF x \in way THEN root ELSE p[x]]

(* union, by rank; a is left the root when the ranks are equal.            *)
Union(p, r, a, b) ==
    IF r[a] < r[b] THEN [parent |-> [p EXCEPT ![a] = b], rank |-> r]
    ELSE [parent |-> [p EXCEPT ![b] = a],
          rank   |-> IF r[a] = r[b] THEN [r EXCEPT ![a] = @ + 1] ELSE r]

CarveKruskals ==
    /\ phase = "carve"
    /\ \E e \in edges :
         \E a \in {Root(parent, e[1])}, b \in {Root(parent, Beyond(e[1], e[2]))} :
           \E p \in {Compressed(Compressed(parent, WayUp(parent, e[1]), a),
                             WayUp(parent, Beyond(e[1], e[2])), b)} :
             /\ edges' = edges \ {e}
             /\ IF a = b
                THEN parent' = p /\ UNCHANGED <<walls, rank>>
                ELSE /\ walls' = RemoveWall(walls, e[1], e[2])
                     /\ parent' = Union(p, rank, a, b).parent
                     /\ rank'   = Union(p, rank, a, b).rank
    /\ UNCHANGED <<input, phase, visited, stack, frontier, search, files>>

-----------------------------------------------------------------------------
(* What can be reached from a cell through open walls, and how far it is.  *)

Ways(w, c) == {Beyond(c, d) : d \in Dirs \ w[c]} \cap Cells

Within(w, c) ==
    LET near[k \in 0..Cardinality(Cells)] ==
          IF k = 0 THEN {c} ELSE UNION {{x} \cup Ways(w, x) : x \in near[k - 1]}
    IN  near

Reachable(w, c) == Within(w, c)[Cardinality(Cells)]

(* The carving ends.  _connect_isolated opens a wall between a cell left   *)
(* out and a visited one, and carves on from there, as long as it can.     *)
Bridges(seen) == {e \in (Plain \ seen) \X Dirs : Beyond(e[1], e[2]) \in seen \cap Plain}

Seen == IF conf.algorithm = Word("kruskals") /\ visited = {}
        THEN {Reachable(walls, c) : c \in Plain} ELSE {visited}

CarveEnds ==
    /\ phase = "carve"
    /\ stack = <<>> /\ frontier = {} /\ edges = {}
    /\ \E seen \in Seen :
         IF Bridges(seen) # {}
         THEN \E e \in Bridges(seen) :
                /\ walls' = RemoveWall(walls, e[1], e[2])
                /\ visited' = seen \cup world.pattern \cup {e[1]}
                /\ stack' = <<e[1]>>
                /\ UNCHANGED <<phase, parent, rank>>
         ELSE /\ phase' = IF conf.perfect THEN "fix" ELSE "extra"
              /\ visited' = {} /\ parent' = <<>> /\ rank' = <<>>
              /\ UNCHANGED <<walls, stack>>
    /\ UNCHANGED <<input, frontier, edges, search, files>>

Opened(w, set) ==
    [c \in Cells |-> {d \in w[c] : /\ <<c, d>> \notin set
                                   /\ <<Beyond(c, d), Opposite[d]>> \notin set}]

(* _add_extra_passages.                                                    *)
ClosedWalls(w) == InnerWalls \ OpenWalls(w)

AddExtra ==
    /\ phase = "extra"
    /\ LET closed == ClosedWalls(walls)
           ratio  == (Cardinality(closed) * ExtraPercent) \div 100
           count  == IF closed = {} THEN 0 ELSE IF ratio < 1 THEN 1 ELSE ratio
       IN  \E set \in {s \in SUBSET closed : Cardinality(s) = count} :
             walls' = Opened(walls, set)
    /\ phase' = "fix"
    /\ UNCHANGED <<input, carver, search, files>>

(* _is_3x3_open, of the square whose north-western cell is c.              *)
Open3x3(w, c) ==
    \A i, j \in 0..2 : LET x == <<c[1] + i, c[2] + j>>
                       IN  /\ i < 2 => "E" \notin w[x]
                           /\ j < 2 => "S" \notin w[x]

Squares == {c \in Cells : c[1] + 2 < Width /\ c[2] + 2 < Height}

(* _fix_3x3_open_areas: the middle of an open square gets a wall, the      *)
(* first square row by row.                                                *)
First(set) == CHOOSE c \in set :
                \A o \in set : c[2] < o[2] \/ (c[2] = o[2] /\ c[1] <= o[1])

Fix3x3 ==
    /\ phase = "fix"
    /\ LET wide == {c \in Squares : Open3x3(walls, c)}
       IN  IF wide # {}
           THEN /\ walls' = SetWall(walls, <<First(wide)[1] + 1, First(wide)[2] + 1>>, "S")
                /\ UNCHANGED phase
           ELSE phase' = "tree" /\ UNCHANGED walls
    /\ UNCHANGED <<input, carver, search, files>>

(* _ensure_perfect_tree: a perfect maze with too many open walls keeps     *)
(* those of a breadth-first tree, which leaves every cell as near to the   *)
(* entry as it was.                                                        *)
Closed(w, set) ==
    [c \in Cells |-> w[c] \cup {d \in Dirs : \/ <<c, d>> \in set
                                             \/ <<Beyond(c, d), Opposite[d]>> \in set}]

EnsureTree ==
    /\ phase = "tree"
    /\ LET excess == Cardinality(OpenWalls(walls)) - (Cardinality(Plain) - 1)
       IN  IF ~conf.perfect \/ excess <= 0 THEN UNCHANGED walls
           ELSE \E set \in {s \in SUBSET OpenWalls(walls) : Cardinality(s) = excess} :
                  /\ walls' = Closed(walls, set)
                  /\ Within(walls', conf.entry) = Within(walls, conf.entry)
    /\ phase' = "border"
    /\ UNCHANGED <<input, carver, search, files>>

(* _open_border.                                                           *)
BorderDir(c) == IF c[1] = 0 THEN "W" ELSE IF c[1] = Width - 1 THEN "E"
                ELSE IF c[2] = 0 THEN "N" ELSE "S"

(* is_valid: the two sides of every wall agree.                            *)
Valid(w) == \A c \in Cells, d \in Dirs :
              Beyond(c, d) \in Cells => (d \in w[c] <=> Opposite[d] \in w[Beyond(c, d)])

OpenBorders ==
    /\ phase = "border"
    /\ walls' = [walls EXCEPT ![conf.entry] = @ \ {BorderDir(conf.entry)},
                              ![conf.exit]  = @ \ {BorderDir(conf.exit)}]
    /\ IF Valid(walls')
       THEN /\ phase' = "solve"
            /\ prev' = [c \in {conf.entry} |-> c] /\ queue' = <<conf.entry>>
       ELSE phase' = "failed" /\ UNCHANGED search
    /\ UNCHANGED <<input, carver, files>>

(* The cells a cell leads on to that were not found before, in the order of*)
(* the directions; and what is known of the cells after it.                *)
Onward(c) ==
    LET by(d) == IF d \notin walls[c] /\ Beyond(c, d) \in Cells \ DOMAIN prev
                 THEN <<Beyond(c, d)>> ELSE <<>>
    IN  by("N") \o by("E") \o by("S") \o by("W")

Reached(c) ==
    LET new == {Onward(c)[i] : i \in DOMAIN Onward(c)}
    IN  [x \in DOMAIN prev \cup new |-> IF x \in new THEN c ELSE prev[x]]

(* A mutant: the cells found last are looked at first.                     *)
Search_Stack ==
    /\ phase = "solve"
    /\ IF Head(queue) = conf.exit THEN phase' = "write" /\ UNCHANGED search
       ELSE LET c == Head(queue)
            IN  /\ queue' = Onward(c) \o Tail(queue)
                /\ prev' = Reached(c)
                /\ UNCHANGED phase
    /\ UNCHANGED <<input, walls, carver, files>>

(* solve: a turn of the loop over the queue, up to the exit.               *)
Search ==
    /\ phase = "solve"
    /\ IF queue = <<>> THEN phase' = "failed" /\ UNCHANGED search
       ELSE IF Head(queue) = conf.exit THEN phase' = "write" /\ UNCHANGED search
       ELSE LET c == Head(queue)
            IN  /\ queue' = Tail(queue) \o Onward(c)
                /\ prev' = Reached(c)
                /\ UNCHANGED phase
    /\ UNCHANGED <<input, walls, carver, files>>

(* The cells from the exit back to the entry, by prev; and the directions  *)
(* that lead the other way.                                                *)
WayBack ==
    LET back[k \in Nat] == IF k = 0 THEN conf.exit ELSE prev[back[k - 1]] IN back

Directions ==
    LET back == WayBack
        n == CHOOSE k \in 0..Cardinality(Cells) :
               back[k] = conf.entry /\ \A j \in 0..k - 1 : back[j] # conf.entry
    IN  [i \in 1..n |-> CHOOSE d \in Dirs : Beyond(back[n - i + 1], d) = back[n - i]]

(* The cells that directions lead through, from the entry.                 *)
Trail(path) ==
    LET at[k \in 0..Len(path)] == IF k = 0 THEN conf.entry ELSE Beyond(at[k - 1], path[k])
    IN  at

(* OutputWriter.write, which an OSError may stop.                          *)
Write ==
    /\ phase = "write" /\ out = NoOut
    /\ \/ out' = [walls |-> walls, path |-> Directions] /\ phase' = "export"
       \/ phase' = "failed" /\ UNCHANGED out
    /\ UNCHANGED <<input, walls, carver, search, svg>>

(* write_svg: the walls of every cell; an error is only reported.          *)
Export ==
    /\ phase = "export"
    /\ \/ conf.svg /\ svg' = [walls |-> walls]
       \/ UNCHANGED svg
    /\ phase' = "done"
    /\ UNCHANGED <<input, walls, carver, search, out>>

Next == Parse \/ Begin \/ CarveDfs \/ CarvePrims \/ CarveKruskals \/ CarveEnds
        \/ AddExtra \/ Fix3x3 \/ EnsureTree \/ OpenBorders \/ Search \/ Write \/ Export

Spec == Init /\ [][Next]_vars /\ WF_vars(Next)

-----------------------------------------------------------------------------
(* Properties.                                                             *)

(* The types; the cells of the pattern keep their four walls whatever is   *)
(* carved, opened or closed (generator.py:83).                             *)
TypeOK ==
    /\ phase \in {"config", "generate", "carve", "extra", "fix", "tree", "border", "solve", "write",
                  "export", "done", "failed"}
    /\ walls \in [Cells -> SUBSET Dirs]
    /\ \A c \in world.pattern : walls[c] = Dirs
    /\ visited \subseteq Cells /\ edges \subseteq InnerWalls

(* The two sides of every wall agree in every state, so that is_valid never*)
(* refuses a maze (generator.py:114, maze.py:71).                          *)
WallsAgree == Valid(walls)

(* The passes that repair a maze have nothing to repair: a carving leaves  *)
(* no cell out, and opens no wall too many (generator.py:318, 402).        *)
RepairsIdle ==
    /\ phase = "carve" /\ stack = <<>> /\ frontier = {} /\ edges = {} =>
           \A seen \in Seen : Bridges(seen) = {}
    /\ phase = "tree" /\ conf.perfect =>
           Cardinality(OpenWalls(walls)) <= Cardinality(Plain) - 1

(* Two cells have the same root exactly when open walls join them, in      *)
(* spite of ranks and compressed ways (generator.py:234-256).              *)
UnionFindExact ==
    phase = "carve" /\ conf.algorithm = Word("kruskals") =>
        \A a \in Plain : {b \in Plain : Root(parent, b) = Root(parent, a)} = Reachable(walls, a)

Finished == phase \in {"border", "solve", "write", "export", "done"}

(* Every cell outside the pattern is reached from the entry of a finished  *)
(* maze; a perfect one is a tree: one way between any two cells (README,   *)
(* "exactly one path between any pair").                                   *)
Connected == Finished => Reachable(walls, conf.entry) = Plain

PerfectIsTree ==
    Finished /\ conf.perfect => Cardinality(OpenWalls(walls)) = Cardinality(Plain) - 1

(* A finished maze has no square of nine cells without a wall              *)
(* (generator.py:377).                                                     *)
NoOpenSquare == Finished => \A c \in Squares : ~Open3x3(walls, c)

(* What generate promises of a maze, however it was carved, and what its   *)
(* passes rely on: the sets are exact, the pattern stays closed, nothing is*)
(* cut off, a perfect maze is a tree, and no pass undoes an earlier one.   *)
MazeSound ==
    TypeOK /\ UnionFindExact /\ RepairsIdle /\ Connected /\ PerfectIsTree /\ NoOpenSquare

(* The directions written lead through the written walls from the entry to *)
(* the exit, and no way is shorter (solver.py:83, output_writer.py:33).    *)
OutputLeads ==
    out # NoOut =>
        LET at == Trail(out.path)
        IN  /\ \A k \in DOMAIN out.path : out.path[k] \notin out.walls[at[k - 1]]
            /\ at[Len(out.path)] = conf.exit
            /\ conf.exit \notin Within(out.walls, conf.entry)[Len(out.path) - 1]

(* Every run of the generator ends: the backtracking, the frontier, the    *)
(* search and the loop that walls up open squares.                         *)
Ends == <>(phase \in {"done", "failed"})

=============================================================================

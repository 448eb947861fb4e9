----------------------------- MODULE AMazeView -----------------------------
(***************************************************************************)
(* The viewers of A-Maze-ing (renderer_ascii.py, renderer_mlx.py) on top of*)
(* its generator: the menu of the terminal, the keys and the loop hook of  *)
(* the window, and the mazes both generate while they show one.  Colours,  *)
(* effects and the drawing itself are left out: what is shown is the maze, *)
(* its path, how much of it, and the ducks.                                *)
(*                                                                         *)
(* A viewer whose library cannot be imported is passed over.               *)
(***************************************************************************)
EXTENDS AMazeIng

VARIABLES
    view,       \* the viewer, see Open, or NoView
    tried       \* how many of the configuration's viewers have been opened

allVars == <<vars, view, tried>>
maker   == <<input, walls, carver, search, files>>

NoView == [none |-> TRUE]
Shown  == view # NoView

(* The cells of the path, the entry first.                                 *)
PathCells ==
    LET dirs == Directions
        at   == Trail(dirs)
    IN  [i \in 1..Len(dirs) + 1 |-> at[i - 1]]

Road(path) == {path[i] : i \in DOMAIN path} \cup {conf.entry, conf.exit}

(* _pick_duck_cells: a sample of the cells off the path and the pattern, or*)
(* all of them.                                                            *)
Ducks(path) ==
    LET free == Plain \ Road(path)
        n    == IF conf.ducks < Cardinality(free) THEN conf.ducks ELSE Cardinality(free)
    IN  {set \in SUBSET free : Cardinality(set) = n}

DucksIf(on, path) == IF on THEN Ducks(path) ELSE {{}}

ViewInit ==
    /\ Init
    /\ view = NoView
    /\ tried = 0

More == phase = "done" /\ ~Shown /\ tried < Len(conf.viewers)
Kind == conf.viewers[tried + 1]

(* main: an ImportError is reported.                                       *)
PassOver ==
    /\ More /\ Kind \notin world.importable
    /\ tried' = tried + 1
    /\ UNCHANGED <<phase, maker, view>>

(* render: the viewer opens with the maze, and plays its path when ANIMATE *)
(* is set - the terminal at once, the window in the turns of its loop.     *)
Open ==
    /\ More /\ Kind \in world.importable
    /\ \E ducks \in DucksIf(conf.ducks > 0, PathCells) :
         view' = [kind |-> Kind, walls |-> walls, path |-> PathCells,
                  road |-> conf.animate, ducksOn |-> conf.ducks > 0, ducks |-> ducks,
                  moving |-> conf.moving, making |-> FALSE,
                  playing |-> conf.animate /\ Kind = "mlx",
                  seen |-> IF conf.animate /\ Kind = "mlx" THEN 1 ELSE 0]
    /\ tried' = tried + 1
    /\ UNCHANGED <<phase, maker>>

Looking == Shown /\ ~view.making
Still   == UNCHANGED <<phase, maker, tried>>

(* Quit, the end of the input or the close button.                         *)
Close ==
    /\ Looking
    /\ view' = NoView
    /\ UNCHANGED <<phase, maker, tried>>

(* Every turn of the menu moves ducks that move.                           *)
MenuDucks == IF view.moving THEN DucksIf(view.ducksOn, view.path) ELSE {view.ducks}

(* Choice 2 and the key P.                                                 *)
TogglePath ==
    /\ Looking
    /\ IF view.kind = "ascii"
       THEN \E ducks \in MenuDucks : view' = [view EXCEPT !.road = ~@, !.ducks = ducks]
       ELSE view' = [view EXCEPT !.road = ~@, !.playing = FALSE,
                                 !.seen = IF view.road THEN 0 ELSE Len(view.path)]
    /\ Still

(* The key S plays the path again, if it is shown.                         *)
Replay ==
    /\ Looking /\ view.kind = "mlx" /\ view.road
    /\ view' = [view EXCEPT !.playing = TRUE, !.seen = 1]
    /\ Still

(* Choice 5 and the key D: the ducks leave, or come back to new cells.     *)
ToggleDucks ==
    /\ Looking
    /\ \E ducks \in DucksIf(~view.ducksOn, view.path) :
         view' = [view EXCEPT !.ducksOn = ~@, !.ducks = ducks]
    /\ Still

(* The key U of the window: the ducks move.                                *)
ToggleMoving ==
    /\ Looking /\ view.kind = "mlx"
    /\ view' = [view EXCEPT !.moving = ~@]
    /\ Still

(* _loop_hook: ducks that move, and a turn of the path being played; the   *)
(* menu moves them after a choice that changes nothing else, too.          *)
DucksMove ==
    /\ Looking /\ view.moving
    /\ \E ducks \in DucksIf(view.ducksOn, view.path) : view' = [view EXCEPT !.ducks = ducks]
    /\ Still

PlayPath ==
    /\ Looking /\ view.playing
    /\ view' = IF view.seen < Len(view.path) THEN [view EXCEPT !.seen = @ + 1]
               ELSE [view EXCEPT !.playing = FALSE]
    /\ Still

(* Choice 1, the key R or the slideshow: a new generator starts, with the  *)
(* same keys and another seed.                                             *)
Regenerate ==
    /\ Looking
    /\ view' = [view EXCEPT !.making = TRUE]
    /\ phase' = "generate"
    /\ walls' = [c \in Cells |-> Dirs]
    /\ prev' = <<>> /\ queue' = <<>>
    /\ UNCHANGED <<input, carver, files, tried>>

(* A mutant: the path is the one shown before.                             *)
Renewed_OldPath(path, ducks) ==
    [view EXCEPT !.making = FALSE, !.walls = walls, !.ducks = ducks]

(* Its maze takes the place of the one shown, with its path and new ducks; *)
(* the file keeps the first maze.  A generator that fails changes nothing. *)
Renewed(path, ducks) ==
    LET mlx == view.kind = "mlx"
    IN  [view EXCEPT !.making = FALSE, !.walls = walls, !.path = path, !.ducks = ducks,
                     !.road = IF mlx THEN @ \/ conf.animate ELSE conf.animate,
                     !.playing = mlx /\ conf.animate,
                     !.seen = IF ~mlx THEN 0 ELSE IF conf.animate THEN 1 ELSE Len(path)]

Regenerated ==
    /\ Shown /\ view.making
    /\ phase = "write"
    /\ \E path \in {PathCells} : \E ducks \in DucksIf(view.ducksOn, path) :
         view' = Renewed(path, ducks)
    /\ phase' = "done"
    /\ UNCHANGED <<maker, tried>>

Generate == Next /\ UNCHANGED <<view, tried>>

ViewNext ==
    \/ Generate
    \/ PassOver \/ Open \/ Close \/ TogglePath \/ Replay \/ ToggleDucks \/ ToggleMoving
    \/ DucksMove \/ PlayPath \/ Regenerate \/ Regenerated

ViewSpec == ViewInit /\ [][ViewNext]_allVars /\ WF_allVars(Generate) /\ WF_allVars(Regenerated)

-----------------------------------------------------------------------------
(* The path shown leads from the entry to the exit of the maze shown, not  *)
(* of one shown before, while another is being made (renderer_mlx.py:608). *)
PathFitsMaze ==
    Shown => LET n == Len(view.path)
             IN  /\ view.path[1] = conf.entry /\ view.path[n] = conf.exit
                 /\ \A i \in 1..n - 1 : view.path[i + 1] \in Ways(view.walls, view.path[i])

(* The ducks stand neither on the path nor on the pattern, the entry or the*)
(* exit, after every key and every new maze; without ducks there are none. *)
DucksOffRoad ==
    Shown => /\ view.ducks \cap (Road(view.path) \cup world.pattern) = {}
             /\ ~view.ducksOn => view.ducks = {}

(* A path being played is shown, and no further than it goes: the counter  *)
(* never outlives the path it was for (renderer_mlx.py:577).               *)
PlaysItsPath ==
    Shown => /\ view.seen <= Len(view.path)
             /\ view.playing => view.road /\ view.seen >= 1

(* Path, counter and ducks shown are those of the maze shown, while others *)
(* are made and keys are pressed.                                          *)
ShowsOneMaze == PathFitsMaze /\ DucksOffRoad /\ PlaysItsPath

(* A maze asked for comes, and the old one is no longer shown.             *)
NewMazeComes == Shown /\ view.making ~> ~Shown \/ ~view.making

(* Every maze is finished: the first one, and each a viewer asks for.      *)
MazesCome == Ends /\ NewMazeComes

=============================================================================

------------------------------ MODULE PacMan ------------------------------
(***************************************************************************)
(* Pac-Man (src/game.py, level.py, entities.py, highscore.py): the screens *)
(* of the game, the tick of a level with its player, ghosts, dots and      *)
(* cheats, and the high scores with their file, over launches of the       *)
(* program that may be killed at any moment, while it saves among others.  *)
(*                                                                         *)
(* The maze of a level is a corridor of Width cells: two ghosts start at   *)
(* its ends, where the super dots are, and the player in the middle.  What *)
(* the collisions depend on - who stands where after whose move - needs no *)
(* more.  Every dot and every ghost is worth one point, up to MaxScore.    *)
(***************************************************************************)
EXTENDS Integers, SequencesExt

CONSTANTS
    Width,                          \* cells of the corridor
    Pacgum, Lives, Levels, MaxTime, \* of the configuration; time in ticks
    EdibleDuration, RespawnDelay,   \* of a ghost, in ticks
    SlowInterval,                   \* ticks between the moves of an edible ghost
    BaseInterval,                   \* ticks between the player's moves, 1 if boosted
    MaxEntries,                     \* of the table
    MaxLives, MaxScore              \* bounds: lives a cheat can add up to, score

ASSUME PacManAssumption ==
    /\ Width \in Nat /\ Width >= 4
    /\ {Pacgum, Lives, Levels, MaxTime, EdibleDuration, RespawnDelay,
        SlowInterval, BaseInterval, MaxEntries} \subseteq Nat \ {0}
    /\ MaxLives \in Nat /\ Lives <= MaxLives /\ MaxScore \in Nat

VARIABLES
    screen,     \* GameState, and "off" when the program does not run
    index,      \* level_index
    level,      \* the level, or NoLevel
    final,      \* final_score
    entries,    \* the table, scores only
    file,       \* its file: [ok, list]
    lifeless,   \* the level was begun without a life left
    skipped     \* the cheat key skipped a level of this game

game  == <<index, level, final, lifeless, skipped>>
table == <<entries, file>>
vars  == <<screen, index, level, final, entries, file, lifeless, skipped>>

Cells  == 1..Width
Ends   == {1, Width}
Center == Width \div 2 + 1
Ghosts == 1..2

Plus(score, n) == IF score + n > MaxScore THEN MaxScore ELSE score + n

-----------------------------------------------------------------------------
(* Ghosts.                                                                 *)

NewGhost(home) == [home |-> home, at |-> home, st |-> "CHASING", edible |-> 0,
                   respawn |-> 0, moved |-> 0, slow |-> FALSE]

MakeEdible(g) ==
    IF g.st \in {"RESPAWNING", "FROZEN"} THEN g
    ELSE [g EXCEPT !.st = "EDIBLE", !.edible = EdibleDuration, !.slow = TRUE]

Eat(g) == [g EXCEPT !.st = "RESPAWNING", !.respawn = RespawnDelay, !.edible = 0]

Freeze(g)   == [g EXCEPT !.st = "FROZEN"]
Unfreeze(g) == IF g.st = "FROZEN" THEN [g EXCEPT !.st = "CHASING"] ELSE g
Calmed(g)   == [g EXCEPT !.st = "CHASING", !.slow = FALSE]

Beside(c)  == {c - 1, c + 1} \cap Cells
Dist(a, b) == IF a < b THEN b - a ELSE a - b

(* The neighbours a ghost may step to: the nearest to the player when it   *)
(* chases, the farthest otherwise.  The jitter of at most 1.5 added to the *)
(* distances decides between equal ones; others differ by 2 in a corridor. *)
Steps(g, p) ==
    LET better(c, d) == IF g.st = "CHASING" THEN Dist(c, p) < Dist(d, p)
                                            ELSE Dist(c, p) > Dist(d, p)
    IN  {c \in Beside(g.at) : \A d \in Beside(g.at) : ~better(d, c)}

Roamed(g, p) ==
    IF g.slow /\ g.moved + 1 < SlowInterval
    THEN {[g EXCEPT !.moved = @ + 1]}
    ELSE {[g EXCEPT !.moved = 0, !.at = c] : c \in Steps(g, p)}

GhostUpdate(g, p) ==
    CASE g.st = "FROZEN"     -> {g}
      [] g.st = "RESPAWNING" ->
           {IF g.respawn > 1 THEN [g EXCEPT !.respawn = @ - 1]
                             ELSE [Calmed(g) EXCEPT !.respawn = 0, !.at = g.home]}
      [] g.st = "EDIBLE"     ->
           Roamed(IF g.edible > 1 THEN [g EXCEPT !.edible = @ - 1]
                                  ELSE [Calmed(g) EXCEPT !.edible = 0], p)
      [] OTHER               -> Roamed(g, p)

-----------------------------------------------------------------------------
(* Levels.                                                                 *)

NoLevel == [none |-> TRUE]

(* The dots are sampled from the reachable cells that are neither a corner *)
(* nor the player's: as many as the configuration asks, or all of them.    *)
DotCells == Cells \ (Ends \cup {Center})
DotCount == IF Pacgum < Cardinality(DotCells) THEN Pacgum ELSE Cardinality(DotCells)

NewLevels(lives, score) ==
    {[at |-> Center, dir |-> -1, moved |-> 0, lives |-> lives, score |-> score,
      inv |-> FALSE, fast |-> FALSE, time |-> MaxTime, won |-> FALSE, lost |-> FALSE,
      ghosts |-> <<NewGhost(1), NewGhost(Width)>>, dots |-> dots, supers |-> Ends]
       : dots \in {d \in SUBSET DotCells : Cardinality(d) = DotCount}}

(* Player.update, want being the direction last asked for; 0 stands for up *)
(* and down, where a corridor has walls.                                   *)
PlayerMoved(l, want) ==
    LET open(d) == d # 0 /\ l.at + d \in Cells
        step(d) == [l EXCEPT !.moved = 0, !.at = @ + d, !.dir = d]
    IN  IF ~l.fast /\ l.moved + 1 < BaseInterval THEN [l EXCEPT !.moved = @ + 1]
        ELSE IF open(want) THEN step(want)
        ELSE IF open(l.dir) THEN step(l.dir)
        ELSE [l EXCEPT !.moved = 0]

DotsEaten(l) ==
    LET super == l.at \in l.supers
    IN  [l EXCEPT !.dots = @ \ {l.at}, !.supers = @ \ {l.at},
                  !.score = Plus(@, IF l.at \in l.dots \cup l.supers THEN 1 ELSE 0),
                  !.ghosts = IF super THEN [g \in Ghosts |-> MakeEdible(l.ghosts[g])]
                             ELSE @]

GhostsMoved(l) ==
    {[l EXCEPT !.ghosts = <<a, b>>] : a \in GhostUpdate(l.ghosts[1], l.at),
                                      b \in GhostUpdate(l.ghosts[2], l.at)}

(* A mutant: a life is lost, and the game goes on with none.               *)
GhostsMet_LastLife(l) ==
    LET hits == Cardinality({g \in Ghosts : l.ghosts[g].at = l.at /\ ~l.inv})
    IN  [l EXCEPT !.lives = @ - hits, !.lost = l.lives < hits,
                  !.at = IF hits > 0 THEN Center ELSE @]

(* The collisions where the player stood before the loop over the ghosts:  *)
(* edible ghosts there are eaten, each of the chasing ones costs a life,   *)
(* and the player starts again from the middle if one remains.             *)
GhostsMet(l) ==
    LET here  == {g \in Ghosts : l.ghosts[g].at = l.at}
        eaten == {g \in here : l.ghosts[g].st = "EDIBLE"}
        hits  == IF l.inv THEN 0
                 ELSE Cardinality({g \in here : l.ghosts[g].st = "CHASING"})
        left  == l.lives - hits
        again == hits > 0 /\ left > 0
    IN  [l EXCEPT !.ghosts = [g \in Ghosts |-> IF g \in eaten THEN Eat(@[g]) ELSE @[g]],
                  !.score  = Plus(@, Cardinality(eaten)),
                  !.lives  = left,
                  !.lost   = hits > 0 /\ left <= 0,
                  !.at     = IF again THEN Center ELSE @,
                  !.dir    = IF again THEN -1 ELSE @,
                  !.moved  = IF again THEN 0 ELSE @]

WinChecked(l) == [l EXCEPT !.won = @ \/ l.dots = {}]

(* Level.update: the set of levels it may leave.                           *)
Updated(l) ==
    IF l.won \/ l.lost THEN {l}
    ELSE IF l.time = 1 THEN {[l EXCEPT !.time = 0, !.lost = TRUE]}
    ELSE {WinChecked(GhostsMet(DotsEaten(m)))
            : m \in UNION {GhostsMoved(PlayerMoved([l EXCEPT !.time = @ - 1], want))
                            : want \in {-1, 0, 1}}}

-----------------------------------------------------------------------------
(* The table of scores and its file.                                       *)

Broken == [ok |-> FALSE, list |-> <<>>]

Orders(list) == Bijection(DOMAIN list, DOMAIN list)

Sorted_Ascending(list) ==   \* a mutant
    LET order == CHOOSE f \in Orders(list) :
                    \A i, j \in DOMAIN list : i < j => list[f[i]] <= list[f[j]]
    IN  [i \in DOMAIN list |-> list[order[i]]]
Sorted(list) ==
    LET order == CHOOSE f \in Orders(list) :
                    \A i, j \in DOMAIN list : i < j => list[f[i]] >= list[f[j]]
    IN  [i \in DOMAIN list |-> list[order[i]]]
Kept(list)   == SubSeq(list, 1, IF Len(list) < MaxEntries THEN Len(list) ELSE MaxEntries)
Added(list, score) == Kept(Sorted(Append(list, score)))

(* save: the file is emptied, then written; an OSError leaves it as it was *)
(* or cut short.                                                           *)
Saves(list) == {[ok |-> TRUE, list |-> list], file, Broken}

-----------------------------------------------------------------------------
(* The screens.                                                            *)

Init ==
    /\ screen = "off"
    /\ index = 0 /\ level = NoLevel /\ final = 0
    /\ entries = <<>>
    /\ file \in {Broken, [ok |-> TRUE, list |-> <<>>]}
    /\ lifeless = FALSE /\ skipped = FALSE

(* The program starts and loads the table: an unreadable file gives an     *)
(* empty one.                                                              *)
Launch ==
    /\ screen = "off"
    /\ screen' = "MAIN_MENU"
    /\ entries' = Kept(Sorted(file.list))
    /\ UNCHANGED <<game, file>>

(* _load_level: the generator may fail, which leads back to the menu.      *)
LoadLevel(lives, score) ==
    \/ /\ level' \in NewLevels(lives, score)
       /\ screen' = "PLAYING"
       /\ lifeless' = (lives <= 0)
    \/ /\ screen' = "MAIN_MENU"
       /\ UNCHANGED <<level, lifeless>>

(* _start_game.  The last game's final score is not read again: it is      *)
(* forgotten here, the code leaves it.                                     *)
StartGame ==
    /\ screen = "MAIN_MENU"
    /\ index' = 0 /\ skipped' = FALSE /\ final' = 0
    /\ LoadLevel(Lives, 0)
    /\ UNCHANGED table

Browse ==
    /\ \/ screen = "MAIN_MENU" /\ screen' \in {"HIGHSCORES", "INSTRUCTIONS"}
       \/ screen \in {"HIGHSCORES", "INSTRUCTIONS"} /\ screen' = "MAIN_MENU"
    /\ UNCHANGED <<game, table>>

Pause ==
    /\ screen = "PLAYING"
    /\ screen' = "PAUSED"
    /\ UNCHANGED <<game, table>>

Resume ==
    /\ screen = "PAUSED"
    /\ screen' = "PLAYING"
    /\ UNCHANGED <<game, table>>

Abandon ==
    /\ screen = "PAUSED"
    /\ screen' = "MAIN_MENU" /\ level' = NoLevel
    /\ UNCHANGED <<index, final, lifeless, skipped, table>>

(* toggle_ghost_freeze.                                                    *)
FreezeToggled(l) ==
    LET all == \A g \in Ghosts : l.ghosts[g].st \in {"RESPAWNING", "FROZEN"}
    IN  [l EXCEPT !.ghosts = [g \in Ghosts |-> IF all THEN Unfreeze(@[g])
                                                     ELSE Freeze(@[g])]]

(* The cheat keys I, F, L, B, and X, which skips the level.                *)
Cheat ==
    /\ screen = "PLAYING"
    /\ \/ /\ \/ level' = [level EXCEPT !.inv = ~@]
             \/ level' = FreezeToggled(level)
             \/ level.lives < MaxLives /\ level' = [level EXCEPT !.lives = @ + 1]
             \/ level' = [level EXCEPT !.fast = ~@]
          /\ UNCHANGED skipped
       \/ level' = [level EXCEPT !.won = TRUE] /\ skipped' = TRUE
    /\ UNCHANGED <<screen, index, final, lifeless, table>>

LevelWon(l) ==
    /\ index' = index + 1
    /\ IF index + 1 >= Levels
       THEN /\ final' = l.score
            /\ screen' = "VICTORY" /\ level' = NoLevel
            /\ UNCHANGED lifeless
       ELSE LoadLevel(l.lives, l.score) /\ UNCHANGED final

LevelLost(l) ==
    /\ final' = l.score
    /\ screen' = "GAME_OVER" /\ level' = NoLevel
    /\ UNCHANGED <<index, lifeless>>

(* A frame of the game: the level is updated, and its end dealt with, a    *)
(* win before a loss.                                                      *)
Tick ==
    /\ screen = "PLAYING"
    /\ \E l \in Updated(level) :
         \/ l.won /\ LevelWon(l)
         \/ ~l.won /\ l.lost /\ LevelLost(l)
         \/ /\ ~l.won /\ ~l.lost
            /\ level' = l
            /\ UNCHANGED <<screen, index, final, lifeless>>
    /\ UNCHANGED <<skipped, table>>

(* The end screens give way to the entry of a name after two seconds.      *)
EndShown ==
    /\ screen \in {"GAME_OVER", "VICTORY"}
    /\ screen' = "NAME_ENTRY"
    /\ UNCHANGED <<game, table>>

EnterName ==
    /\ screen = "NAME_ENTRY"
    /\ entries' = Added(entries, final)
    /\ file' \in Saves(entries')
    /\ screen' = "MAIN_MENU"
    /\ UNCHANGED game

(* What the process held is gone when it ends.                             *)
Exits ==
    /\ screen # "off" /\ screen' = "off"
    /\ index' = 0 /\ level' = NoLevel /\ final' = 0 /\ entries' = <<>>
    /\ lifeless' = FALSE /\ skipped' = FALSE

(* The menu's last item or the window's close button.                      *)
Quit ==
    /\ Exits
    /\ file' \in Saves(entries)

(* The process is killed, in the middle of a save when it makes one.       *)
Kill ==
    /\ Exits
    /\ \/ UNCHANGED file
       \/ file' = Broken

Next ==
    \/ Launch \/ StartGame \/ Browse \/ Pause \/ Resume \/ Abandon \/ Cheat
    \/ Tick \/ EndShown \/ EnterName \/ Quit \/ Kill

Spec == Init /\ [][Next]_vars

-----------------------------------------------------------------------------
(* Properties.                                                             *)

GhostType == [home : Ends, at : Cells,
              st : {"CHASING", "EDIBLE", "RESPAWNING", "FROZEN"},
              edible : 0..EdibleDuration, respawn : 0..RespawnDelay,
              moved : 0..SlowInterval - 1, slow : BOOLEAN]

LevelType == [at : Cells, dir : {-1, 1}, moved : 0..BaseInterval - 1,
              lives : (-2 * Levels)..MaxLives, score : 0..MaxScore, inv : BOOLEAN,
              fast : BOOLEAN, time : 1..MaxTime, won : BOOLEAN, lost : {FALSE},
              ghosts : [Ghosts -> GhostType], dots : SUBSET DotCells,
              supers : SUBSET Ends]

(* The types: every ghost stays inside the maze whatever its state, every  *)
(* timer within the duration it is set to, and no level that is lost or    *)
(* out of time is kept (level.py, entities.py).                            *)
TypeOK ==
    /\ screen \in {"off", "MAIN_MENU", "PLAYING", "PAUSED", "HIGHSCORES",
                   "INSTRUCTIONS", "NAME_ENTRY", "GAME_OVER", "VICTORY"}
    /\ index \in 0..Levels /\ final \in 0..MaxScore
    /\ level = NoLevel \/ level \in LevelType
    /\ Len(entries) <= MaxEntries /\ ToSet(entries) \subseteq 0..MaxScore
    /\ file.ok \in BOOLEAN /\ Len(file.list) <= MaxEntries
    /\ {lifeless, skipped} \subseteq BOOLEAN

(* A level goes on only for a player with a life left, unless the level    *)
(* was already begun without one: a player who eats the last dot and meets *)
(* a ghost in the same frame has won (game.py:157).                        *)
NoPlayAfterDeath ==
    screen \in {"PLAYING", "PAUSED"} => level.lives >= 1 \/ lifeless

(* A victory without the cheat key X is earned: every dot of every level   *)
(* counts in the final score (level.py:131, game.py:166).                  *)
VictoryEarned ==
    screen = "VICTORY" /\ ~skipped =>
        final >= (IF Levels * DotCount > MaxScore THEN MaxScore ELSE Levels * DotCount)

(* Whatever keys, cheats, bites and freezes follow each other, a game goes *)
(* by its rules: states and timers stay in their ranges, nobody plays on   *)
(* without a life, and a victory is earned.                                *)
GameFair == TypeOK /\ NoPlayAfterDeath /\ VictoryEarned

(* The best score on disk is never replaced by a lower one, as long as the *)
(* file stays readable (highscore.py:63, 71; the kill in a save excepted). *)
BestStays ==
    [][file.ok /\ file'.ok /\ file.list # <<>> =>
          file'.list # <<>> /\ file'.list[1] >= file.list[1]]_vars

=============================================================================

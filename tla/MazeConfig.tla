---------------------------- MODULE MazeConfig ----------------------------
(***************************************************************************)
(* The configuration file of A-Maze-ing, from its lines to the keys the    *)
(* generator and the viewers use (config_parser.py).                       *)
(*                                                                         *)
(* A line is a record: of kind "key", "other" when it has no "=", "skip"   *)
(* when it is blank or a comment.  A value is what the parser can make of  *)
(* it: [int |-> n], [pair |-> <<x, y>>] or [word |-> w], in lower case.    *)
(* A file that does not exist ends like one without lines.                 *)
(***************************************************************************)
EXTENDS Integers, Sequences, FiniteSets, TLC

CONSTANTS
    Width, Height,  \* of the grid, and in every file that gives it a size
    Worlds          \* [lines, pattern, importable]: a configuration file, the
                    \* cells the "42" covers on the grid, {} when it is omitted,
                    \* and the viewers whose libraries are installed

Cells == (0..Width - 1) \X (0..Height - 1)
OnBorder(c) == c[1] \in {0, Width - 1} \/ c[2] \in {0, Height - 1}

Sized(l) == \/ l.kind # "key" \/ "int" \notin DOMAIN l.value \/ l.value.int < 1
            \/ /\ l.key = "WIDTH" => l.value.int = Width
               /\ l.key = "HEIGHT" => l.value.int = Height

Clear(l, pattern) == l.key \in {"ENTRY", "EXIT"} /\ "pair" \in DOMAIN l.value
                        => l.value.pair \notin pattern

ASSUME SizeAssumption == Width \in Nat \ {0, 1} /\ Height \in Nat \ {0, 1}

ASSUME FileAssumption ==
    \A world \in Worlds :
      /\ world = [lines |-> world.lines, pattern |-> world.pattern, importable |-> world.importable]
      /\ world.lines \in Seq({world.lines[i] : i \in DOMAIN world.lines})
      /\ world.pattern \subseteq Cells
      /\ \A i \in DOMAIN world.lines :
           /\ Sized(world.lines[i])
           /\ world.lines[i].kind = "key" => Clear(world.lines[i], world.pattern)

VARIABLES
    phase,      \* where the program is: "config", "generate", ... or "failed"
    world,      \* one of Worlds; the lines are those still to be read
    raw,        \* _read_raw: the keys read so far
    conf        \* the MazeConfig, or NoConf

NoConf == [none |-> TRUE]

ConfigInit ==
    /\ phase = "config"
    /\ world \in Worlds
    /\ raw = <<>>
    /\ conf = NoConf

(* _read_raw: a key given twice has its last value.                        *)
ReadLine ==
    /\ phase = "config" /\ world.lines # <<>>
    /\ LET line == Head(world.lines)
       IN  \/ line.kind = "skip"  /\ UNCHANGED <<phase, raw>>
           \/ line.kind = "other" /\ phase' = "failed" /\ UNCHANGED raw
           \/ /\ line.kind = "key"
              /\ raw' = [k \in DOMAIN raw \cup {line.key} |-> IF k = line.key THEN line.value ELSE raw[k]]
              /\ UNCHANGED phase
    /\ world' = [world EXCEPT !.lines = Tail(@)]
    /\ UNCHANGED conf

-----------------------------------------------------------------------------
(* _build_config.                                                          *)

Mandatory == {"WIDTH", "HEIGHT", "ENTRY", "EXIT", "OUTPUT_FILE", "PERFECT"}
Counts    == {"WIDTH", "HEIGHT", "EXPORT_CELL_SIZE", "EXPORT_WALL", "DUCKS_COUNT"}
Flags     == {"PERFECT", "ANIMATE", "DUCKS", "DUCKS_ANIMATE", "AUTO_PALETTE", "PULSE_ENTRY_EXIT",
              "PATTERN_FADE", "DEAD_END_SHIMMER", "SEED_SLIDESHOW", "STATS_TICKER"}

Word(w)  == [word |-> w]
IsInt(v) == "int" \in DOMAIN v
Value(key, default) == IF key \in DOMAIN raw THEN raw[key] ELSE Word(default)
IsTrue(key) == Value(key, "false") = Word("true")

(* A mutant: any cell of the grid may be an entry or an exit.              *)
CoordOk_Inside(v) == "pair" \in DOMAIN v /\ v.pair \in Cells

(* _parse_coord, _is_border_cell.                                          *)
CoordOk(v) == "pair" \in DOMAIN v /\ v.pair \in {c \in Cells : OnBorder(c)}

(* ALGORITHM is not looked at before the generator does.                   *)
ConfigOk ==
    /\ Mandatory \subseteq DOMAIN raw
    /\ CoordOk(raw["ENTRY"]) /\ CoordOk(raw["EXIT"]) /\ raw["ENTRY"].pair # raw["EXIT"].pair
    /\ \A k \in Counts \cap DOMAIN raw : IsInt(raw[k]) /\ raw[k].int >= 1
    /\ \A k \in Flags \cap DOMAIN raw : raw[k] \in {Word("true"), Word("false")}
    /\ IsInt(Value("SEED", "none")) \/ Value("SEED", "none") \in {Word("none"), Word("null"), Word("")}
    /\ Value("DISPLAY_MODE", "ascii") \in {Word("ascii"), Word("mlx"), Word("both")}
    /\ Value("PALETTE", "default") \in {Word("default"), Word("colorblind")}

Viewers == CASE Value("DISPLAY_MODE", "ascii") = Word("ascii") -> <<"ascii">>
             [] Value("DISPLAY_MODE", "ascii") = Word("mlx")   -> <<"mlx">>
             [] OTHER -> <<"ascii", "mlx">>

(* A count of ducks lets them appear, whatever DUCKS says.                 *)
NumberOfDucks == IF "DUCKS_COUNT" \in DOMAIN raw THEN raw["DUCKS_COUNT"].int
                 ELSE IF IsTrue("DUCKS") THEN 5 ELSE 0

MazeConfig ==
    [entry     |-> raw["ENTRY"].pair,
     exit      |-> raw["EXIT"].pair,
     perfect   |-> IsTrue("PERFECT"),
     algorithm |-> Value("ALGORITHM", "dfs"),
     viewers   |-> Viewers,
     animate   |-> IsTrue("ANIMATE"),
     ducks     |-> NumberOfDucks,
     moving    |-> IsTrue("DUCKS_ANIMATE"),
     svg       |-> Value("EXPORT_SVG", "") # Word("")]

Build ==
    /\ phase = "config" /\ world.lines = <<>>
    /\ ConfigOk
    /\ conf' = MazeConfig
    /\ raw' = <<>>
    /\ phase' = "generate"
    /\ UNCHANGED world

Reject ==
    /\ phase = "config" /\ world.lines = <<>>
    /\ ~ConfigOk
    /\ phase' = "failed"
    /\ UNCHANGED <<world, raw, conf>>

Configure == ReadLine \/ Build \/ Reject

=============================================================================

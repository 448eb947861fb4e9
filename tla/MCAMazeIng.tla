---------------------------- MODULE MCAMazeIng ----------------------------
(* Configuration files of AMazeView for a grid of three by three.          *)
EXTENDS AMazeView

Set(k, v) == [kind |-> "key", key |-> k, value |-> v]
Num(n)    == [int |-> n]
Pair(c)   == [pair |-> c]

Basic(p, x) ==
    <<[kind |-> "skip"], Set("WIDTH", Num(3)), Set("HEIGHT", Num(3)), Set("ENTRY", Pair(<<0, 0>>)),
      Set("EXIT", Pair(x)), Set("OUTPUT_FILE", Word("maze.txt")), Set("PERFECT", Word(p))>>

World(p, x, pattern, libraries, more) ==
    [lines |-> Basic(p, x) \o more, pattern |-> pattern, importable |-> libraries]

By(a) == Set("ALGORITHM", Word(a))
Both  == {"ascii", "mlx"}

Middle == {<<1, 1>>}
Row    == {0, 1, 2} \X {2}
Square == Row \cup {2} \X {0, 1, 2}

\* Mazes only made: a search, or the frontier, over the whole grid and around a
\* pattern in its middle; the union of sets on its two upper rows and around the
\* middle; an algorithm the generator does not know.
Made ==
    {World(p, <<2, 2>>, t, {}, <<By(a)>>) :
        p \in {"true", "false"}, a \in {"dfs", "prims"}, t \in {{}, Middle}}
    \cup {World(p, <<1, 2>>, Middle, {}, <<By("kruskals")>>) : p \in {"true", "false"}}
    \cup {World(p, <<2, 1>>, Row, {}, <<By("kruskals")>>) : p \in {"true", "false"}}
    \cup {World("true", <<2, 2>>, {}, {}, <<By("wilson")>>)}

\* Mazes of two by two shown, by one viewer and by both.  Only the last of two
\* values of a key counts.
Shows(p) ==
    {World(p, <<0, 1>>, Square, Both,
           <<By("kruskals"), Set("DUCKS_COUNT", Num(1)), Set("EXPORT_SVG", Word("maze.svg")),
             Set("DISPLAY_MODE", Word("ascii")), Set("DUCKS_ANIMATE", Word("true"))>>),
     World(p, <<0, 1>>, Square, Both,
           <<By("kruskals"), Set("DUCKS", Word("true")), Set("DUCKS_COUNT", Num(1)),
             Set("DISPLAY_MODE", Word("mlx")), Set("ANIMATE", Word("true"))>>),
     World(p, <<1, 1>>, Square, Both,
           <<Set("DISPLAY_MODE", Word("both")), Set("EXIT", Pair(<<1, 0>>)),
             Set("ANIMATE", Word("true")), Set("SEED", Num(42))>>)}

Displayed == Shows("true") \cup Shows("false")

\* Files with one thing wrong, or a value that only some keys may have.
Faults ==
    {<<[kind |-> "other"]>>}
    \cup {<<Set(k, v)>> :
            k \in {"WIDTH", "ENTRY", "EXIT", "PERFECT", "SEED", "DISPLAY_MODE", "PALETTE", "DUCKS_COUNT"},
            v \in {Num(0), Word("null"), Word("ascii"), Word("true"), Word("default"),
                   Pair(<<0, 0>>), Pair(<<1, 1>>), Pair(<<3, 0>>)}}

Faulty ==
    {World("true", <<0, 1>>, Square, {"ascii"}, <<Set("DUCKS", Word("true"))>> \o f) : f \in Faults}
    \cup {[lines |-> Tail(Tail(Basic("true", <<0, 1>>))), pattern |-> Square, importable |-> {}],
          [lines |-> <<>>, pattern |-> Square, importable |-> {}]}

MCWorlds == Made \cup Displayed \cup Faulty
=============================================================================

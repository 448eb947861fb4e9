------------------------------ MODULE MCFlyIn ------------------------------
(* Small maps for FlyIn. *)
EXTENDS FlyIn, TLC

NbDrones(n) == [kind |-> "nb_drones", value |-> n]
Zone(kind, name, x, type, cap) == [kind |-> kind, name |-> name, x |-> x, type |-> type, cap |-> cap]
Connection(a, b, cap) == [kind |-> "connection", a |-> a, b |-> b, cap |-> cap]

NamesDef == <<"a", "b", "c", "e", "s">>

\* A diamond with a bridge between its sides, a way round it, and lines that
\* must be refused.  The zones a and b come in kinds and at places of which
\* some make the distance an overestimate.
LinesDef ==
    {NbDrones(n) : n \in {0, 1, 4}}
    \cup {Zone("start", "s", 0, "normal", 1), Zone("end", "e", 2, "normal", 1),
          Zone("end", "c", 2, "normal", 1)}
    \cup {Zone("hub", "a", 1, "normal", 1), Zone("hub", "a", 1, "restricted", 1),
          Zone("hub", "a", 7, "normal", 2), Zone("hub", "a", 1, "blocked", 1)}
    \cup {Zone("hub", "b", 1, "restricted", 1), Zone("hub", "b", 2, "normal", 1),
          Zone("hub", "b", 1, "normal", 0)}
    \cup {Zone("hub", "c", 1, "normal", 1), Zone("hub", "c", 0, "restricted", 2)}
    \cup {Connection("s", "a", 1), Connection("s", "b", 2),
          Connection("b", "a", 2), Connection("a", "e", 1), Connection("b", "e", 1), Connection("b", "c", 1),
          Connection("c", "e", 1), Connection("a", "c", 1), Connection("c", "s", 1),
          Connection("a", "a", 1)}

=============================================================================

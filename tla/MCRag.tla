------------------------------- MODULE MCRag -------------------------------
(* An instance of Rag: one Markdown file, one Python file and one that is not
   indexed.  For the first command one of the first two has any text up
   to a length; longer runs begin with a few of them. *)
EXTENDS Rag

CONSTANTS md, py, bin

FilesDef == <<md, py, bin>>
KindDef == (md :> "text") @@ (py :> "py") @@ (bin :> "skipped")

Strings(chars, n) == UNION {[1 .. m -> chars] : m \in 0 .. n}
With(m, p) == (md :> m) @@ (py :> p) @@ (bin :> <<"x">>)

IndexablesDef == {With(t, <<"d">>) : t \in Strings({"x", "n"}, 6)}
                   \cup {With(<<"x">>, t) : t \in Strings({"d", "n"}, 6)}
                   \cup {With(<<"x">>, t) : t \in Strings({"d", "n", "e", " "}, 4)}
TreesDef == {With(<<"x", "x", "n", "n", "x">>, <<"d">>),
             With(<<"x", "n", "n", "n", "x">>, <<"d", "n", "e">>)}
EditsDef == {None, <<"n", "x">>}

\* The first question expects a chunk of the Markdown file, the last has no identifier
LimitsDef == {None, 0, 1}

QuestionsDef ==
  <<[id |-> "q1", known |-> TRUE, sources |-> {[file |-> md, start |-> 0, end |-> 1]}],
    [id |-> None, known |-> FALSE, sources |-> {[file |-> py, start |-> 0, end |-> 1]}]>>
=============================================================================
